--------------------------- MODULE SimRunnerProofs ---------------------------
(***************************************************************************)
(* The simulator's status is true, and its steps are those of the feed,    *)
(* for any number of loops and of commands that overlap.                   *)
(*                                                                         *)
(* The strengthening for the status: a cancelled task is alive and asleep. *)
(* So a loop with its turn is not cancelled, and as a task number is used  *)
(* again only when its loop is over, no loop is born cancelled.  For the   *)
(* feed: what is committed to a reset stays within the bound of resets.    *)
(***************************************************************************)
EXTENDS SimRunner, FiniteSetTheorems, TLAPS

Stages == {"none", "new", "due", "diverged", "overran", "asleep", "slow"}

Asleep == {"new", "asleep", "slow"}

CancelledAsleep == cancelled \subseteq {i \in Loops : loops[i] \in Asleep}

IInv == /\ loops \in [Loops -> Stages]
        /\ CancelledAsleep
        /\ RunningIsTrue

\* A loop that takes a step without ending.
LEMMA StaysLive ==
    ASSUME IInv, NEW i \in Loops, i \notin cancelled,
           NEW s \in Stages \ {"none"},
           loops' = [loops EXCEPT ![i] = s],
           UNCHANGED <<running, cancelled>>
    PROVE  IInv'
BY DEF IInv, CancelledAsleep, RunningIsTrue, Live, Stages, Asleep

\* A new loop runs, and nobody has told it to go.
LEMMA NewLoopRuns ==
    ASSUME IInv, NEW i \in Loops, ~Live(i), NewLoop(i)
    PROVE  IInv'
<1>1. i \notin cancelled
  BY DEF IInv, CancelledAsleep, Live, Asleep
<1>2. loops' = [loops EXCEPT ![i] = "new"] /\ cancelled' = cancelled
  BY DEF NewLoop
<1>3. loops' \in [Loops -> Stages] /\ loops'[i] = "new"
  BY <1>2 DEF IInv, Stages
<1>4. CancelledAsleep'
  BY <1>1, <1>2 DEF IInv, CancelledAsleep
<1>5. RunningIsTrue'
  BY <1>1, <1>2, <1>3 DEF RunningIsTrue, Live
<1> QED BY <1>3, <1>4, <1>5 DEF IInv

LEMMA InitIInv == ASSUME Init PROVE IInv
<1>1. PICK i \in Loops : loops = [j \in Loops |-> IF j = i THEN "new" ELSE "none"]
  BY DEF Init
<1> QED BY <1>1 DEF Init, IInv, CancelledAsleep, RunningIsTrue, Live, Stages

\* No step of a handler or of a loop breaks the invariant.
LEMMA NextIInv == ASSUME IInv, [Next]_simVars PROVE IInv'
<1>1. CASE UNCHANGED <<running, loops, cancelled>>
  BY <1>1 DEF IInv, CancelledAsleep, RunningIsTrue, Live
<1>2. ASSUME StartIfStopped PROVE IInv'
  <2>1. CASE UNCHANGED taskVars
    BY <1>1, <2>1 DEF taskVars
  <2>2. CASE \E i \in Unused : NewLoop(i)
    BY <2>2, NewLoopRuns DEF Unused
  <2> QED BY <1>2, <2>1, <2>2 DEF StartIfStopped
<1>3. CASE Start
  BY <1>2, <1>3 DEF Start
<1>4. ASSUME NEW active \in BOOLEAN, Disturb(active) PROVE IInv'
  BY <1>1, <1>2, <1>4 DEF Disturb, taskVars
<1>5. ASSUME NEW r \in Requests, NEW does, Halt(r, does) PROVE IInv'
  <2>1. Live(task) => task \in Loops /\ loops[task] \in Asleep
    BY <1>5 DEF Halt, EventLoopFree, IInv, Live, Stages, Asleep
  <2> QED BY <1>5, <2>1 DEF Halt, IInv, CancelledAsleep, RunningIsTrue
<1>6. CASE Restart
  <2>1. PICK i \in Loops : loops' = [j \in Loops |-> IF j = i THEN "new" ELSE "none"]
    BY <1>6 DEF Restart
  <2> QED BY <1>6, <2>1 DEF Restart, IInv, CancelledAsleep, RunningIsTrue, Live, Stages
<1>7. ASSUME NEW i \in Loops, Step(i) PROVE IInv'
  <2>1. CASE Wake(i)
    <3>1. CASE i \in cancelled
      BY <2>1, <3>1 DEF Wake, IInv, CancelledAsleep, RunningIsTrue, Live, Stages
    <3>2. CASE i \notin cancelled
      <4>1. AfterOverruns(overruns') \in Stages \ {"none"}
        BY DEF AfterOverruns, Stages
      <4>2. loops' = [loops EXCEPT ![i] = AfterOverruns(overruns')]
        BY <2>1, <3>2 DEF Wake
      <4>3. UNCHANGED <<running, cancelled>>
        BY <2>1, <3>2 DEF Wake
      <4> QED BY <3>2, <4>1, <4>2, <4>3, StaysLive
    <3> QED BY <3>1, <3>2
  <2>2. CASE Tick(i)
    <3>1. PICK after \in {"asleep", "slow", "diverged"} :
             loops' = [loops EXCEPT ![i] = after]
      BY <2>2 DEF Tick
    <3>2. i \notin cancelled /\ UNCHANGED <<running, cancelled>>
      BY <2>2 DEF Tick, IInv, CancelledAsleep, Asleep
    <3> QED BY <3>1, <3>2, StaysLive DEF Stages
  <2>3. CASE Exit(i)
    BY <2>3 DEF Exit, IInv, CancelledAsleep, RunningIsTrue, Stages, Asleep
  <2>4. CASE Recover(i)
    <3>1. i \notin cancelled /\ UNCHANGED <<running, cancelled>>
      BY <2>4 DEF Recover, IInv, CancelledAsleep, Asleep
    <3>2. PICK after \in {"due", "asleep", "slow"} : loops' = [loops EXCEPT ![i] = after]
      BY <2>4 DEF Recover
    <3> QED BY <3>1, <3>2, StaysLive DEF Stages
  <2> QED BY <1>7, <2>1, <2>2, <2>3, <2>4 DEF Step
<1>8. ASSUME NEW r \in Requests, Finish(r) PROVE IInv'
  <2>1. CASE FinishStop(r)
    BY <1>1, <2>1 DEF FinishStop
  <2>2. CASE FinishReset(r)
    BY <2>2, NewLoopRuns DEF FinishReset, Unused
  <2> QED BY <1>8, <2>1, <2>2 DEF Finish
<1>9. CASE Reader
  BY <1>1, <1>9 DEF Reader, taskVars
<1>10. CASE UNCHANGED simVars
  BY <1>1, <1>10 DEF simVars, taskVars
<1> QED
  BY <1>3, <1>4, <1>5, <1>6, <1>7, <1>8, <1>9, <1>10 DEF Next, Serve, Command

\* Whatever commands overlap in whatever order, a simulation that says it runs
\* has a loop that ticks.
THEOREM StatusIsTrue == Spec => []RunningIsTrue
<1>1. Init => IInv
  BY InitIInv
<1>2. IInv /\ [Next]_simVars => IInv'
  BY NextIInv
<1>3. IInv => RunningIsTrue
  BY DEF IInv
<1> QED BY <1>1, <1>2, <1>3, PTL DEF Spec

-----------------------------------------------------------------------------
(***************************************************************************)
(* The feed.  Every step is one of PlantFeed or of the stream's readers.   *)
(* That the feed's resets stay within their bound needs a count: what is   *)
(* committed to a reset, a request that waits or a loop that may have to   *)
(* recover, gives up its place when it resets.                             *)
(***************************************************************************)
Resetting == {r \in Requests : waiting[r].does = "reset"}
Late == {i \in Loops : loops[i] \in {"slow", "diverged", "overran"}}

Overrunning == \E i \in Loops : loops[i] = "overran"

ResetsInv ==
    /\ waiting \in [Requests -> [does : {"nothing", "stop", "reset"},
                                 for : Loops \cup {None, Over}]]
    /\ loops \in [Loops -> Stages]
    /\ epoch \in Nat /\ Committed <= MaxResets
    /\ overruns \in Nat /\ (overruns < MaxOverruns \/ Overrunning)
    /\ level \in Feed!Levels

LEMMA CommittedIs ==
    /\ IsFiniteSet(Resetting) /\ Cardinality(Resetting) \in Nat
    /\ IsFiniteSet(Late) /\ Cardinality(Late) \in Nat
    /\ Committed = epoch + Cardinality(Resetting) + Cardinality(Late)
    /\ Committed' = epoch' + Cardinality(Resetting') + Cardinality(Late')
<1>1. IsFiniteSet(Requests) /\ IsFiniteSet(Loops)
  BY SimAssumption
<1>2. Resetting \subseteq Requests /\ Late \subseteq Loops
  BY DEF Resetting, Late
<1>3. IsFiniteSet(Resetting) /\ IsFiniteSet(Late)
  BY <1>1, <1>2, FS_Subset
<1>4. QED
  BY <1>3, FS_CardinalityType DEF Committed, Resetting, Late

\* A part has no more members than the whole, and fewer if one is missing.
LEMMA Fewer ==
    ASSUME NEW S, IsFiniteSet(S), NEW T, T \subseteq S
    PROVE  /\ Cardinality(T) \in Nat /\ Cardinality(T) <= Cardinality(S)
           /\ \A x \in S : x \notin T => Cardinality(T) + 1 <= Cardinality(S)
<1>1. /\ IsFiniteSet(T) /\ Cardinality(T) \in Nat /\ Cardinality(S) \in Nat
      /\ Cardinality(T) <= Cardinality(S)
  BY FS_Subset, FS_CardinalityType
<1>2. ASSUME NEW x \in S, x \notin T PROVE Cardinality(T) + 1 <= Cardinality(S)
  <2>1. IsFiniteSet(S \ {x}) /\ Cardinality(S \ {x}) = Cardinality(S) - 1
    BY <1>2, FS_RemoveElement
  <2>2. T \subseteq S \ {x}
    BY <1>2
  <2>3. Cardinality(T) <= Cardinality(S \ {x})
    BY <2>1, <2>2, FS_Subset
  <2>4. QED
    BY <1>1, <2>1, <2>3
<1>3. QED
  BY <1>1, <1>2

LEMMA OneMore ==
    ASSUME NEW S, IsFiniteSet(S), NEW x, NEW T, T \subseteq S \cup {x}
    PROVE  Cardinality(T) \in Nat /\ Cardinality(T) <= Cardinality(S) + 1
<1>1. /\ IsFiniteSet(S \cup {x}) /\ Cardinality(S) \in Nat
      /\ Cardinality(S \cup {x}) <= Cardinality(S) + 1
  <2>1. Cardinality(S) \in Nat
    BY FS_CardinalityType
  <2>2. CASE x \in S
    <3>1. S \cup {x} = S
      BY <2>2
    <3> QED BY <2>1, <3>1
  <2>3. CASE x \notin S
    <3>1. IsFiniteSet(S \cup {x}) /\ Cardinality(S \cup {x}) = Cardinality(S) + 1
      BY <2>3, FS_AddElement
    <3> QED BY <2>1, <3>1
  <2> QED BY <2>2, <2>3
<1>2. IsFiniteSet(T) /\ Cardinality(T) <= Cardinality(S \cup {x}) /\ Cardinality(T) \in Nat
  BY <1>1, FS_Subset, FS_CardinalityType
<1>3. QED
  BY <1>1, <1>2, FS_CardinalityType

\* How a step may change what is committed: not beyond what there was, by one more if
\* there is room, or by a reset in place of what led to it.
LEMMA WithinBound ==
    ASSUME ResetsInv, epoch' \in Nat,
           \/ /\ epoch' = epoch /\ Resetting' \subseteq Resetting /\ Late' \subseteq Late
           \/ /\ CanReset /\ epoch' = epoch /\ Resetting' \subseteq Resetting
              /\ \E i : Late' \subseteq Late \cup {i}
           \/ /\ CanReset /\ epoch' = epoch /\ Late' \subseteq Late
              /\ \E r : Resetting' \subseteq Resetting \cup {r}
           \/ /\ epoch' = epoch + 1 /\ Resetting' \subseteq Resetting /\ Late' \subseteq Late
              /\ \/ CanReset
                 \/ \E r \in Resetting : r \notin Resetting'
                 \/ \E i \in Late : i \notin Late'
    PROVE  Committed' <= MaxResets
<1> DEFINE R == Cardinality(Resetting)
           L == Cardinality(Late)
           S == Cardinality(Resetting')
           M == Cardinality(Late')
<1>1. /\ R \in Nat /\ L \in Nat /\ epoch \in Nat /\ MaxResets \in Nat
      /\ Committed = epoch + R + L /\ Committed' = epoch' + S + M
      /\ Committed <= MaxResets /\ (CanReset => Committed < MaxResets)
  BY CommittedIs, SimAssumption DEF ResetsInv, CanReset
<1>2. /\ Resetting' \subseteq Resetting => S \in Nat /\ S <= R
      /\ \A r \in Resetting : Resetting' \subseteq Resetting /\ r \notin Resetting' => S + 1 <= R
      /\ (\E r : Resetting' \subseteq Resetting \cup {r}) => S \in Nat /\ S <= R + 1
  BY CommittedIs, Fewer, OneMore
<1>3. /\ Late' \subseteq Late => M \in Nat /\ M <= L
      /\ \A i \in Late : Late' \subseteq Late /\ i \notin Late' => M + 1 <= L
      /\ (\E i : Late' \subseteq Late \cup {i}) => M \in Nat /\ M <= L + 1
  BY CommittedIs, Fewer, OneMore
<1> HIDE DEF R, L, S, M
<1>4. QED
  BY <1>1, <1>2, <1>3

LEMMA InitResets == ASSUME Init PROVE ResetsInv
<1>1. PICK i \in Loops : loops = [j \in Loops |-> IF j = i THEN "new" ELSE "none"]
  BY DEF Init
<1>2. Resetting = {} /\ Late = {}
  BY <1>1 DEF Init, Idle, Resetting, Late
<1>3. Committed = 0
  BY <1>2, CommittedIs, FS_EmptySet DEF Init
<1> QED
  BY <1>1, <1>3, SimAssumption DEF Init, Idle, ResetsInv, Stages, Feed!Levels

\* A step that adds nothing to what is committed, and counts no overrun.
LEMMA NoMoreResets ==
    ASSUME ResetsInv, UNCHANGED <<epoch, overruns>>,
           level' \in Feed!Levels,
           waiting' \in [Requests -> [does : {"nothing", "stop", "reset"},
                                      for : Loops \cup {None, Over}]],
           loops' \in [Loops -> Stages],
           Resetting' \subseteq Resetting, Late' \subseteq Late,
           Overrunning => Overrunning'
    PROVE  ResetsInv'
<1>1. Committed' <= MaxResets
  BY WithinBound DEF ResetsInv
<1> QED BY <1>1 DEF ResetsInv

LEMMA NewLoopResets ==
    ASSUME ResetsInv, NEW i \in Loops, i \in Unused, NewLoop(i)
    PROVE  loops' \in [Loops -> Stages] /\ Late' \subseteq Late /\ (Overrunning => Overrunning')
<1>1. loops[i] = "none" /\ loops' = [loops EXCEPT ![i] = "new"] /\ loops \in [Loops -> Stages]
  BY DEF ResetsInv, Unused, Live, NewLoop
<1> QED BY <1>1 DEF Late, Overrunning, Stages

LEMMA StartResets ==
    ASSUME ResetsInv, StartIfStopped, UNCHANGED <<waiting, level, epoch, overruns>>
    PROVE  ResetsInv'
<1>1. Resetting' \subseteq Resetting /\ level' \in Feed!Levels
  BY DEF Resetting, ResetsInv
<1>2. CASE UNCHANGED taskVars
  <2>1. loops' \in [Loops -> Stages] /\ Late' \subseteq Late /\ (Overrunning => Overrunning')
    BY <1>2 DEF taskVars, ResetsInv, Late, Overrunning
  <2> QED BY <1>1, <2>1, NoMoreResets DEF ResetsInv
<1>3. CASE \E i \in Unused : NewLoop(i)
  <2>1. loops' \in [Loops -> Stages] /\ Late' \subseteq Late /\ (Overrunning => Overrunning')
    BY <1>3, NewLoopResets DEF Unused
  <2> QED BY <1>1, <2>1, NoMoreResets DEF ResetsInv
<1> QED BY <1>2, <1>3 DEF StartIfStopped

LEMMA HaltResets ==
    ASSUME ResetsInv, NEW r \in Requests, NEW does \in {"stop", "reset"}, Halt(r, does),
           does = "reset" => CanReset
    PROVE  ResetsInv'
<1>1. /\ waiting' = [waiting EXCEPT ![r] = [does |-> does, for |-> waiting'[r].for]]
      /\ waiting'[r].for \in Loops \cup {None, Over}
      /\ waiting \in [Requests -> [does : {"nothing", "stop", "reset"},
                                    for : Loops \cup {None, Over}]]
  BY DEF Halt, ResetsInv, Live
<1>2. /\ UNCHANGED <<loops, epoch, overruns, level>>
  BY DEF Halt, plantVars
<1>3. waiting' \in [Requests -> [does : {"nothing", "stop", "reset"},
                                 for : Loops \cup {None, Over}]]
  BY <1>1
<1>4. Late' \subseteq Late /\ (Overrunning => Overrunning')
  BY <1>2 DEF Late, Overrunning
<1>5. /\ Resetting' \subseteq Resetting \cup {r}
      /\ does = "stop" => Resetting' \subseteq Resetting
  BY <1>1 DEF Resetting
<1>6. Committed' <= MaxResets
  BY <1>2, <1>4, <1>5, WithinBound DEF ResetsInv
<1> QED BY <1>2, <1>3, <1>4, <1>6 DEF ResetsInv

\* The request that waited for the loop goes on.
LEMMA ResumeResets ==
    ASSUME ResetsInv, NEW r \in Requests, Resume(r)
    PROVE  /\ waiting' \in [Requests -> [does : {"nothing", "stop", "reset"},
                                        for : Loops \cup {None, Over}]]
           /\ Resetting' \subseteq Resetting /\ r \notin Resetting'
<1>1. /\ waiting' = [waiting EXCEPT ![r] = [does |-> "nothing", for |-> None]]
      /\ waiting \in [Requests -> [does : {"nothing", "stop", "reset"},
                                    for : Loops \cup {None, Over}]]
  BY DEF Resume, Idle, ResetsInv
<1> QED BY <1>1 DEF Resetting

LEMMA FinishResets ==
    ASSUME ResetsInv, NEW r \in Requests, Finish(r)
    PROVE  ResetsInv'
<1>1. CASE FinishStop(r)
  <2>1. UNCHANGED <<loops, epoch, overruns, level>> /\ Resume(r)
    BY <1>1 DEF FinishStop, Resume, plantVars
  <2>2. Late' \subseteq Late /\ (Overrunning => Overrunning')
    BY <2>1 DEF Late, Overrunning
  <2> QED BY <2>1, <2>2, ResumeResets, NoMoreResets DEF ResetsInv
<1>2. CASE FinishReset(r)
  <2>1. /\ Resume(r) /\ epoch' = epoch + 1 /\ level' = "in" /\ UNCHANGED overruns
        /\ r \in Resetting
        /\ \E i \in Unused : NewLoop(i)
    BY <1>2 DEF FinishReset, ResetToNominal, Resetting, Resume
  <2>2. loops' \in [Loops -> Stages] /\ Late' \subseteq Late /\ (Overrunning => Overrunning')
    BY <2>1, NewLoopResets DEF Unused
  <2>3. Committed' <= MaxResets
    BY <2>1, <2>2, ResumeResets, WithinBound DEF ResetsInv
  <2> QED BY <2>1, <2>2, <2>3, ResumeResets DEF ResetsInv, Feed!Levels
<1> QED BY <1>1, <1>2 DEF Finish

\* A loop that wakes was the only one with its turn, so the overruns are below
\* the limit, or the one that passes it is at its recovery.
LEMMA WakeResets ==
    ASSUME ResetsInv, NEW i \in Loops, Wake(i)
    PROVE  ResetsInv'
<1>1. UNCHANGED <<epoch, level>> /\ loops[i] \in {"new", "asleep", "slow"} /\ ~Overrunning
  BY DEF Wake, plantVars, EventLoopFree, Overrunning
<1>2. CASE i \in cancelled
  <2>1. /\ loops' = [loops EXCEPT ![i] = "none"]
        /\ waiting' = [r \in Requests |-> IF waiting[r].for # i THEN waiting[r]
                                         ELSE [waiting[r] EXCEPT !.for = Over]]
        /\ UNCHANGED overruns
    BY <1>2 DEF Wake
  <2>2. loops' \in [Loops -> Stages] /\ Late' \subseteq Late
    BY <2>1 DEF ResetsInv, Stages, Late
  <2>3. /\ waiting' \in [Requests -> [does : {"nothing", "stop", "reset"},
                                     for : Loops \cup {None, Over}]]
        /\ Resetting' \subseteq Resetting
    BY <2>1 DEF ResetsInv, Resetting
  <2> QED BY <1>1, <2>1, <2>2, <2>3, NoMoreResets DEF ResetsInv
<1>3. CASE i \notin cancelled
  <2>1. /\ overruns' = CASE loops[i] = "new" -> overruns
                         [] loops[i] = "asleep" -> 0
                         [] loops[i] = "slow" -> overruns + 1
        /\ loops' = [loops EXCEPT ![i] = AfterOverruns(overruns')]
        /\ UNCHANGED waiting
    BY <1>3 DEF Wake
  <2>2. /\ overruns \in Nat /\ overruns < MaxOverruns
        /\ loops \in [Loops -> Stages]
        /\ MaxOverruns \in Nat \ {0}
    BY <1>1, SimAssumption DEF ResetsInv
  <2>3. /\ overruns' \in Nat
        /\ overruns' >= MaxOverruns => loops[i] = "slow"
    BY <1>1, <2>1, <2>2
  <2>4. /\ loops' \in [Loops -> Stages] /\ Late' \subseteq Late
        /\ overruns' < MaxOverruns \/ Overrunning'
    <3>1. CASE overruns' >= MaxOverruns
      <4>1. loops' = [loops EXCEPT ![i] = "overran"] /\ loops[i] = "slow"
        BY <2>1, <2>3, <3>1 DEF AfterOverruns
      <4> QED BY <2>2, <4>1 DEF Stages, Late, Overrunning
    <3>2. CASE ~(overruns' >= MaxOverruns)
      <4>1. loops' = [loops EXCEPT ![i] = "due"]
        BY <2>1, <3>2 DEF AfterOverruns
      <4>2. overruns' < MaxOverruns
        BY <2>2, <2>3, <3>2
      <4> QED BY <2>2, <4>1, <4>2 DEF Stages, Late
    <3> QED BY <3>1, <3>2
  <2>5. Resetting' \subseteq Resetting
    BY <2>1 DEF Resetting
  <2>6. Committed' <= MaxResets
    BY <1>1, <2>4, <2>5, WithinBound DEF ResetsInv
  <2> QED BY <1>1, <2>1, <2>3, <2>4, <2>6 DEF ResetsInv
<1> QED BY <1>2, <1>3

LEMMA StepResets ==
    ASSUME ResetsInv, NEW i \in Loops, Step(i)
    PROVE  ResetsInv'
<1>1. CASE Tick(i)
  <2>1. PICK after \in {"asleep", "slow", "diverged"} :
           /\ loops' = [loops EXCEPT ![i] = after]
           /\ after # "asleep" => CanReset
    BY <1>1 DEF Tick
  <2>2. UNCHANGED <<waiting, epoch, overruns>> /\ loops[i] = "due"
    BY <1>1 DEF Tick
  <2>3. level' \in Feed!Levels
    BY <1>1 DEF Tick, Evolved, ResetsInv, Feed!Levels
  <2>4. /\ loops' \in [Loops -> Stages] /\ Late' \subseteq Late \cup {i}
        /\ after = "asleep" => Late' \subseteq Late
        /\ Overrunning => Overrunning'
    BY <2>1, <2>2 DEF ResetsInv, Stages, Late, Overrunning
  <2>5. Resetting' \subseteq Resetting
    BY <2>2 DEF Resetting
  <2>6. Committed' <= MaxResets
    BY <2>1, <2>2, <2>4, <2>5, WithinBound DEF ResetsInv
  <2> QED BY <2>2, <2>3, <2>4, <2>6 DEF ResetsInv
<1>2. CASE Exit(i)
  <2>1. /\ UNCHANGED <<waiting, epoch, overruns, level>> /\ loops[i] = "due"
        /\ loops' = [loops EXCEPT ![i] = "none"]
    BY <1>2 DEF Exit, plantVars
  <2>2. loops' \in [Loops -> Stages] /\ Late' \subseteq Late /\ (Overrunning => Overrunning')
    BY <2>1 DEF ResetsInv, Stages, Late, Overrunning
  <2>3. Resetting' \subseteq Resetting
    BY <2>1 DEF Resetting
  <2> QED BY <2>1, <2>2, <2>3, NoMoreResets DEF ResetsInv
<1>3. CASE Recover(i)
  <2>1. /\ epoch' = epoch + 1 /\ level' = "in" /\ UNCHANGED waiting
        /\ loops \in [Loops -> Stages]
    BY <1>3 DEF Recover, ResetToNominal, ResetsInv
  <2>2. Resetting' \subseteq Resetting
    BY <2>1 DEF Resetting
  <2>3. CASE loops[i] = "overran" /\ loops' = [loops EXCEPT ![i] = "due"] /\ overruns' = 0
    <3>1. /\ loops' \in [Loops -> Stages] /\ Late' \subseteq Late
          /\ i \in Late /\ i \notin Late'
      BY <2>1, <2>3 DEF Stages, Late
    <3>2. Committed' <= MaxResets
      BY <2>1, <2>2, <3>1, WithinBound DEF ResetsInv
    <3> QED BY <2>1, <2>3, <3>1, <3>2, SimAssumption DEF ResetsInv, Feed!Levels
  <2>4. ASSUME NEW after \in {"asleep", "slow"}, after = "slow" => CanReset,
               loops[i] = "diverged", loops' = [loops EXCEPT ![i] = after],
               UNCHANGED overruns
        PROVE  ResetsInv'
    <3>1. /\ loops' \in [Loops -> Stages] /\ Late' \subseteq Late
          /\ i \in Late /\ (after = "asleep" => i \notin Late')
          /\ Overrunning => Overrunning'
      BY <2>1, <2>4 DEF Stages, Late, Overrunning
    <3>2. Committed' <= MaxResets
      BY <2>1, <2>2, <2>4, <3>1, WithinBound DEF ResetsInv
    <3> QED BY <2>1, <2>4, <3>1, <3>2 DEF ResetsInv, Feed!Levels
  <2> QED BY <1>3, <2>3, <2>4 DEF Recover
<1> QED BY <1>1, <1>2, <1>3, WakeResets DEF Step

LEMMA RestartResets == ASSUME ResetsInv, Restart PROVE ResetsInv'
<1>1. PICK i \in Loops : loops' = [j \in Loops |-> IF j = i THEN "new" ELSE "none"]
  BY DEF Restart
<1>2. /\ CanReset /\ epoch' = epoch + 1 /\ level' = "in" /\ overruns' = 0
      /\ waiting' = [r \in Requests |-> [does |-> "nothing", for |-> None]]
  BY DEF Restart, Idle
<1>3. Resetting' \subseteq Resetting /\ Late' \subseteq Late
  BY <1>1, <1>2 DEF Resetting, Late
<1>4. Committed' <= MaxResets
  BY <1>2, <1>3, WithinBound DEF ResetsInv
<1> QED BY <1>1, <1>2, <1>4, SimAssumption DEF ResetsInv, Stages, Feed!Levels

LEMMA NextResets == ASSUME ResetsInv, [Next]_simVars PROVE ResetsInv'
<1>1. ASSUME UNCHANGED <<loops, waiting, level, epoch, overruns>> PROVE ResetsInv'
  <2>1. Resetting' \subseteq Resetting /\ Late' \subseteq Late /\ (Overrunning => Overrunning')
    BY <1>1 DEF Resetting, Late, Overrunning
  <2> QED BY <1>1, <2>1, NoMoreResets DEF ResetsInv
<1>2. CASE Start
  BY <1>2, StartResets DEF Start, plantVars
<1>3. ASSUME NEW active \in BOOLEAN, Disturb(active) PROVE ResetsInv'
  BY <1>1, <1>3, StartResets DEF Disturb, taskVars
<1>4. CASE Command
  BY <1>4, HaltResets DEF Command
<1>5. CASE Reader
  BY <1>1, <1>5 DEF Reader, taskVars
<1>6. CASE UNCHANGED simVars
  BY <1>1, <1>6 DEF simVars, taskVars, plantVars
<1> QED
  BY <1>2, <1>3, <1>4, <1>5, <1>6, RestartResets, StepResets, FinishResets DEF Next, Serve

\* There is room for the reset of what was committed to one.
LEMMA RoomToReset ==
    ASSUME ResetsInv, Resetting # {} \/ Late # {}
    PROVE  epoch < MaxResets
<1> DEFINE R == Cardinality(Resetting)
           L == Cardinality(Late)
<1>1. /\ IsFiniteSet(Resetting) /\ IsFiniteSet(Late) /\ R \in Nat /\ L \in Nat
      /\ epoch + R + L <= MaxResets /\ epoch \in Nat /\ MaxResets \in Nat
  BY CommittedIs, SimAssumption DEF ResetsInv
<1>2. R # 0 \/ L # 0
  BY <1>1, FS_EmptySet
<1> HIDE DEF R, L
<1> QED BY <1>1, <1>2

LEMMA InitFeed == ASSUME Init PROVE Feed!Init
BY DEF Init, Feed!Init

LEMMA SwitchFeed ==
    ASSUME running \in BOOLEAN, running' \in BOOLEAN,
           UNCHANGED <<level, epoch, stream, channel, faults>>
    PROVE  [Feed!Next]_(Feed!feedVars)
<1>1. CASE running' = running
  BY <1>1 DEF Feed!feedVars
<1>2. CASE running' = ~running
  BY <1>2 DEF Feed!Next, Feed!Switch
<1> QED BY <1>1, <1>2

LEMMA ResetFeed ==
    ASSUME ResetToNominal, epoch < MaxResets, running' \in {running, TRUE}
    PROVE  Feed!Reset
BY DEF ResetToNominal, Feed!Reset, Feed!Nominal, Feed!Fault, Feed!Sample

\* Every step is one of the feed, or of its readers, or none.
LEMMA NextFeed ==
    ASSUME ResetsInv, running \in BOOLEAN, [Next]_simVars
    PROVE  [Feed!Next \/ Reader]_(Feed!feedVars)
<1>1. ASSUME StartIfStopped \/ UNCHANGED taskVars,
             UNCHANGED <<level, epoch, stream, channel, faults>>
      PROVE  [Feed!Next]_(Feed!feedVars)
  <2>1. running' \in BOOLEAN
    BY <1>1 DEF StartIfStopped, NewLoop, taskVars
  <2> QED BY <1>1, <2>1, SwitchFeed
<1>2. CASE Start
  BY <1>1, <1>2 DEF Start, plantVars
<1>3. ASSUME NEW active \in BOOLEAN, Disturb(active) PROVE [Feed!Next]_(Feed!feedVars)
  BY <1>1, <1>3 DEF Disturb
<1>4. ASSUME NEW r \in Requests, NEW does, Halt(r, does) PROVE [Feed!Next]_(Feed!feedVars)
  BY <1>4, SwitchFeed DEF Halt, plantVars
<1>5. CASE Restart
  <2>1. epoch < MaxResets
    BY <1>5, CommittedIs, SimAssumption DEF Restart, CanReset, ResetsInv
  <2> QED BY <1>5, <2>1 DEF Restart, Feed!Next, Feed!Restart, Feed!Nominal
<1>6. ASSUME NEW i \in Loops, Step(i) PROVE [Feed!Next]_(Feed!feedVars)
  <2>1. CASE Wake(i) \/ Exit(i)
    BY <2>1 DEF Wake, Exit, plantVars, Feed!feedVars
  <2>2. CASE Tick(i)
    <3>1. level' \in Feed!Levels
      BY <2>2 DEF Tick, Evolved, ResetsInv, Feed!Levels
    <3> QED BY <2>2, <3>1 DEF Tick, Feed!Next, Feed!Emit
  <2>3. CASE Recover(i)
    <3>1. i \in Late
      BY <2>3 DEF Recover, Late
    <3>2. epoch < MaxResets /\ ResetToNominal /\ running' = running
      BY <2>3, <3>1, RoomToReset DEF Recover
    <3> QED BY <3>2, ResetFeed DEF Feed!Next
  <2> QED BY <1>6, <2>1, <2>2, <2>3 DEF Step
<1>7. ASSUME NEW r \in Requests, Finish(r) PROVE [Feed!Next]_(Feed!feedVars)
  <2>1. CASE FinishStop(r)
    BY <2>1 DEF FinishStop, plantVars, Feed!feedVars
  <2>2. CASE FinishReset(r)
    <3>1. r \in Resetting
      BY <2>2 DEF FinishReset, Resetting
    <3>2. epoch < MaxResets /\ ResetToNominal /\ running' = TRUE
      BY <2>2, <3>1, RoomToReset DEF FinishReset, NewLoop
    <3> QED BY <3>2, ResetFeed DEF Feed!Next
  <2> QED BY <1>7, <2>1, <2>2 DEF Finish
<1>8. CASE UNCHANGED simVars
  BY <1>8 DEF simVars, taskVars, plantVars, Feed!feedVars
<1> QED
  BY <1>2, <1>3, <1>4, <1>5, <1>6, <1>7, <1>8 DEF Next, Serve, Command

LEMMA NextRunning == ASSUME running \in BOOLEAN, [Next]_simVars PROVE running' \in BOOLEAN
BY DEF Next, Serve, Command, Start, Restart, Disturb, StartIfStopped, NewLoop, Halt, Step,
       Wake, Tick, Exit, Recover, Finish, FinishStop, FinishReset, Reader, simVars, taskVars

\* Refinement.  Whatever handlers, loops and commands in flight do, and in
\* whatever order, is a step of the feed PlantFeed promises, or no step of it:
\* nothing is published of a stopped simulation, and every reset but a restart
\* sends its sample and its announcement unless Redis fails.
THEOREM StepsAreTheFeeds == Spec => FeedSteps
<1> DEFINE FInv == ResetsInv /\ running \in BOOLEAN
<1>1. Init => FInv /\ Feed!Init
  BY InitResets, InitFeed DEF Init
<1>2. FInv /\ [Next]_simVars => FInv'
  BY NextResets, NextRunning
<1>3. FInv /\ [Next]_simVars => [Feed!Next \/ Reader]_(Feed!feedVars)
  BY NextFeed
<1> HIDE DEF FInv
<1> QED BY <1>1, <1>2, <1>3, PTL DEF Spec, FeedSteps

=============================================================================
