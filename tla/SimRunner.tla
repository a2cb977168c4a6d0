------------------------------ MODULE SimRunner ------------------------------
(***************************************************************************)
(* The plant simulator: HTTP handlers and tick loops, all coroutines of    *)
(* one event loop.  Only two awaits let another coroutine in: the sleep    *)
(* between two ticks, and the wait of stop and of reset for the task they  *)
(* cancelled.  The plant it simulates is one process variable, as in       *)
(* PlantFeed, which it implements.                                         *)
(***************************************************************************)
EXTENDS Naturals, Sequences, FiniteSets

CONSTANTS
    Alarms,       \* the levels outside the envelope
    Loops,        \* bound: the task objects alive at a time
    Requests,     \* bound: stop and reset requests being served at a time
    MaxOverruns,  \* MAX_OVERRUNS
    MaxResets,    \* bound: resets and restarts
    MaxUnread,    \* bound: samples the stream's readers have not used
    MaxFaults,    \* bound: failing calls of Redis
    None, Over

ASSUME SimAssumption ==
    /\ "in" \notin Alarms /\ None \notin Loops /\ Over \notin Loops /\ Loops # {}
    /\ IsFiniteSet(Loops) /\ IsFiniteSet(Requests)
    /\ MaxOverruns \in Nat \ {0} /\ MaxResets \in Nat
    /\ MaxUnread \in Nat /\ MaxFaults \in Nat

VARIABLES
    running,    \* _running
    task,       \* _sim_task
    loops,      \* what each loop is at
    cancelled,  \* the loops told to cancel and not over yet
    waiting,    \* per request: what it will do, and the loop it waits for
    level,      \* the process variable
    disturbed,  \* the model has a fault injected
    overruns,   \* _overruns
    epoch,      \* resets so far
    stream,     \* plant:telemetry, from the first sample not used
    channel,    \* sim:reset, announcements not heard
    faults

plantVars == <<level, disturbed, epoch, stream, channel>>
taskVars == <<running, task, loops, cancelled>>
simVars == <<taskVars, waiting, plantVars, overruns, faults>>

Feed == INSTANCE PlantFeed WITH listening <- TRUE

Idle == [does |-> "nothing", for |-> None]

Live(i) == i \in Loops /\ loops[i] # "none"

Unused == {i \in Loops : ~Live(i)}

\* Bound: there is a task for every loop that is to be started.
TaskLeft == Cardinality(Unused) > Cardinality({r \in Requests : waiting[r].does = "reset"})

\* Who has its turn keeps it up to its next await.
EventLoopFree == /\ \A i \in Loops : loops[i] \notin {"due", "diverged", "overran"}
                 /\ \A r \in Requests : waiting[r] = Idle \/ waiting[r].for # None

\* Bound: the resets done, and those that may follow from what is under way.
Committed == epoch + Cardinality({r \in Requests : waiting[r].does = "reset"})
                   + Cardinality({i \in Loops : loops[i] \in {"slow", "diverged", "overran"}})

CanReset == Committed < MaxResets

-----------------------------------------------------------------------------
\* asyncio.create_task(self._sim_loop()).
NewLoop(i) ==
    /\ running' = TRUE
    /\ task' = i
    /\ loops' = [loops EXCEPT ![i] = "new"]
    /\ UNCHANGED cancelled

StartIfStopped ==
    \/ running /\ UNCHANGED taskVars
    \/ ~running /\ TaskLeft /\ \E i \in Unused : NewLoop(i)

\* Mutant: a reset the loop does to itself is not announced.
ResetUnannounced ==
    /\ epoch' = epoch + 1
    /\ level' = "in" /\ disturbed' = FALSE
    /\ stream' = Append(stream, Feed!Sample(level', epoch'))
    /\ channel' = IF waiting = [r \in Requests |-> Idle] THEN channel
                  ELSE Append(channel, epoch')
    /\ UNCHANGED faults

\* _reset_to_nominal: the baseline sample and the announcement are two calls,
\* and either may fail without the reset failing.
ResetToNominal ==
    /\ epoch' = epoch + 1
    /\ level' = "in" /\ disturbed' = FALSE
    /\ \E lost \in SUBSET {"sample", "announcement"} :
          /\ IF lost = {} THEN UNCHANGED faults ELSE Feed!Fault
          /\ stream' = IF "sample" \in lost THEN stream
                       ELSE Append(stream, Feed!Sample(level', epoch'))
          /\ channel' = IF "announcement" \in lost THEN channel
                        ELSE Append(channel, epoch')

-----------------------------------------------------------------------------
\* POST /sim/start, and the start at boot.
Start ==
    /\ EventLoopFree
    /\ StartIfStopped
    /\ UNCHANGED <<waiting, plantVars, overruns, faults>>

\* POST /sim/idv starts a stopped simulation; POST /sim/fault does not.
Disturb(active) ==
    /\ EventLoopFree
    /\ StartIfStopped \/ UNCHANGED taskVars
    /\ disturbed' = active
    /\ UNCHANGED <<waiting, level, epoch, stream, channel, overruns, faults>>

\* Mutant: the flag is left to the cancellation.
HaltFlagged(r, does) ==
    /\ EventLoopFree
    /\ waiting[r] = Idle
    /\ waiting' = [waiting EXCEPT ![r] = [does |-> does,
                                          for |-> IF Live(task) THEN task ELSE None]]
    /\ cancelled' = cancelled \cup {i \in {task} : Live(i)}
    /\ UNCHANGED <<running, task, loops, plantVars, overruns, faults>>

\* What stop and reset do up to their await, if there is a task to wait for.
Halt(r, does) ==
    /\ EventLoopFree
    /\ waiting[r] = Idle
    /\ running' = FALSE
    /\ waiting' = [waiting EXCEPT ![r] = [does |-> does,
                                          for |-> IF Live(task) THEN task ELSE None]]
    /\ cancelled' = cancelled \cup {i \in {task} : Live(i)}
    /\ UNCHANGED <<task, loops, plantVars, overruns, faults>>

\* POST /sim/stop and POST /sim/reset.
Command == \E r \in Requests : \/ Halt(r, "stop")
                               \/ CanReset /\ TaskLeft /\ Halt(r, "reset")

\* The task is over: the handler goes on.
Resume(r) ==
    /\ waiting[r].for = Over => EventLoopFree
    /\ waiting[r].for \in {Over, None}
    /\ waiting' = [waiting EXCEPT ![r] = Idle]
    /\ UNCHANGED overruns

FinishStop(r) ==
    /\ waiting[r].does = "stop"
    /\ Resume(r)
    /\ task' = None
    /\ UNCHANGED <<running, loops, cancelled, plantVars, faults>>

FinishReset(r) ==
    /\ waiting[r].does = "reset"
    /\ Resume(r)
    /\ ResetToNominal
    /\ \E i \in Unused : NewLoop(i)

-----------------------------------------------------------------------------
\* Overruns in a row, and what the loop does about them.
AfterOverruns(n) == IF n >= MaxOverruns THEN "overran" ELSE "due"

\* The loop's step after a sleep: cancelled, or the check of the overruns.
Wake(i) ==
    /\ EventLoopFree
    /\ loops[i] \in {"new", "asleep", "slow"}
    /\ IF i \in cancelled
       THEN /\ loops' = [loops EXCEPT ![i] = "none"]
            /\ waiting' = [r \in Requests |-> IF waiting[r].for # i THEN waiting[r]
                                             ELSE [waiting[r] EXCEPT !.for = Over]]
            /\ UNCHANGED overruns
       ELSE /\ overruns' = CASE loops[i] = "new" -> overruns
                             [] loops[i] = "asleep" -> 0
                             [] loops[i] = "slow" -> overruns + 1
            /\ loops' = [loops EXCEPT ![i] = AfterOverruns(overruns')]
            /\ UNCHANGED waiting
    /\ cancelled' = cancelled \ {i}
    /\ UNCHANGED <<running, task, plantVars, faults>>

\* What the process may do in a step of the model.
Evolved == IF disturbed THEN Alarms \cup {"in"} ELSE {level, "in"}

\* The loop's condition, the tick, and the health of the model after it.  The
\* tick has no await; a failing publication skips the health check.
Tick(i) ==
    /\ loops[i] = "due"
    /\ running
    /\ Len(stream) < MaxUnread
    /\ level' \in Evolved
    /\ \E after \in {"asleep", "slow", "diverged"} :
          /\ after # "asleep" => CanReset
          /\ loops' = [loops EXCEPT ![i] = after]
          /\ \/ /\ after = "diverged" => disturbed
                /\ stream' = Append(stream, Feed!Sample(level', epoch))
                /\ UNCHANGED faults
             \/ /\ after # "diverged"
                /\ Feed!Fault
                /\ UNCHANGED stream
    /\ UNCHANGED <<running, task, cancelled, waiting, disturbed, overruns, epoch, channel>>

\* Mutant: a stopped loop is paused, and stays.
ExitPaused(i) ==
    /\ loops[i] = "due"
    /\ ~running
    /\ loops' = [loops EXCEPT ![i] = "asleep"]
    /\ UNCHANGED <<running, task, cancelled, waiting, plantVars, overruns, faults>>

Exit(i) ==
    /\ loops[i] = "due"
    /\ ~running
    /\ loops' = [loops EXCEPT ![i] = "none"]
    /\ UNCHANGED <<running, task, cancelled, waiting, plantVars, overruns, faults>>

\* A diverged model, or one too slow for too long, goes back to nominal.
Recover(i) ==
    /\ loops[i] \in {"diverged", "overran"}
    /\ ResetToNominal
    /\ \/ /\ loops[i] = "overran"
          /\ loops' = [loops EXCEPT ![i] = "due"]
          /\ overruns' = 0
       \/ /\ loops[i] = "diverged"
          /\ loops' \in {[loops EXCEPT ![i] = after] :
                            after \in {"asleep"} \cup (IF CanReset THEN {"slow"} ELSE {})}
          /\ UNCHANGED overruns
    /\ UNCHANGED <<running, task, cancelled, waiting>>

\* The process is restarted: nominal, and nobody is told.
Restart ==
    /\ CanReset /\ epoch' = epoch + 1
    /\ \E i \in Loops : /\ loops' = [j \in Loops |-> IF j = i THEN "new" ELSE "none"]
                        /\ task' = i
    /\ running' = TRUE /\ cancelled' = {}
    /\ waiting' = [r \in Requests |-> Idle]
    /\ level' = "in" /\ disturbed' = FALSE /\ overruns' = 0
    /\ UNCHANGED <<stream, channel, faults>>

-----------------------------------------------------------------------------
Init ==
    /\ running = TRUE
    /\ \E i \in Loops : /\ task = i
                        /\ loops = [j \in Loops |-> IF j = i THEN "new" ELSE "none"]
    /\ cancelled = {} /\ waiting = [r \in Requests |-> Idle]
    /\ level = "in" /\ disturbed = FALSE
    /\ overruns = 0 /\ epoch = 0
    /\ stream = <<>> /\ channel = <<>> /\ faults = 0

Step(i) == Wake(i) \/ Tick(i) \/ Exit(i) \/ Recover(i)

Finish(r) == FinishStop(r) \/ FinishReset(r)

Serve == \/ Start \/ Restart \/ Command
         \/ \E active \in BOOLEAN : Disturb(active)
         \/ \E i \in Loops : Step(i)
         \/ \E r \in Requests : Finish(r)

\* The readers of the stream and of the channel, at their own pace.
ReadStream == stream # <<>> /\ stream' = <<>> /\ UNCHANGED channel
ReadChannel == channel' = <<>> /\ UNCHANGED stream

Reader == /\ ReadStream \/ ReadChannel
          /\ UNCHANGED <<taskVars, waiting, level, disturbed, overruns, epoch, faults>>

Next == Serve \/ Reader

\* The event loop's queue is first in, first out: what is ready has its turn.
Fairness == /\ \A i \in Loops : SF_simVars(Step(i))
            /\ \A r \in Requests : SF_simVars(Finish(r))
            /\ WF_simVars(Reader)

Spec == Init /\ [][Next]_simVars /\ Fairness

\* Type invariant; the overruns in a row never pass the limit they are counted to.
TypeOK ==
    /\ running \in BOOLEAN /\ task \in Loops \cup {None}
    /\ loops \in [Loops -> {"none", "new", "due", "diverged", "overran", "asleep", "slow"}]
    /\ cancelled \subseteq Loops
    /\ waiting \in [Requests -> [does : {"nothing", "stop", "reset"},
                                 for : Loops \cup {None, Over}]]
    /\ level \in Feed!Levels /\ disturbed \in BOOLEAN
    /\ overruns \in 0..MaxOverruns /\ epoch \in 0..MaxResets

\* /sim/status and /health say "running" of a simulation that ticks: whatever
\* commands overlap, some loop is there that nobody has told to go.
RunningIsTrue ==
    running => \E i \in Loops : Live(i) /\ i \notin cancelled

\* A simulation that is stopped, and not started again, comes to a standstill,
\* and so do the loops _sim_task no longer names after overlapping commands.
StopHolds == <>[]~running => <>[](\A i \in Loops : ~Live(i))

\* Refinement.  Handlers, loops and commands in flight, whatever their order,
\* amount to the feed: nothing is published of a stopped simulation, a reset
\* is announced whoever does it, and while it runs samples keep coming.
FeedSteps == Feed!Init /\ [][Feed!Next \/ Reader]_(Feed!feedVars)

ImplementsFeed == FeedSteps /\ WF_(Feed!feedVars)(Feed!Emit)

\* The simulator runs when it is to, and stops when it is to.
RunsAsCommanded == StopHolds /\ ImplementsFeed
=============================================================================
