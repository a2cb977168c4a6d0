-------------------------------- MODULE Sweeps --------------------------------
(***************************************************************************)
(* The periodic sweeps of the agents runtime, and the cron that runs one   *)
(* of them besides: overdue inspections, and the revisions of the          *)
(* standards the plant is held to, read off the web.  Both end in alerts,  *)
(* each claimed for a while so that it is not raised again meanwhile.      *)
(*                                                                         *)
(* A revision is its number, 0 none; an alert is an obligation, or a move  *)
(* <<standard, from, to>>.  Claims are counted down in days.               *)
(***************************************************************************)
EXTENDS Naturals, FiniteSets

CONSTANTS
    Obligations,  \* inspections that may become overdue
    Standards,
    ClaimTtl,     \* SWEPT_ALERT_TTL_S, _CLAIM_TTL_S
    MaxRevision,  \* bound: revisions of a standard
    MaxFaults,    \* bound: searches, judgements and publications that fail
    MaxRestarts,  \* bound: restarts
    None

SweepsAssumption ==
    /\ ClaimTtl \in Nat /\ MaxRevision \in Nat /\ MaxFaults \in Nat /\ MaxRestarts \in Nat

Processes == {"runtime", "cron"}
Kinds == {"compliance", "standards"}
Moves == Standards \X (1..MaxRevision) \X (1..MaxRevision)
Alerts == Obligations \cup Moves

VARIABLES
    overdue,    \* obligations whose date has passed, in the graph
    published,  \* the revision each standard is at, on the web
    due,        \* the runtime's sweeps whose interval has passed
    second,     \* its tick has swept for compliance and not yet looked at the standards
    known,      \* the revision the watcher last saw
    claims,     \* what is left of each alert's claim
    telling,    \* the alert raised by the last step, or None
    at,         \* where each process is
    todo,       \* the standards its scan has yet to check
    hand,       \* the move in hand, <<standard, known revision, revision found>>
    batch,      \* the alerts it has to raise
    faults, restarts
world == <<overdue, published>>
tick == <<due, second>>
scan == <<at, todo, hand, batch>>
vars == <<overdue, published, due, second, known, claims, telling, at, todo, hand, batch, faults,
          restarts>>

Goto(p, place) == at' = [at EXCEPT ![p] = place]
Fault == faults < MaxFaults /\ faults' = faults + 1
Forget(p) == /\ Goto(p, "idle")
             /\ todo' = [todo EXCEPT ![p] = {}]
             /\ hand' = [hand EXCEPT ![p] = None]
             /\ batch' = [batch EXCEPT ![p] = {}]

-----------------------------------------------------------------------------
(* The plant, the standards and the clock *)

Change ==
    /\ \/ \E o \in Obligations :
             overdue' \in {overdue \cup {o}, overdue \ {o}} \ {overdue}
          /\ UNCHANGED published
       \/ \E s \in Standards : /\ published[s] < MaxRevision
                               /\ published' = [published EXCEPT ![s] = @ + 1]
                               /\ UNCHANGED overdue
    /\ telling' = None
    /\ UNCHANGED <<tick, known, claims, scan, faults, restarts>>

\* A day: the claims run down, and both sweeps' intervals have passed.
DayPasses ==
    /\ claims' = [a \in Alerts |-> IF claims[a] = 0 THEN 0 ELSE claims[a] - 1]
    /\ due' = Kinds
    /\ telling' = None
    /\ UNCHANGED <<world, second, known, scan, faults, restarts>>

\* An hour, the interval of the compliance sweep.
HourPasses ==
    /\ due' = due \cup {"compliance"}
    /\ telling' = None
    /\ UNCHANGED <<world, second, known, claims, scan, faults, restarts>>

-----------------------------------------------------------------------------
(* The scans *)

\* run_compliance: next_due < today, for every obligation in the graph.
SweepCompliance ==
    /\ at["runtime"] = "idle" /\ ~second /\ "compliance" \in due
    /\ due' = due \ {"compliance"} /\ second' = TRUE
    /\ batch' = [batch EXCEPT !["runtime"] = overdue]
    /\ Goto("runtime", "emit")
    /\ telling' = None
    /\ UNCHANGED <<world, known, claims, todo, hand, faults, restarts>>

\* The runtime comes to the standards after compliance; the cron whenever it is run.
WatchStandards(p) ==
    /\ at[p] = "idle"
    /\ \/ p = "cron" /\ UNCHANGED tick
       \/ /\ p = "runtime" /\ "standards" \in due
          /\ second \/ "compliance" \notin due
          /\ due' = due \ {"standards"} /\ second' = FALSE
    /\ todo' = [todo EXCEPT ![p] = Standards]
    /\ Goto(p, "scan")
    /\ telling' = None
    /\ UNCHANGED <<world, known, claims, hand, batch, faults, restarts>>

\* What the web search reports, or nothing it could establish.
Search(p) ==
    /\ at[p] = "scan"
    /\ \E s \in todo[p] :
          /\ todo' = [todo EXCEPT ![p] = @ \ {s}]
          /\ \/ /\ hand' = [hand EXCEPT ![p] = <<s, 0, published[s]>>]
                /\ Goto(p, "check") /\ UNCHANGED faults
             \/ Fault /\ UNCHANGED <<at, hand>>
    /\ telling' = None
    /\ UNCHANGED <<world, tick, known, claims, batch, restarts>>

\* Mutant: the revision seen is remembered before the one known is read.
ReadKnownLate(p) ==
    /\ at[p] = "check"
    /\ LET s == hand[p][1]
           found == hand[p][3]
       IN /\ known' = [known EXCEPT ![s] = found]
          /\ hand' = [hand EXCEPT ![p] = <<s, found, found>>]
    /\ Goto(p, "remember")
    /\ telling' = None
    /\ UNCHANGED <<world, tick, claims, todo, batch, faults, restarts>>

\* The revision known, before the one seen takes its place.
ReadKnown(p) ==
    /\ at[p] = "check"
    /\ hand' = [hand EXCEPT ![p] = <<hand[p][1], known[hand[p][1]], hand[p][3]>>]
    /\ Goto(p, "remember")
    /\ telling' = None
    /\ UNCHANGED <<world, tick, known, claims, todo, batch, faults, restarts>>

\* The revision seen is remembered before anything is made of it; where none was known it
\* is a baseline.
Remember(p) ==
    /\ at[p] = "remember"
    /\ LET prior == hand[p][2]
           found == hand[p][3]
       IN /\ known' = [known EXCEPT ![hand[p][1]] = found]
          /\ IF prior \in {0, found}
             THEN hand' = [hand EXCEPT ![p] = None] /\ Goto(p, "scan")
             ELSE Goto(p, "judge") /\ UNCHANGED hand
    /\ telling' = None
    /\ UNCHANGED <<world, tick, claims, todo, batch, faults, restarts>>

\* The model says whether it is another revision; a call that fails says it is not.
Judge(p) ==
    /\ at[p] = "judge"
    /\ \/ batch' = [batch EXCEPT ![p] = @ \cup {hand[p]}] /\ UNCHANGED faults
       \/ Fault /\ UNCHANGED batch
    /\ Goto(p, "scan") /\ hand' = [hand EXCEPT ![p] = None]
    /\ telling' = None
    /\ UNCHANGED <<world, tick, known, claims, todo, restarts>>

ScanDone(p) ==
    /\ at[p] = "scan" /\ todo[p] = {}
    /\ Goto(p, "emit")
    /\ telling' = None
    /\ UNCHANGED <<world, tick, known, claims, todo, hand, batch, faults, restarts>>

\* Mutant: the claim has no end.
ClaimForGood(p) ==
    /\ at[p] = "emit"
    /\ \E a \in batch[p] :
          IF claims[a] = 0
          THEN /\ claims' = [claims EXCEPT ![a] = ClaimTtl + 1]
               /\ hand' = [hand EXCEPT ![p] = a] /\ Goto(p, "publish") /\ UNCHANGED batch
          ELSE /\ batch' = [batch EXCEPT ![p] = @ \ {a}]
               /\ claims' = [claims EXCEPT ![a] = ClaimTtl + 1]
               /\ UNCHANGED <<hand, at>>
    /\ telling' = None
    /\ UNCHANGED <<world, tick, known, todo, faults, restarts>>

\* _emit: one alert after the other, if nobody has it claimed.
Claim(p) ==
    /\ at[p] = "emit"
    /\ \E a \in batch[p] :
          IF claims[a] = 0
          THEN /\ claims' = [claims EXCEPT ![a] = ClaimTtl]
               /\ hand' = [hand EXCEPT ![p] = a] /\ Goto(p, "publish") /\ UNCHANGED batch
          ELSE /\ batch' = [batch EXCEPT ![p] = @ \ {a}]
               /\ UNCHANGED <<claims, hand, at>>
    /\ telling' = None
    /\ UNCHANGED <<world, tick, known, todo, faults, restarts>>

PublishAlert(p) ==
    /\ at[p] = "publish"
    /\ telling' = hand[p]
    /\ batch' = [batch EXCEPT ![p] = @ \ {hand[p]}]
    /\ Goto(p, "emit") /\ hand' = [hand EXCEPT ![p] = None]
    /\ UNCHANGED <<world, tick, known, claims, todo, faults, restarts>>

EmitDone(p) ==
    /\ at[p] = "emit" /\ batch[p] = {}
    /\ Forget(p)
    /\ second' = (second /\ (p = "runtime" => "standards" \in due))
    /\ telling' = None
    /\ UNCHANGED <<world, due, known, claims, faults, restarts>>

\* A process that starts has both sweeps due.
Start(p) ==
    IF p = "runtime" THEN due' = Kinds /\ second' = FALSE ELSE UNCHANGED tick

\* A search raises, and what the scan has found is dropped with it; or a publication
\* does, and the process ends.
SweepFails(p) ==
    /\ Fault /\ Forget(p)
    /\ \/ at[p] = "scan" /\ UNCHANGED tick
       \/ at[p] = "publish" /\ Start(p)
    /\ telling' = None
    /\ UNCHANGED <<world, known, claims, restarts>>

Restart(p) ==
    /\ at[p] # "idle"
    /\ restarts < MaxRestarts /\ restarts' = restarts + 1
    /\ Forget(p) /\ Start(p)
    /\ telling' = None
    /\ UNCHANGED <<world, known, claims, faults>>

-----------------------------------------------------------------------------
Init ==
    /\ overdue \in {{}, Obligations}
    /\ published = [s \in Standards |-> 1] /\ known = [s \in Standards |-> 0]
    /\ due = Kinds /\ second = FALSE
    /\ claims = [a \in Alerts |-> 0]
    /\ telling = None
    /\ at = [p \in Processes |-> "idle"] /\ todo = [p \in Processes |-> {}]
    /\ hand = [p \in Processes |-> None] /\ batch = [p \in Processes |-> {}]
    /\ faults = 0 /\ restarts = 0

\* What a process does next.
Go(p) == \/ p = "runtime" /\ SweepCompliance
         \/ WatchStandards(p) \/ Search(p) \/ ReadKnown(p) \/ Remember(p) \/ Judge(p)
         \/ ScanDone(p)
         \/ Claim(p) \/ PublishAlert(p) \/ EmitDone(p)

Next == \/ Change \/ DayPasses \/ HourPasses
        \/ \E p \in Processes : Go(p) \/ SweepFails(p) \/ Restart(p)

\* Both processes run, and the days pass.
Fairness ==
    /\ WF_vars(DayPasses)
    /\ \A p \in Processes : WF_vars(Go(p))

Spec == Init /\ [][Next]_vars /\ Fairness

-----------------------------------------------------------------------------
(* Properties *)

\* An inspection that stays overdue is told of again and again, though an alert was
\* claimed and never published because the process restarted in between.
StandingBreachRepeated ==
    \A o \in Obligations : <>[](o \in overdue) => []<>(telling = o)

Told(s, r) == \E from \in 1..MaxRevision : telling = <<s, from, r>>
Claimed(s, r) == \E from \in 1..MaxRevision : claims[<<s, from, r>>] > 0

\* What a scan has read of a standard is no longer what is known: the other wrote in between.
Overtaken(s) ==
    \E p \in Processes : at[p] = "remember" /\ hand[p][1] = s /\ hand[p][2] # known[s]

Moved(s, r) ==
    published[s] = r /\ known[s] = r - 1 /\ ~Claimed(s, r) /\ ~Overtaken(s)

ToldOrOver(s, r) == Told(s, r) \/ published[s] # r \/ faults > 0 \/ restarts > 0

\* A standard that moves while its revision is known is reported to have moved, whichever
\* of the two processes sees it, when no call fails and none restarts.  A scan that
\* the other has overtaken is left out: it compares with what was known before, and what
\* was written in between, a first baseline or an older revision put back, is passed over.
MoveTold ==
    \A s \in Standards, r \in 2..MaxRevision :
        Moved(s, r) ~> ToldOrOver(s, r)

\* "A missed move is caught next scan" (RevisionSource.same_revision).
MissedMoveCaught ==
    \A s \in Standards, r \in 2..MaxRevision :
        Moved(s, r) ~> (Told(s, r) \/ published[s] # r \/ restarts > 0)
=============================================================================
