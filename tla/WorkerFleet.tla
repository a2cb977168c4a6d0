----------------------------- MODULE WorkerFleet -----------------------------
(***************************************************************************)
(* The autoscaler and one scalable stage of the fleet: every tick compares *)
(* the workers the backlog wants with the workers there are.  Workers are  *)
(* processes of this machine, asked to shut down and drained, or compose   *)
(* containers, scaled by a command that runs on a thread of its own.       *)
(***************************************************************************)
EXTENDS Naturals, FiniteSetsExt

CONSTANTS
    MinReplicas, MaxReplicas,
    PerWorker,    \* per_worker
    QuietTicks,   \* quiet_ticks
    Grace,        \* grace, in ticks
    MaxBacklog,   \* bound: what the stage's queues hold
    MaxFaults,    \* bound: ticks and commands that fail, workers that die
    None

FleetAssumption ==
    /\ MinReplicas \in Nat /\ MaxReplicas \in Nat /\ MinReplicas < MaxReplicas
    /\ PerWorker \in Nat \ {0} /\ QuietTicks \in Nat \ {0} /\ Grace \in Nat
    /\ MaxBacklog \in Nat /\ MaxFaults \in Nat /\ None \notin Nat

VARIABLES
    form,      \* "process" or "compose"
    backlog,   \* what waits in the stage's queues
    listed,    \* the replicas the fleet counts
    dead,      \* of the processes among them, those that have died
    draining,  \* the ages of the processes that were asked to shut down
    scaling,   \* _inflight: the size asked of compose, or None
    quiet,     \* _quiet
    lull,      \* for how many ticks on end, up to QuietTicks, fewer would have done
    taken,     \* the last tick asked for a replica less
    faults
vars == <<form, backlog, listed, dead, draining, scaling, quiet, lull, taken, faults>>

Fault == faults < MaxFaults /\ faults' = faults + 1

\* ScalePolicy.desired.
Desired ==
    Max({MinReplicas, Min({MaxReplicas, (backlog + PerWorker - 1) \div PerWorker})})

-----------------------------------------------------------------------------
(* The fleets *)

\* reap_drained: a process that does not go within the grace is terminated.
Reaped == {age + 1 : age \in {a \in draining : a < Grace}}

\* WorkerFleet.scale_to: the newest go, dead or not, and are left to drain.
ScaleProcesses(target) ==
    /\ listed' = target
    /\ draining' = Reaped \cup IF target < listed THEN {0} ELSE {}
    /\ dead' \in {n \in 0..target : n = dead \/ (n + 1 = dead /\ target < listed)}
    /\ UNCHANGED scaling

\* ComposeFleet.scale_to: one command at a time, what is asked meanwhile is dropped.
ScaleCompose(target) ==
    /\ scaling' = IF scaling = None THEN target ELSE scaling
    /\ UNCHANGED <<listed, dead, draining>>

ScaleTo(target) ==
    IF form = "process" THEN ScaleProcesses(target) ELSE ScaleCompose(target)

Stay == draining' = Reaped /\ UNCHANGED <<listed, dead, scaling>>

\* _scale_now: the command brings the stage to its size, or fails.
ScaleNow ==
    /\ scaling # None
    /\ \/ listed' = scaling /\ UNCHANGED faults
       \/ Fault /\ UNCHANGED listed
    /\ scaling' = None
    /\ taken' = FALSE
    /\ UNCHANGED <<form, backlog, dead, draining, quiet, lull>>

-----------------------------------------------------------------------------
(* The autoscaler *)

\* Mutant: a tick on which the size is right does not end the lull.
ApplyForgetful ==
    IF Desired > listed THEN ScaleTo(Desired) /\ quiet' = 0 /\ taken' = FALSE
    ELSE IF Desired = listed THEN Stay /\ taken' = FALSE /\ UNCHANGED quiet
    ELSE IF quiet + 1 >= QuietTicks THEN ScaleTo(listed - 1) /\ quiet' = 0 /\ taken' = TRUE
    ELSE Stay /\ quiet' = quiet + 1 /\ taken' = FALSE

\* Mutant: one replica more than wanted is left alone.
ApplyTolerant ==
    IF Desired > listed THEN ScaleTo(Desired) /\ quiet' = 0 /\ taken' = FALSE
    ELSE IF Desired + 1 >= listed THEN Stay /\ quiet' = 0 /\ taken' = FALSE
    ELSE IF quiet + 1 >= QuietTicks THEN ScaleTo(listed - 1) /\ quiet' = 0 /\ taken' = TRUE
    ELSE Stay /\ quiet' = quiet + 1 /\ taken' = FALSE

\* Up at once to what is wanted, down by one after QuietTicks on end.
Apply ==
    IF Desired > listed THEN ScaleTo(Desired) /\ quiet' = 0 /\ taken' = FALSE
    ELSE IF Desired = listed THEN Stay /\ quiet' = 0 /\ taken' = FALSE
    ELSE IF quiet + 1 >= QuietTicks THEN ScaleTo(listed - 1) /\ quiet' = 0 /\ taken' = TRUE
    ELSE Stay /\ quiet' = quiet + 1 /\ taken' = FALSE

Tick ==
    /\ Apply
    /\ lull' = IF Desired >= listed THEN 0
               ELSE IF lull < QuietTicks THEN lull + 1 ELSE lull
    /\ UNCHANGED <<form, backlog, faults>>

\* _loop: the depths could not be read, which costs one tick.
TickFails ==
    /\ Fault
    /\ taken' = FALSE
    /\ UNCHANGED <<form, backlog, listed, dead, draining, scaling, quiet, lull>>

-----------------------------------------------------------------------------
(* The queues and the workers *)

Work ==
    /\ backlog' \in 0..MaxBacklog
    /\ taken' = FALSE
    /\ UNCHANGED <<form, listed, dead, draining, scaling, quiet, lull, faults>>

\* A container that dies is not counted any more; a process is.
Die ==
    /\ Fault
    /\ \/ form = "compose" /\ listed > 0 /\ listed' = listed - 1 /\ UNCHANGED dead
       \/ form = "process" /\ dead < listed /\ dead' = dead + 1 /\ UNCHANGED listed
    /\ taken' = FALSE
    /\ UNCHANGED <<form, backlog, draining, scaling, quiet, lull>>

Drained ==
    /\ \E age \in draining : draining' = draining \ {age}
    /\ taken' = FALSE
    /\ UNCHANGED <<form, backlog, listed, dead, scaling, quiet, lull, faults>>

Init ==
    /\ form \in {"process", "compose"}
    /\ backlog = 0 /\ listed = MinReplicas /\ dead = 0
    /\ draining = {} /\ scaling = None
    /\ quiet = 0 /\ lull = 0 /\ taken = FALSE /\ faults = 0

Next == Tick \/ TickFails \/ ScaleNow \/ Work \/ Die \/ Drained

\* The loop ticks, and a command of compose ends.
Fairness == WF_vars(Tick) /\ WF_vars(ScaleNow)

Spec == Init /\ [][Next]_vars /\ Fairness

-----------------------------------------------------------------------------
(* Properties *)

\* A replica is only taken away after QuietTicks ticks on end at which fewer would have
\* done: "a lull between two batches should not tear down workers".
LullKept == taken => lull = QuietTicks

\* A backlog that settles brings the stage to the size it wants, and it stays there, in
\* spite of dropped requests, failed commands, and containers or ticks that are lost; of
\* processes, those that have died go on counting.
Settles ==
    \A n \in MinReplicas..MaxReplicas :
        <>[](Desired = n) => <>[](listed = n)
=============================================================================
