------------------------------ MODULE PlantFeed ------------------------------
(***************************************************************************)
(* What the simulator promises to those who watch the plant: while it runs *)
(* it keeps publishing samples of the process; a reset is one sample at    *)
(* nominal and one announcement, sent in that order and received in any;   *)
(* either may be lost.  A restart is a reset without both.  SimRunner      *)
(* implements it; PlantAlarms puts the alarm watcher behind it.            *)
(*                                                                         *)
(* One process variable stands for all: it is "in" its envelope, or at one *)
(* of the Alarm levels.  An epoch is the time between two resets.          *)
(***************************************************************************)
EXTENDS Naturals, Sequences

CONSTANTS
    Alarms,     \* the levels outside the envelope
    MaxResets,  \* bound: resets and restarts
    MaxUnread,  \* bound: samples the readers have not used
    MaxFaults   \* bound: failing calls of Redis

\* What is assumed of the constants, by the modules that take this one.
FeedAssumption ==
    /\ "in" \notin Alarms
    /\ MaxResets \in Nat /\ MaxUnread \in Nat /\ MaxFaults \in Nat

VARIABLES
    running,    \* the simulation runs
    level,      \* the process variable
    epoch,      \* resets so far
    stream,     \* plant:telemetry, from the first sample not used
    channel,    \* sim:reset, announcements not heard
    listening,  \* somebody is subscribed to the channel
    faults

feedVars == <<running, level, epoch, stream, channel, faults>>

Levels == Alarms \cup {"in"}

Sample(l, e) == [level |-> l, epoch |-> e]

Fault == faults < MaxFaults /\ faults' = faults + 1

Nominal == /\ epoch < MaxResets /\ epoch' = epoch + 1
           /\ level' = "in"

-----------------------------------------------------------------------------
\* A tick; its publication may fail.
Emit ==
    /\ running
    /\ Len(stream) < MaxUnread
    /\ level' \in Levels
    /\ \/ stream' = Append(stream, Sample(level', epoch)) /\ UNCHANGED faults
       \/ UNCHANGED stream /\ Fault
    /\ UNCHANGED <<running, epoch, channel>>

\* A reset, by command or by the loop itself.  A message to a channel nobody
\* is subscribed to is gone.
Reset ==
    /\ Nominal
    /\ running' \in {running, TRUE}
    /\ \E lost \in SUBSET {"sample", "announcement"} :
          /\ IF lost = {} THEN UNCHANGED faults ELSE Fault
          /\ stream' = IF "sample" \in lost THEN stream
                       ELSE Append(stream, Sample(level', epoch'))
          /\ channel' = IF "announcement" \in lost \/ ~listening THEN channel
                        ELSE Append(channel, epoch')

\* The simulator's process is restarted.
Restart ==
    /\ Nominal
    /\ running' = TRUE
    /\ UNCHANGED <<stream, channel, faults>>

Switch ==
    /\ running' = ~running
    /\ UNCHANGED <<level, epoch, stream, channel, faults>>

-----------------------------------------------------------------------------
Init == running = TRUE /\ level = "in" /\ epoch = 0

Next == Emit \/ Reset \/ Restart \/ Switch

Fairness == WF_feedVars(Emit)
=============================================================================
