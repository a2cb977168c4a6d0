----------------------------- MODULE PlantAlarms -----------------------------
(***************************************************************************)
(* The plant and its alarm watcher: samples reach the watcher through a    *)
(* stream, resets through a channel, and neither is ordered with the       *)
(* other.  The simulator is what it promises, PlantFeed.                   *)
(***************************************************************************)
EXTENDS Naturals, Sequences

CONSTANTS Alarms, MaxResets, MaxUnread, MaxFaults, Debounce, MaxRestarts, None, Never

VARIABLES running, level, epoch, stream, channel, listening, faults,
          open, batch, hand, heard, alerted, calm, restarts

Plant == INSTANCE PlantFeed
Watcher == INSTANCE TepWatcher

PlantAssumption == Plant!FeedAssumption /\ Watcher!WatcherAssumption

plantOnly == <<running, level, epoch>>
watcherOnly == <<listening, open, batch, hand, heard, alerted, calm, restarts>>
vars == <<plantOnly, watcherOnly, stream, channel, faults>>

Init ==
    /\ Plant!Init /\ Watcher!Init
    /\ stream = <<>> /\ channel = <<>> /\ listening = TRUE /\ faults = 0

Next == \/ Plant!Next /\ UNCHANGED watcherOnly
        \/ Watcher!Next /\ UNCHANGED plantOnly

Spec == Init /\ [][Next]_vars /\ Plant!Fairness /\ Watcher!Fairness

\* Type invariant of the two together: no reset is heard that did not happen.
TypeOK == /\ Watcher!TypeOK
          /\ running \in BOOLEAN /\ level \in Plant!Levels /\ epoch \in 0..MaxResets
          /\ heard <= epoch

\* One alert per excursion (see TepWatcher), behind the stream and the channel of
\* this plant.
NoChatter == Watcher!NoChatter

\* The process stays outside its envelope, and is simulated.
Upset == level \in Alarms /\ running

\* A fault that persists ends under an alarm of its own: after any history of
\* resets, races and failures an alarm is open, and it is of this epoch unless
\* it was opened by a sample from before a reset that had already been heard, or
\* the last reset was never announced or heard.
Alarmed ==
    /\ open # None
    /\ \/ open.epoch = epoch
       \/ open.epoch < open.heard
       \/ heard < epoch

FaultAlarms == <>[]Upset => <>[]Alarmed

\* What the simulator's announcement is for: every open alarm is dropped at a
\* reset, so that the next fault alarms again.  It does not hold: an old sample
\* still unread opens the alarm again, and the fault after the reset is silent.
NextFaultAlarms ==
    <>[]Upset => <>[](open # None /\ open.epoch = epoch)
=============================================================================
