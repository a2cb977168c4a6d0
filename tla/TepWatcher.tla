------------------------------ MODULE TepWatcher ------------------------------
(***************************************************************************)
(* The alarm watcher of the Tennessee Eastman simulator, for one process   *)
(* variable: a thread that checks the samples of the telemetry stream      *)
(* against the envelope, and a thread that hears the simulator's resets    *)
(* and drops every open alarm.  They share _open without a lock.           *)
(*                                                                         *)
(* Time passes in the units of Debounce (DEBOUNCE_S); an age is Never, or  *)
(* a time that stops at Debounce.  Of the alert stream the last alert is   *)
(* enough.  Low and high limits are alike: Alarms are the levels.          *)
(***************************************************************************)
EXTENDS Naturals, Sequences

CONSTANTS
    Alarms,       \* the levels outside the envelope
    Debounce,     \* DEBOUNCE_S
    MaxFaults,    \* bound: failing calls of Redis, of both components
    MaxRestarts,  \* bound: restarts of the watcher
    None,
    Never

\* The age of cleared_at, and an open alarm.
Ages == 0..Debounce \cup {Never}

OpenAlarms == [level : Alarms, cleared : Ages, epoch : Nat, heard : Nat, sent : BOOLEAN]

\* What is assumed of the constants, by the modules that take this one.
WatcherAssumption ==
    /\ "in" \notin Alarms /\ Never \notin 0..Debounce /\ Debounce \in Nat \ {0}
    /\ None \notin Alarms /\ None \notin OpenAlarms
    /\ MaxFaults \in Nat /\ MaxRestarts \in Nat

VARIABLES
    stream,     \* plant:telemetry, from the first sample not checked
    channel,    \* sim:reset, announcements not heard
    listening,  \* the listener thread is alive
    open,       \* _open[tag_id]: level, age of cleared_at; the epoch of the sample
                \* that opened it, the last reset heard by then, and if the alert was sent
    batch,      \* how many of them are read
    hand,       \* the sample being checked, with the alarm its check has found
    heard,      \* the last reset heard
    alerted,    \* the level of the last alert, until another is due
    calm,       \* how long the samples checked have been inside the envelope
    faults, restarts

watcherVars == <<open, batch, hand, heard, alerted, calm, restarts>>
checkVars == <<stream, channel, listening, open, batch, hand, heard, alerted, calm,
               faults, restarts>>

Breach(sample) == sample.level \in Alarms

Older(age) == IF age = Never \/ age = Debounce THEN age ELSE age + 1

Fault == faults < MaxFaults /\ faults' = faults + 1

\* What was read is not read again.
LoseBatch == /\ stream' = SubSeq(stream, batch + 1, Len(stream))
             /\ batch' = 0

-----------------------------------------------------------------------------
\* XREADGROUP with ">", count 200.
Read ==
    /\ batch = 0 /\ hand = None
    /\ stream # <<>>
    /\ batch' = Len(stream)
    /\ UNCHANGED <<stream, channel, listening, open, hand, heard, alerted, calm, faults,
                   restarts>>

\* _check_message up to open_alarm = self._open.get(tag_id).
Look ==
    /\ hand = None /\ batch > 0
    /\ hand' = [sample |-> Head(stream), found |-> open]
    /\ stream' = Tail(stream)
    /\ batch' = batch - 1
    /\ UNCHANGED <<channel, listening, open, heard, alerted, calm, faults, restarts>>

\* A new alarm, or another level of the open one.  A failing XADD is logged
\* and the alarm stays open.
Raise ==
    /\ hand # None /\ Breach(hand.sample)
    /\ hand.found # None => hand.found.level # hand.sample.level
    /\ \E sent \in BOOLEAN :
          /\ IF sent THEN UNCHANGED faults ELSE Fault
          /\ open' = [level |-> hand.sample.level, cleared |-> Never,
                      epoch |-> hand.sample.epoch, heard |-> heard, sent |-> sent]
    /\ alerted' = hand.sample.level
    /\ calm' = Never
    /\ hand' = None
    /\ UNCHANGED <<stream, channel, listening, batch, heard, restarts>>

\* Mutant: back in breach, the clock of the first dip goes on.
StillOutUncleared ==
    /\ hand # None /\ Breach(hand.sample)
    /\ hand.found # None /\ hand.found.level = hand.sample.level
    /\ calm' = Never
    /\ hand' = None
    /\ UNCHANGED <<stream, channel, listening, open, batch, heard, alerted, faults, restarts>>

\* The alarm found is open at this level: its clock stops.  The alarm may have
\* been dropped since it was found.
StillOut ==
    /\ hand # None /\ Breach(hand.sample)
    /\ hand.found # None /\ hand.found.level = hand.sample.level
    /\ open' = IF open = None THEN None ELSE [open EXCEPT !.cleared = Never]
    /\ calm' = Never
    /\ hand' = None
    /\ UNCHANGED <<stream, channel, listening, batch, heard, alerted, faults, restarts>>

\* Inside the envelope: the clock of an open alarm starts; when it has run for
\* Debounce the alarm is deleted.  That raises KeyError if the listener dropped
\* it meanwhile, and the rest of the batch is never checked.
Inside ==
    /\ hand # None /\ ~Breach(hand.sample)
    /\ LET found == hand.found
           ripe == found # None /\ found.cleared = Debounce
       IN  /\ open' = CASE open = None \/ ripe -> None
                        [] open # None /\ ~ripe ->
                             [open EXCEPT !.cleared = IF @ = Never THEN 0 ELSE @]
           /\ IF ripe /\ open = None THEN LoseBatch ELSE UNCHANGED <<stream, batch>>
    /\ calm' = IF calm = Never THEN 0 ELSE calm
    /\ alerted' = IF calm = Debounce THEN None ELSE alerted
    /\ hand' = None
    /\ UNCHANGED <<channel, listening, heard, faults, restarts>>

\* Mutant: the alarms stay open when the simulator is reset.
HearOnly ==
    /\ listening /\ channel # <<>>
    /\ heard' = Head(channel)
    /\ channel' = Tail(channel)
    /\ UNCHANGED <<stream, listening, open, batch, hand, alerted, calm, faults, restarts>>

\* The listener's rearm_all.
Hear ==
    /\ listening /\ channel # <<>>
    /\ heard' = Head(channel)
    /\ channel' = Tail(channel)
    /\ open' = None
    /\ alerted' = None
    /\ UNCHANGED <<stream, listening, batch, hand, calm, faults, restarts>>

\* A lost connection ends the listener thread for good.
ListenerDies ==
    /\ listening /\ Fault
    /\ listening' = FALSE
    /\ channel' = <<>>
    /\ UNCHANGED <<stream, open, batch, hand, heard, alerted, calm, restarts>>

\* A failing XREADGROUP or XACK: what was delivered is not read again.
BatchLost ==
    /\ hand = None /\ batch > 0
    /\ Fault
    /\ LoseBatch
    /\ UNCHANGED <<channel, listening, open, hand, heard, alerted, calm, restarts>>

Restart ==
    /\ restarts < MaxRestarts /\ restarts' = restarts + 1
    /\ open' = None /\ hand' = None
    /\ LoseBatch
    /\ alerted' = None /\ calm' = Never
    /\ channel' = <<>>
    /\ \/ listening' = TRUE /\ UNCHANGED faults
       \/ listening' = FALSE /\ Fault
    /\ UNCHANGED heard

\* Time passes.
Wait ==
    /\ open' = IF open = None THEN None ELSE [open EXCEPT !.cleared = Older(@)]
    /\ calm' = Older(calm)
    /\ UNCHANGED <<stream, channel, listening, batch, hand, heard, alerted, faults, restarts>>

-----------------------------------------------------------------------------
Init ==
    /\ open = None /\ batch = 0 /\ hand = None
    /\ heard = 0 /\ alerted = None /\ calm = Never
    /\ restarts = 0

Check == Read \/ Look \/ Raise \/ StillOut \/ Inside

Next == Check \/ Hear \/ ListenerDies \/ BatchLost \/ Restart \/ Wait

\* Both threads run as long as their process does.
Fairness == WF_checkVars(Check) /\ WF_checkVars(Hear)

\* Type invariant; what is said to be read of the stream is on it.
TypeOK ==
    /\ listening \in BOOLEAN
    /\ open \in OpenAlarms \cup {None}
    /\ hand # None => Breach(hand.sample) \/ hand.sample.level = "in"
    /\ alerted \in Alarms \cup {None} /\ calm \in Ages
    /\ batch \in 0..Len(stream) /\ faults \in 0..MaxFaults /\ restarts \in 0..MaxRestarts

\* A variable that chatters across one limit is one alarm: an alert of the level of the
\* alert right before it needs in between to have been seen inside for Debounce, or a reset
\* heard, or a restart.  An alert of another level starts anew: H, HH and H again are three
\* alerts of one excursion.
NoChatter == [][Raise => alerted # hand.sample.level]_checkVars
=============================================================================
