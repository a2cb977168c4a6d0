------------------------- MODULE DiagnosticsRuntime -------------------------
(***************************************************************************)
(* The diagnostics runtime: one process that reads the alert stream, arms  *)
(* one episode at a time, waits for the plant to react, and publishes what *)
(* the historian's window resembles.  Only the cursor outlives the process.*)
(*                                                                         *)
(* A diagnosis is the alarm it is anchored at, the library the number of   *)
(* its revisions, a second of telemetry its number.  Times are counted     *)
(* down.                                                                   *)
(***************************************************************************)
EXTENDS Naturals, Sequences, FiniteSets

CONSTANTS
    After,         \* AFTER_S and FLUSH_MARGIN_S
    Cooldown,      \* COOLDOWN_S
    RefreshEvery,  \* LIBRARY_REFRESH_S
    MaxAlerts,     \* bound: entries of the alert stream
    MaxStored,     \* bound: revisions of the library
    MaxSeconds,    \* bound: seconds of telemetry
    MaxFaults,     \* bound: calls that fail, windows that are empty
    MaxRestarts,   \* bound: restarts of the process
    None

DiagnosticsAssumption ==
    /\ After \in Nat /\ Cooldown \in Nat /\ RefreshEvery \in Nat /\ None \notin Nat
    /\ MaxAlerts \in Nat /\ MaxStored \in Nat /\ MaxSeconds \in Nat
    /\ MaxFaults \in Nat /\ MaxRestarts \in Nat

VARIABLES
    alerts,       \* the alert stream: the age of each live alarm, None of the others
    cursor,       \* the stored cursor; 0 is "no cursor"
    diagnosed,    \* the diagnoses stream
    indexed,      \* the diagnoses kept by id
    library,      \* revisions of the fault library in the graph
    telemetry,    \* seconds of telemetry on the stream
    pc,           \* where the tick is
    upto,         \* the end of the batch read
    pending,      \* _pending: the alarm and how long it waits
    hand,         \* the episode being diagnosed
    cool,         \* what is left of the cooldown
    refresh,      \* what is left until the library is read again
    snapshot,     \* the revision of the library in memory
    tail,         \* _telemetry_cursor; None is "$"
    scored,       \* seconds of telemetry the detector has scored
    faults, restarts

world == <<alerts, library, telemetry>>
outputs == <<diagnosed, indexed>>
detector == <<tail, scored>>
memory == <<upto, pending, hand, cool, refresh, snapshot>>
vars == <<alerts, cursor, diagnosed, indexed, library, telemetry, pc, upto, pending,
          hand, cool, refresh, snapshot, tail, scored, faults, restarts>>

Live(n) == alerts[n] # None
Less(wait) == IF wait = 0 THEN 0 ELSE wait - 1
Fault == faults < MaxFaults /\ faults' = faults + 1
Count(n) == Cardinality({i \in DOMAIN diagnosed : diagnosed[i] = n})

-----------------------------------------------------------------------------
(* The plant, the clock and the campaigns *)

Raise ==
    /\ Len(alerts) < MaxAlerts
    /\ \E alarm \in {0, None} : alerts' = Append(alerts, alarm)
    /\ UNCHANGED <<cursor, outputs, library, telemetry, pc, memory, detector, faults,
                   restarts>>

Wait ==
    /\ alerts' = [n \in DOMAIN alerts |->
                     IF Live(n) /\ alerts[n] < After THEN alerts[n] + 1 ELSE alerts[n]]
    /\ cool' = Less(cool) /\ refresh' = Less(refresh)
    /\ pending' = IF pending = None THEN None ELSE [pending EXCEPT !.wait = Less(@)]
    /\ UNCHANGED <<cursor, outputs, library, telemetry, pc, upto, hand, snapshot,
                   detector, faults, restarts>>

\* A campaign overwrites a fault mode or adds one.
StoreFaultMode ==
    /\ library < MaxStored /\ library' = library + 1
    /\ UNCHANGED <<alerts, cursor, outputs, telemetry, pc, memory, detector, faults,
                   restarts>>

Publish ==
    /\ telemetry < MaxSeconds /\ telemetry' = telemetry + 1
    /\ UNCHANGED <<alerts, cursor, outputs, library, pc, memory, detector, faults,
                   restarts>>

-----------------------------------------------------------------------------
(* The process *)

\* _seed_cursor: without a cursor, from the tail of the stream.
Start ==
    /\ pc = "down"
    /\ cursor' = IF cursor = 0 THEN Len(alerts) ELSE cursor
    /\ snapshot' = library /\ refresh' = RefreshEvery
    /\ pc' = "tick"
    /\ UNCHANGED <<world, outputs, upto, pending, hand, cool, detector, faults, restarts>>

Restart ==
    /\ restarts < MaxRestarts /\ restarts' = restarts + 1
    /\ pc' = "down"
    /\ pending' = None /\ hand' = None /\ cool' = 0 /\ upto' = 0
    /\ tail' = None /\ scored' = 0
    /\ UNCHANGED <<world, cursor, outputs, refresh, snapshot, faults>>

\* Mutant: every alarm re-arms the episode.
ArmedAnew == LET live == {n \in cursor + 1..Len(alerts) : Live(n)}
                 last == CHOOSE n \in live : \A other \in live : n >= other
             IN IF live = {}
                THEN pending
                ELSE [alarm |-> last, wait |-> After - alerts[last]]

\* The first live alarm of the batch arms an episode, if none is followed.
Armed == LET live == {n \in cursor + 1..Len(alerts) : Live(n)}
             first == CHOOSE n \in live : \A other \in live : n <= other
         IN IF pending # None \/ cool > 0 \/ live = {}
            THEN pending
            ELSE [alarm |-> first, wait |-> After - alerts[first]]

IngestAlarms ==
    /\ pc = "tick"
    /\ upto' = Len(alerts)
    /\ pending' = Armed
    /\ pc' = IF cursor < Len(alerts) THEN "save" ELSE "feed"
    /\ UNCHANGED <<world, cursor, outputs, hand, cool, refresh, snapshot, detector, faults,
                   restarts>>

SaveCursor ==
    /\ pc = "save"
    /\ cursor' = upto
    /\ pc' = "feed"
    /\ UNCHANGED <<world, outputs, memory, detector, faults, restarts>>

\* XREAD without BLOCK: what is newer than the cursor, and nothing is newer than "$".
FeedDetector ==
    /\ pc = "feed"
    /\ LET from == IF tail = None THEN telemetry ELSE tail
       IN /\ scored' = scored + (telemetry - from)
          /\ tail' = IF from < telemetry THEN telemetry ELSE tail
    /\ pc' = "flush"
    /\ UNCHANGED <<world, cursor, outputs, memory, faults, restarts>>

Ready == pending # None /\ pending.wait = 0

\* The slot is freed and the cooldown begins before anything is read.
FlushReady ==
    /\ pc = "flush"
    /\ IF Ready
       THEN /\ hand' = pending.alarm /\ pending' = None /\ cool' = Cooldown
            /\ pc' = "diagnose"
       ELSE pc' = "refresh" /\ UNCHANGED <<hand, pending, cool>>
    /\ UNCHANGED <<world, cursor, outputs, upto, refresh, snapshot, detector, faults,
                   restarts>>

Diagnose ==
    /\ pc = "diagnose"
    /\ diagnosed' = Append(diagnosed, hand)
    /\ pc' = "index"
    /\ UNCHANGED <<world, cursor, indexed, memory, detector, faults, restarts>>

\* Nothing was recorded around the onset.
NothingRecorded ==
    /\ pc = "diagnose" /\ Fault
    /\ hand' = None
    /\ pc' = "refresh"
    /\ UNCHANGED <<world, cursor, outputs, upto, pending, cool, refresh, snapshot,
                   detector, restarts>>

Index ==
    /\ pc = "index"
    /\ indexed' = indexed \cup {hand}
    /\ hand' = None
    /\ pc' = "refresh"
    /\ UNCHANGED <<world, cursor, diagnosed, upto, pending, cool, refresh, snapshot,
                   detector, faults, restarts>>

\* The next attempt is due after another interval, whatever comes of this one.
MaybeRefresh ==
    /\ pc = "refresh"
    /\ refresh' = IF refresh = 0 THEN RefreshEvery ELSE refresh
    /\ pc' = IF refresh = 0 THEN "reload" ELSE "tick"
    /\ UNCHANGED <<world, cursor, outputs, upto, pending, hand, cool, snapshot, detector,
                   faults, restarts>>

Reload ==
    /\ pc = "reload"
    /\ snapshot' = library
    /\ pc' = "tick"
    /\ UNCHANGED <<world, cursor, outputs, upto, pending, hand, cool, refresh, detector,
                   faults, restarts>>

\* run(): a tick that raises is logged, and the next one begins.
TickFails ==
    /\ pc \in {"save", "diagnose", "index", "reload"} /\ Fault
    /\ hand' = None
    /\ pc' = "tick"
    /\ UNCHANGED <<world, cursor, outputs, upto, pending, cool, refresh, snapshot,
                   detector, restarts>>

-----------------------------------------------------------------------------
Init ==
    /\ alerts \in {<<>>, <<0>>} /\ cursor = 0
    /\ diagnosed = <<>> /\ indexed = {}
    /\ library = 0 /\ telemetry = 0
    /\ pc = "down" /\ upto = 0 /\ pending = None /\ hand = None
    /\ cool = 0 /\ refresh = RefreshEvery /\ snapshot = 0
    /\ tail = None /\ scored = 0
    /\ faults = 0 /\ restarts = 0

Tick == \/ Start \/ IngestAlarms \/ SaveCursor \/ FeedDetector \/ FlushReady \/ Diagnose
        \/ Index \/ MaybeRefresh \/ Reload

Next == \/ Tick \/ Wait \/ NothingRecorded \/ TickFails
        \/ Raise \/ StoreFaultMode \/ Publish \/ Restart

\* The process runs, and time passes; what fails ends with its bound.
Fairness == WF_vars(Tick) /\ WF_vars(Wait)

Spec == Init /\ [][Next]_vars /\ Fairness

-----------------------------------------------------------------------------
(* Properties *)

TypeOK ==
    /\ alerts \in Seq(0..After \cup {None})
    /\ cursor \in 0..Len(alerts) /\ upto \in 0..Len(alerts)
    /\ diagnosed \in Seq(DOMAIN alerts) /\ indexed \subseteq DOMAIN alerts
    /\ library \in Nat /\ snapshot \in 0..library
    /\ pc \in {"down", "tick", "save", "feed", "flush", "diagnose", "index", "refresh",
               "reload"}
    /\ pending \in [alarm : DOMAIN alerts, wait : 0..After] \cup {None}
    /\ hand \in DOMAIN alerts \cup {None}
    /\ cool \in 0..Cooldown /\ refresh \in 0..RefreshEvery
    /\ telemetry \in Nat /\ tail \in Nat \cup {None} /\ scored \in Nat
    /\ faults \in Nat /\ restarts \in Nat

\* Whatever calls fail, an alarm that no episode or cooldown covers, and no live alarm
\* not yet read precedes, comes to be diagnosed, unless the process restarts.
Uncovered(n) ==
    /\ n \in DOMAIN alerts /\ Live(n) /\ cursor < n
    /\ cursor > 0 \/ pc # "down"
    /\ \A m \in cursor + 1..n - 1 : ~Live(m)
    /\ pc # "save" /\ pending = None /\ cool = 0
TakenUp(n) == hand = n \/ restarts > 0

AlarmDiagnosed == \A n \in 1..MaxAlerts : Uncovered(n) ~> TakenUp(n)

\* "Feed live plant:telemetry stream samples to the ML PCA detector": of the telemetry that
\* comes while the process runs some is scored.
DetectorFed ==
    [](pc # "down" /\ telemetry = 0 =>
           <>(scored > 0 \/ restarts > 0 \/ [](telemetry = 0)))
=============================================================================
