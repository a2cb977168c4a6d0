---------------------------- MODULE AgentsRuntime ----------------------------
(***************************************************************************)
(* The agents runtime: one process whose tick handles the graph deltas,    *)
(* then a batch of the alert stream, then the operators' requests for an   *)
(* investigation of one diagnosis.  Cursors and claims live in Redis; what *)
(* the process holds in hand is gone when it restarts, and an exception in *)
(* the delta handler, which nothing catches, restarts it.                  *)
(*                                                                         *)
(* A stream entry is its number.  A delta is the failure pattern its nodes *)
(* show, an alert the kind it has, a request the diagnosis it names.       *)
(***************************************************************************)
EXTENDS Naturals, Sequences, FiniteSets

CONSTANTS
    Patterns,     \* tag:mode:count fingerprints
    NoPattern,    \* a delta the failure watcher finds nothing in
    Diagnoses,
    AutoRca,      \* auto_rca_enabled
    AlarmBatch,   \* ALARM_BATCH
    MaxDeltas, MaxAlarms, MaxRequests,  \* bounds: entries from outside
    MaxFaults,    \* bound: investigations that fail
    MaxLapses,    \* bound: claims of a diagnosis that run out
    MaxRestarts   \* bound: restarts of the process

ASSUME AgentsAssumption ==
    /\ NoPattern \notin Patterns /\ AutoRca \in BOOLEAN /\ AlarmBatch \in Nat \ {0}
    /\ MaxDeltas \in Nat /\ MaxAlarms \in Nat /\ MaxRequests \in Nat
    /\ MaxFaults \in Nat /\ MaxLapses \in Nat /\ MaxRestarts \in Nat

Kinds == {"process_limit", "failure_pattern", "investigation"}

VARIABLES
    deltas, alerts, requests,     \* the three streams
    cursor,                       \* the runtime's position on each
    known,                        \* diagnoses the index or its stream can find
    alerted, entryClaims, rcaClaims,
    raised, explained, answered,  \* alerts per pattern, investigations per entry
                                  \* and per diagnosis
    pc,                           \* where the tick is
    upto,                         \* the last entry of the batch read
    at,                           \* the request in hand
    explaining, answering,        \* investigations under way
    faults, lapses, restarts

streams == <<deltas, requests, known>>
claims == <<alerted, entryClaims, rcaClaims>>
outputs == <<alerts, raised, explained, answered>>
hand == <<upto, at, explaining, answering>>
bounds == <<faults, lapses, restarts>>
vars == <<deltas, alerts, requests, cursor, known, alerted, entryClaims, rcaClaims,
          raised, explained, answered, pc, upto, at, explaining, answering,
          faults, lapses, restarts>>

Lanes == {"deltas", "alarms", "requests"}
Alarms == {n \in DOMAIN alerts : alerts[n] = "process_limit"}
InHand == deltas[cursor["deltas"] + 1]
Advance(lane, n) == cursor' = [cursor EXCEPT ![lane] = n]
Goto(label) == pc' = label
Publish(kind) == alerts' = Append(alerts, kind)

Fault == /\ faults < MaxFaults
         /\ faults' = faults + 1

-----------------------------------------------------------------------------
(* The other parts of the system *)

DeltaArrives ==
    /\ Len(deltas) < MaxDeltas
    /\ \E p \in Patterns \cup {NoPattern} : deltas' = Append(deltas, p)
    /\ UNCHANGED <<alerts, requests, cursor, known, claims, raised, explained, answered,
                   pc, hand, bounds>>

AlarmArrives ==
    /\ Cardinality(Alarms) < MaxAlarms
    /\ Publish("process_limit")
    /\ UNCHANGED <<streams, cursor, claims, raised, explained, answered, pc, hand, bounds>>

Diagnosed ==
    /\ \E d \in Diagnoses \ known : known' = known \cup {d}
    /\ UNCHANGED <<deltas, requests, outputs, cursor, claims, pc, hand, bounds>>

\* POST /diagnoses/{id}/rca: every click is a request.
Ask ==
    /\ Len(requests) < MaxRequests
    /\ \E d \in Diagnoses : requests' = Append(requests, d)
    /\ UNCHANGED <<deltas, known, outputs, cursor, claims, pc, hand, bounds>>

\* An hour after it was made a claim runs out.
ClaimLapses(d) ==
    /\ d \in rcaClaims /\ lapses < MaxLapses
    /\ lapses' = lapses + 1
    /\ rcaClaims' = rcaClaims \ {d}
    /\ UNCHANGED <<streams, outputs, cursor, alerted, entryClaims, pc, hand, faults,
                   restarts>>

-----------------------------------------------------------------------------
(* Deltas *)

ReadDeltas ==
    /\ pc = "tick"
    /\ upto' = Len(deltas)
    /\ Goto("delta")
    /\ UNCHANGED <<streams, outputs, cursor, claims, at, explaining, answering, bounds>>

NothingNew ==
    /\ pc = "delta" /\ cursor["deltas"] < upto
    /\ InHand = NoPattern \/ InHand \in alerted
    /\ Advance("deltas", cursor["deltas"] + 1)
    /\ UNCHANGED <<streams, outputs, claims, pc, hand, bounds>>

ClaimPattern ==
    /\ pc = "delta" /\ cursor["deltas"] < upto
    /\ InHand # NoPattern /\ InHand \notin alerted
    /\ alerted' = alerted \cup {InHand}
    /\ Goto("reason")
    /\ UNCHANGED <<streams, outputs, cursor, entryClaims, rcaClaims, hand, bounds>>

\* Mutant: a failed investigation is logged and done with.
RaisePatternLogged ==
    /\ pc = "reason"
    /\ Goto("follow up")
    /\ \/ UNCHANGED outputs
       \/ /\ Publish("failure_pattern")
          /\ raised' = [raised EXCEPT ![InHand] = @ + 1]
          /\ UNCHANGED <<explained, answered>>
    /\ UNCHANGED <<streams, cursor, claims, hand, bounds>>

\* The investigation has an answer.
RaisePattern ==
    /\ pc = "reason"
    /\ Publish("failure_pattern")
    /\ raised' = [raised EXCEPT ![InHand] = @ + 1]
    /\ Goto("follow up")
    /\ UNCHANGED <<streams, explained, answered, cursor, claims, hand, bounds>>

\* A work order is drafted, or not; likely questions are answered ahead.
FollowUp ==
    /\ pc = "follow up"
    /\ Advance("deltas", cursor["deltas"] + 1)
    /\ Goto("delta")
    /\ UNCHANGED <<streams, outputs, claims, hand, bounds>>

DeltasDone ==
    /\ pc = "delta" /\ cursor["deltas"] >= upto
    /\ Goto("alarms")
    /\ UNCHANGED <<streams, outputs, cursor, claims, hand, bounds>>

-----------------------------------------------------------------------------
(* Alarms *)

\* _route_alarm: a process limit, and only when investigations are automatic.
Routed(n) == AutoRca /\ alerts[n] = "process_limit"

Unread == {n \in DOMAIN alerts : n > cursor["alarms"] /\ n <= cursor["alarms"] + AlarmBatch}

\* Mutant: entries without a handler are left for later.
ReadAlarmsDefers ==
    /\ pc = "alarms"
    /\ explaining' = {n \in Unread : Routed(n)} \ entryClaims
    /\ entryClaims' = entryClaims \cup explaining'
    /\ IF explaining' = {}
       THEN /\ Goto("requests")
            /\ UNCHANGED cursor
       ELSE /\ \E last \in Unread : /\ \A n \in Unread : n <= last
                                    /\ Advance("alarms", last)
            /\ Goto("explain")
    /\ UNCHANGED <<streams, outputs, alerted, rcaClaims, upto, at, answering, bounds>>

\* Mutant: the cursor goes to the end of the stream, not of the batch.
ReadAlarmsToEnd ==
    /\ pc = "alarms"
    /\ IF Unread = {}
       THEN /\ Goto("requests")
            /\ UNCHANGED <<cursor, entryClaims, explaining>>
       ELSE /\ explaining' = {n \in Unread : Routed(n)} \ entryClaims
            /\ entryClaims' = entryClaims \cup explaining'
            /\ Advance("alarms", Len(alerts))
            /\ Goto("explain")
    /\ UNCHANGED <<streams, outputs, alerted, rcaClaims, upto, at, answering, bounds>>

\* The cursor passes the batch before the investigations start; each claims its
\* entry first.
ReadAlarms ==
    /\ pc = "alarms"
    /\ IF Unread = {}
       THEN /\ Goto("requests")
            /\ UNCHANGED <<cursor, entryClaims, explaining>>
       ELSE /\ explaining' = {n \in Unread : Routed(n)} \ entryClaims
            /\ entryClaims' = entryClaims \cup explaining'
            /\ \E last \in Unread : /\ \A n \in Unread : n <= last
                                    /\ Advance("alarms", last)
            /\ Goto("explain")
    /\ UNCHANGED <<streams, outputs, alerted, rcaClaims, upto, at, answering, bounds>>

Explained(n) ==
    /\ pc = "explain" /\ n \in explaining
    /\ Publish("investigation")
    /\ explained' = explained \cup {n}
    /\ explaining' = explaining \ {n}
    /\ UNCHANGED <<streams, raised, answered, cursor, claims, pc, upto, at, answering,
                   bounds>>

ExplainFails(n) ==
    /\ pc = "explain" /\ n \in explaining
    /\ Fault
    /\ entryClaims' = entryClaims \ {n}
    /\ explaining' = explaining \ {n}
    /\ UNCHANGED <<streams, outputs, cursor, alerted, rcaClaims, pc, upto, at, answering,
                   lapses, restarts>>

AlarmsDone ==
    /\ pc = "explain" /\ explaining = {}
    /\ Goto("requests")
    /\ UNCHANGED <<streams, outputs, cursor, claims, hand, bounds>>

-----------------------------------------------------------------------------
(* Requests *)

ReadRequests ==
    /\ pc = "requests"
    /\ upto' = Len(requests) /\ at' = cursor["requests"]
    /\ Goto("scan")
    /\ UNCHANGED <<streams, outputs, cursor, claims, explaining, answering, bounds>>

Scan ==
    /\ pc = "scan" /\ at < upto
    /\ at' = at + 1
    /\ IF requests[at'] \in rcaClaims
       THEN UNCHANGED <<rcaClaims, pc>>
       ELSE /\ rcaClaims' = rcaClaims \cup {requests[at']}
            /\ Goto("look up")
    /\ UNCHANGED <<streams, outputs, cursor, alerted, entryClaims, upto, explaining,
                   answering, bounds>>

\* Mutant: the claim of an unknown diagnosis stays.
LookUpKeeps ==
    /\ pc = "look up"
    /\ answering' = answering \cup ({requests[at]} \cap known)
    /\ Goto("scan")
    /\ UNCHANGED <<streams, outputs, cursor, claims, upto, at, explaining, bounds>>

\* The index, else the stream of diagnoses; an unknown one is released.
LookUp ==
    /\ pc = "look up"
    /\ IF requests[at] \in known
       THEN /\ answering' = answering \cup {requests[at]}
            /\ UNCHANGED rcaClaims
       ELSE /\ rcaClaims' = rcaClaims \ {requests[at]}
            /\ UNCHANGED answering
    /\ Goto("scan")
    /\ UNCHANGED <<streams, outputs, cursor, alerted, entryClaims, upto, at, explaining,
                   bounds>>

ScanDone ==
    /\ pc = "scan" /\ at >= upto
    /\ Advance("requests", upto)
    /\ Goto("answer")
    /\ UNCHANGED <<streams, outputs, claims, hand, bounds>>

\* Mutant: the claim is released in a finally.
AnsweredReleases(d) ==
    /\ pc = "answer" /\ d \in answering
    /\ Publish("investigation")
    /\ answered' = [answered EXCEPT ![d] = @ + 1]
    /\ answering' = answering \ {d}
    /\ rcaClaims' = rcaClaims \ {d}
    /\ UNCHANGED <<streams, raised, explained, cursor, alerted, entryClaims, pc, upto,
                   at, explaining, bounds>>

Answered(d) ==
    /\ pc = "answer" /\ d \in answering
    /\ Publish("investigation")
    /\ answered' = [answered EXCEPT ![d] = @ + 1]
    /\ answering' = answering \ {d}
    /\ UNCHANGED <<streams, raised, explained, cursor, claims, pc, upto, at, explaining,
                   bounds>>

AnswerFails(d) ==
    /\ pc = "answer" /\ d \in answering
    /\ Fault
    /\ rcaClaims' = rcaClaims \ {d}
    /\ answering' = answering \ {d}
    /\ UNCHANGED <<streams, outputs, cursor, alerted, entryClaims, pc, upto, at,
                   explaining, lapses, restarts>>

TickDone ==
    /\ pc = "answer" /\ answering = {}
    /\ Goto("tick")
    /\ UNCHANGED <<streams, outputs, cursor, claims, hand, bounds>>

\* The process is lost, or an exception ends it, and started again.
Restart ==
    /\ restarts < MaxRestarts
    /\ restarts' = restarts + 1
    /\ Goto("tick")
    /\ upto' = 0 /\ at' = 0 /\ explaining' = {} /\ answering' = {}
    /\ UNCHANGED <<streams, outputs, cursor, claims, faults, lapses>>

-----------------------------------------------------------------------------
Init ==
    /\ deltas = <<>> /\ alerts = <<>> /\ requests = <<>>
    /\ cursor = [l \in Lanes |-> 0]
    /\ known = {}
    /\ alerted = {} /\ entryClaims = {} /\ rcaClaims = {}
    /\ raised = [p \in Patterns |-> 0]
    /\ explained = {}
    /\ answered = [d \in Diagnoses |-> 0]
    /\ pc = "tick" /\ upto = 0 /\ at = 0
    /\ explaining = {} /\ answering = {}
    /\ faults = 0 /\ lapses = 0 /\ restarts = 0

World == DeltaArrives \/ AlarmArrives \/ Diagnosed \/ Ask

Tick ==
    \/ ReadDeltas \/ NothingNew \/ ClaimPattern \/ RaisePattern \/ FollowUp \/ DeltasDone
    \/ ReadAlarms \/ (\E n \in explaining : Explained(n)) \/ AlarmsDone
    \/ ReadRequests \/ Scan \/ LookUp \/ ScanDone
    \/ (\E d \in answering : Answered(d)) \/ TickDone

Failure ==
    \/ \E n \in explaining : ExplainFails(n)
    \/ \E d \in answering : AnswerFails(d)

Next ==
    \/ World
    \/ Tick
    \/ Failure
    \/ \E d \in Diagnoses : ClaimLapses(d)
    \/ Restart

Spec == Init /\ [][Next]_vars

\* run() ticks for ever and every call it makes has a timeout.
FairSpec == Spec /\ WF_vars(Tick)

-----------------------------------------------------------------------------
(* Properties *)

\* Type invariant.
TypeOK ==
    /\ deltas \in Seq(Patterns \cup {NoPattern}) /\ Len(deltas) <= MaxDeltas
    /\ alerts \in Seq(Kinds)
    /\ requests \in Seq(Diagnoses) /\ Len(requests) <= MaxRequests
    /\ cursor \in [Lanes -> Nat]
    /\ cursor["deltas"] <= Len(deltas) /\ cursor["alarms"] <= Len(alerts)
    /\ cursor["requests"] <= Len(requests)
    /\ known \subseteq Diagnoses
    /\ alerted \subseteq Patterns /\ rcaClaims \subseteq Diagnoses
    /\ entryClaims \subseteq DOMAIN alerts
    /\ raised \in [Patterns -> Nat] /\ answered \in [Diagnoses -> Nat]
    /\ explained \subseteq DOMAIN alerts
    /\ pc \in {"tick", "delta", "reason", "follow up", "alarms", "explain",
              "requests", "scan", "look up", "answer"}
    /\ upto \in Nat /\ at \in Nat
    /\ explaining \subseteq DOMAIN alerts /\ answering \subseteq Diagnoses
    /\ faults \in 0..MaxFaults /\ lapses \in 0..MaxLapses
    /\ restarts \in 0..MaxRestarts

\* An investigation is spent once: one alert for a pattern however often its deltas
\* come, one answer for a diagnosis however often it is asked for while its claim
\* lasts, across restarts that read the same entries again.
SpentOnce ==
    /\ \A p \in Patterns : raised[p] <= 1
    /\ \A d \in Diagnoses : answered[d] <= 1 + lapses

\* The runtime reads the stream it writes to, and takes none of what it wrote there
\* for a plant alarm (_route_alarm).
NoEcho == explaining \cup explained \subseteq Alarms

\* Whatever restarts, the cursor never passes a delta whose pattern nobody claimed.
NothingSkipped ==
    \A n \in DOMAIN deltas :
        n <= cursor["deltas"] => deltas[n] = NoPattern \/ deltas[n] \in alerted

\* A pattern that is claimed has its alert, or is being investigated; only a restart
\* in the middle of the investigation takes the alert away for good.
AlertLostOnlyByRestart ==
    \A p \in alerted : raised[p] > 0 \/ (pc = "reason" /\ InHand = p) \/ restarts > 0

\* A claim is held by an investigation under way or by its answer: after a failure
\* or for an unknown diagnosis the operator can ask again, unless a restart left the
\* claim without either.
AskAgain ==
    \A d \in rcaClaims :
        \/ answered[d] > 0 \/ d \in answering \/ (pc = "look up" /\ requests[at] = d)
        \/ restarts > 0

\* "Release the claim so the next delivery of this alarm can retry": an alarm
\* without an explanation is still to be delivered.
FailedIsRetried ==
    AutoRca => \A n \in Alarms : n > cursor["alarms"] \/ n \in explaining \cup explained

\* Every alarm behind the cursor is explained, or an investigation or a restart has
\* failed it: batches of any size and the runtime's own alerts between the alarms
\* hide none.
AlarmsExplained == faults = 0 /\ restarts = 0 => FailedIsRetried

\* What is lost is lost to a restart or to the failure of its investigation, and to
\* nothing else.
LossesAccounted == AlertLostOnlyByRestart /\ AskAgain /\ AlarmsExplained

\* Every entry of the three streams is read, whatever fails and restarts before it.
EverythingRead ==
    /\ \A n \in 1..MaxDeltas : Len(deltas) >= n ~> cursor["deltas"] >= n
    /\ \A n \in 1..MaxRequests : Len(requests) >= n ~> cursor["requests"] >= n
    /\ \A n \in 1..MaxAlarms : Len(alerts) >= n ~> cursor["alarms"] >= n

=============================================================================
