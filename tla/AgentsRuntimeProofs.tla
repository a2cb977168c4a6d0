------------------------- MODULE AgentsRuntimeProofs -------------------------
(***************************************************************************)
(* Type correctness of AgentsRuntime, that investigations are spent once,  *)
(* that the runtime does not investigate its own output, that the cursor   *)
(* skips no pattern, whatever restarts, fails or lapses, and that nothing  *)
(* is lost but to a restart or to the failure of its investigation.        *)
(***************************************************************************)
EXTENDS AgentsRuntime, TLAPS

\* Where the tick is on the batch it has read.
Position ==
    /\ pc \in {"delta", "reason", "follow up"} => upto <= Len(deltas)
    /\ pc \in {"reason", "follow up"} => cursor["deltas"] < upto
    /\ pc \in {"scan", "look up"} => at <= upto /\ upto <= Len(requests)
    /\ pc = "look up" => at > 0

\* A pattern in hand is claimed, and its alert is not out before it is raised.
PatternsHeld ==
    /\ \A p \in Patterns : raised[p] <= 1 /\ (raised[p] = 1 => p \in alerted)
    /\ pc \in {"reason", "follow up"} => InHand \in alerted
    /\ pc = "reason" => raised[InHand] = 0

\* A diagnosis that an investigation is meant for.
Working(d) == d \in answering \/ (pc = "look up" /\ requests[at] = d)

\* Every answer, and every investigation under way, has a claim of its own, live or
\* lapsed.
Budget(d) ==
    /\ answered[d] <= lapses + 1
    /\ (Working(d) \/ d \notin rcaClaims) => answered[d] <= lapses
    /\ Working(d) /\ d \notin rcaClaims => answered[d] < lapses

Budgets == answering \subseteq known /\ \A d \in Diagnoses : Budget(d)

TInv == TypeOK /\ Position
IInv == TInv /\ PatternsHeld /\ Budgets /\ NoEcho /\ NothingSkipped

-----------------------------------------------------------------------------
\* What appending does to a stream.
LEMMA Appended ==
    ASSUME NEW S, NEW s \in Seq(S), NEW e \in S
    PROVE  /\ Append(s, e) \in Seq(S) /\ Len(Append(s, e)) = Len(s) + 1
           /\ Len(s) \in Nat /\ DOMAIN s = 1..Len(s)
           /\ DOMAIN Append(s, e) = 1..(Len(s) + 1)
           /\ \A n \in DOMAIN s : Append(s, e)[n] = s[n]
  OBVIOUS

\* What an element of a stream is.
LEMMA Element ==
    ASSUME NEW S, NEW s \in Seq(S), NEW n \in Nat, n > 0, n <= Len(s)
    PROVE  n \in DOMAIN s /\ s[n] \in S
  OBVIOUS

LEMMA LanesAre == "deltas" \in Lanes /\ "alarms" \in Lanes /\ "requests" \in Lanes
  BY DEF Lanes

\* The sizes that the steps compare.
Sized ==
    /\ cursor["deltas"] \in Nat /\ cursor["alarms"] \in Nat /\ cursor["requests"] \in Nat
    /\ Len(deltas) \in Nat /\ Len(alerts) \in Nat /\ Len(requests) \in Nat
    /\ upto \in Nat /\ at \in Nat
    /\ DOMAIN alerts = 1..Len(alerts) /\ DOMAIN deltas = 1..Len(deltas)
    /\ DOMAIN requests = 1..Len(requests)

LEMMA Sizes == TypeOK => Sized
<1> SUFFICES ASSUME TypeOK PROVE Sized
  OBVIOUS
<1>1. cursor \in [Lanes -> Nat] /\ upto \in Nat /\ at \in Nat
  BY DEF TypeOK
<1>2. cursor["deltas"] \in Nat /\ cursor["alarms"] \in Nat /\ cursor["requests"] \in Nat
  BY <1>1, LanesAre
<1>3. /\ deltas \in Seq(Patterns \cup {NoPattern}) /\ alerts \in Seq(Kinds)
      /\ requests \in Seq(Diagnoses)
  BY DEF TypeOK
<1>4. Len(deltas) \in Nat /\ DOMAIN deltas = 1..Len(deltas)
  BY <1>3
<1>5. Len(alerts) \in Nat /\ DOMAIN alerts = 1..Len(alerts)
  BY <1>3
<1>6. Len(requests) \in Nat /\ DOMAIN requests = 1..Len(requests)
  BY <1>3
<1>7. QED BY <1>1, <1>2, <1>4, <1>5, <1>6 DEF Sized

\* The entry in hand while there is one.
LEMMA HandType ==
    ASSUME TypeOK, cursor["deltas"] < Len(deltas)
    PROVE  /\ cursor["deltas"] + 1 \in DOMAIN deltas
           /\ InHand \in Patterns \cup {NoPattern}
<1>1. cursor["deltas"] \in Nat /\ Len(deltas) \in Nat
  BY Sizes DEF Sized
<1>2. cursor["deltas"] + 1 \in Nat /\ cursor["deltas"] + 1 > 0
      /\ cursor["deltas"] + 1 <= Len(deltas)
  BY <1>1
<1>3. deltas \in Seq(Patterns \cup {NoPattern})
  BY DEF TypeOK
<1>4. QED BY <1>2, <1>3, Element DEF InHand

\* A cursor that moves.
LEMMA Advanced ==
    ASSUME TypeOK, NEW lane \in Lanes, NEW n \in Nat, Advance(lane, n)
    PROVE  /\ cursor' \in [Lanes -> Nat] /\ cursor'[lane] = n
           /\ \A l \in Lanes \ {lane} : cursor'[l] = cursor[l]
  BY DEF TypeOK, Advance

\* A count that goes up.
LEMMA CountUp ==
    ASSUME NEW S, NEW f \in [S -> Nat], NEW x \in S
    PROVE  LET g == [f EXCEPT ![x] = @ + 1]
           IN  /\ g \in [S -> Nat] /\ g[x] = f[x] + 1 /\ f[x] \in Nat
               /\ \A y \in S \ {x} : g[y] = f[y]
  OBVIOUS

LEMMA InitInd == Init => IInv
<1> SUFFICES ASSUME Init PROVE IInv
  OBVIOUS
<1> USE AgentsAssumption DEF Init
<1>1. TypeOK
  BY DEF TypeOK, Lanes
<1>2. Position /\ PatternsHeld
  BY DEF Position, PatternsHeld
<1>3. Budgets
  BY DEF Budgets, Budget, Working
<1>4. NoEcho /\ NothingSkipped
  BY DEF NoEcho, NothingSkipped, Lanes
<1>5. QED BY <1>1, <1>2, <1>3, <1>4 DEF IInv, TInv

-----------------------------------------------------------------------------
(* Types *)

\* A stream that grows by one alert.
LEMMA PublishType ==
    ASSUME TypeOK, NEW kind \in Kinds, Publish(kind)
    PROVE  /\ alerts' \in Seq(Kinds) /\ Len(alerts') = Len(alerts) + 1
           /\ DOMAIN alerts \subseteq DOMAIN alerts'
           /\ cursor["alarms"] <= Len(alerts')
           /\ \A n \in DOMAIN alerts : alerts'[n] = alerts[n]
<1>1. alerts \in Seq(Kinds) /\ cursor["alarms"] \in Nat
  BY Sizes DEF Sized, TypeOK
<1>2. alerts' = Append(alerts, kind) /\ cursor["alarms"] <= Len(alerts)
  BY DEF Publish, TypeOK
<1>3. /\ Append(alerts, kind) \in Seq(Kinds) /\ Len(Append(alerts, kind)) = Len(alerts) + 1
      /\ Len(alerts) \in Nat /\ DOMAIN alerts = 1..Len(alerts)
      /\ DOMAIN Append(alerts, kind) = 1..(Len(alerts) + 1)
      /\ \A n \in DOMAIN alerts : Append(alerts, kind)[n] = alerts[n]
  BY <1>1, Appended
<1>4. DOMAIN alerts \subseteq DOMAIN alerts'
  BY <1>2, <1>3
<1>5. QED BY <1>1, <1>2, <1>3, <1>4

LEMMA WorldType == TInv /\ World => TInv'
<1> SUFFICES ASSUME TInv, World PROVE TInv'
  OBVIOUS
<1> USE DEF TInv, streams, claims, outputs, hand, bounds
<1>0. Sized
  BY Sizes
<1>1. CASE DeltaArrives
  <2>1. PICK p \in Patterns \cup {NoPattern} : deltas' = Append(deltas, p)
    BY <1>1 DEF DeltaArrives
  <2>a. deltas \in Seq(Patterns \cup {NoPattern})
    BY DEF TypeOK
  <2>2. deltas' \in Seq(Patterns \cup {NoPattern}) /\ Len(deltas') = Len(deltas) + 1
    BY <2>a, <2>1, Appended
  <2>b. Len(deltas') <= MaxDeltas /\ cursor["deltas"] <= Len(deltas')
    <3>1. Len(deltas) < MaxDeltas
      BY <1>1 DEF DeltaArrives
    <3>2. Len(deltas) \in Nat /\ cursor["deltas"] \in Nat /\ MaxDeltas \in Nat
      BY <1>0, AgentsAssumption DEF Sized
    <3>3. cursor["deltas"] <= Len(deltas)
      BY DEF TypeOK
    <3>4. QED BY <2>2, <3>1, <3>2, <3>3
  <2>3. TypeOK'
    BY <1>1, <2>2, <2>b DEF DeltaArrives, TypeOK
  <2>c. upto \in Nat /\ Len(deltas) \in Nat
    BY <1>0 DEF Sized
  <2>d. upto <= Len(deltas) => upto <= Len(deltas')
    BY <2>2, <2>c
  <2>4. Position'
    BY <1>1, <2>d DEF DeltaArrives, Position
  <2>5. QED BY <2>3, <2>4
<1>2. CASE AlarmArrives
  <2>1. /\ alerts' \in Seq(Kinds) /\ DOMAIN alerts \subseteq DOMAIN alerts'
        /\ cursor["alarms"] <= Len(alerts')
    BY <1>2, PublishType DEF AlarmArrives, Kinds
  <2>2. TypeOK'
    BY <1>0, <1>2, <2>1 DEF AlarmArrives, TypeOK
  <2>3. Position'
    BY <1>0, <1>2 DEF AlarmArrives, Position
  <2>4. QED BY <2>2, <2>3
<1>3. CASE Diagnosed
  <2>1. TypeOK'
    BY <1>0, <1>3 DEF Diagnosed, TypeOK
  <2>2. Position'
    BY <1>0, <1>3 DEF Diagnosed, Position
  <2>3. QED BY <2>1, <2>2
<1>4. CASE Ask
  <2>1. PICK d \in Diagnoses : requests' = Append(requests, d)
    BY <1>4 DEF Ask
  <2>2. requests' \in Seq(Diagnoses) /\ Len(requests') = Len(requests) + 1
    BY <1>0, <2>1, Appended DEF TypeOK
  <2>a. Len(requests') <= MaxRequests /\ cursor["requests"] <= Len(requests')
    <3>1. Len(requests) < MaxRequests
      BY <1>4 DEF Ask
    <3>2. Len(requests) \in Nat /\ cursor["requests"] \in Nat /\ MaxRequests \in Nat
      BY <1>0, AgentsAssumption DEF Sized
    <3>3. cursor["requests"] <= Len(requests)
      BY DEF TypeOK
    <3>4. QED BY <2>2, <3>1, <3>2, <3>3
  <2>3. TypeOK'
    BY <1>4, <2>2, <2>a DEF Ask, TypeOK
  <2>c. upto \in Nat /\ Len(requests) \in Nat
    BY <1>0 DEF Sized
  <2>d. upto <= Len(requests) => upto <= Len(requests')
    BY <2>2, <2>c
  <2>4. Position'
    BY <1>4, <2>d DEF Ask, Position
  <2>5. QED BY <2>3, <2>4
<1>5. QED BY <1>1, <1>2, <1>3, <1>4 DEF World

LEMMA DeltaType ==
    TInv /\ (ReadDeltas \/ NothingNew \/ ClaimPattern \/ RaisePattern \/ FollowUp
             \/ DeltasDone) => TInv'
<1> SUFFICES ASSUME TInv,
                    ReadDeltas \/ NothingNew \/ ClaimPattern \/ RaisePattern \/ FollowUp
                    \/ DeltasDone
             PROVE  TInv'
  OBVIOUS
<1> USE DEF TInv, streams, claims, outputs, hand, bounds, Goto
<1>0. Sized
  BY Sizes
<1>1. CASE ReadDeltas
  BY <1>0, <1>1 DEF ReadDeltas, TypeOK, Position
<1>2. CASE NothingNew
  <2>1. /\ cursor' \in [Lanes -> Nat] /\ cursor'["deltas"] = cursor["deltas"] + 1
        /\ cursor'["alarms"] = cursor["alarms"]
        /\ cursor'["requests"] = cursor["requests"]
    <3>1. cursor["deltas"] + 1 \in Nat
      BY <1>0 DEF Sized
    <3>2. Advance("deltas", cursor["deltas"] + 1)
      BY <1>2 DEF NothingNew
    <3>3. QED BY <3>1, <3>2, Advanced, LanesAre
  <2>2. cursor'["deltas"] <= Len(deltas)
    BY <1>0, <1>2, <2>1 DEF NothingNew, Position, Sized
  <2>3. TypeOK'
    BY <1>0, <1>2, <2>1, <2>2 DEF NothingNew, TypeOK
  <2>4. Position'
    BY <1>0, <1>2 DEF NothingNew, Position
  <2>5. QED BY <2>3, <2>4
<1>3. CASE ClaimPattern
  <2>1. cursor["deltas"] < Len(deltas)
    BY <1>0, <1>3 DEF ClaimPattern, Position, Sized
  <2>2. InHand \in Patterns
    BY <1>3, <2>1, HandType DEF ClaimPattern
  <2>3. TypeOK'
    BY <1>0, <1>3, <2>2 DEF ClaimPattern, TypeOK
  <2>4. Position'
    BY <1>0, <1>3 DEF ClaimPattern, Position
  <2>5. QED BY <2>3, <2>4
<1>4. CASE RaisePattern
  <2>1. /\ alerts' \in Seq(Kinds) /\ DOMAIN alerts \subseteq DOMAIN alerts'
        /\ cursor["alarms"] <= Len(alerts')
    BY <1>4, PublishType DEF RaisePattern, Kinds
  <2>2. raised' \in [Patterns -> Nat]
    <3>1. raised \in [Patterns -> Nat]
      BY DEF TypeOK
    <3>2. \A p \in Patterns : [raised EXCEPT ![p] = @ + 1] \in [Patterns -> Nat]
      BY <3>1, CountUp
    <3>3. InHand \notin Patterns => [raised EXCEPT ![InHand] = @ + 1] = raised
      BY <3>1
    <3>4. QED BY <1>4, <3>1, <3>2, <3>3 DEF RaisePattern
  <2>3. TypeOK'
    BY <1>0, <1>4, <2>1, <2>2 DEF RaisePattern, TypeOK
  <2>4. Position'
    BY <1>0, <1>4 DEF RaisePattern, Position
  <2>5. QED BY <2>3, <2>4
<1>5. CASE FollowUp
  <2>1. /\ cursor' \in [Lanes -> Nat] /\ cursor'["deltas"] = cursor["deltas"] + 1
        /\ cursor'["alarms"] = cursor["alarms"]
        /\ cursor'["requests"] = cursor["requests"]
    <3>1. cursor["deltas"] + 1 \in Nat
      BY <1>0 DEF Sized
    <3>2. Advance("deltas", cursor["deltas"] + 1)
      BY <1>5 DEF FollowUp
    <3>3. QED BY <3>1, <3>2, Advanced, LanesAre
  <2>2. cursor'["deltas"] <= Len(deltas)
    <3>1. cursor["deltas"] < upto /\ upto <= Len(deltas)
      BY <1>5 DEF FollowUp, Position
    <3>2. cursor["deltas"] \in Nat /\ upto \in Nat /\ Len(deltas) \in Nat
      BY <1>0 DEF Sized
    <3>3. QED BY <2>1, <3>1, <3>2
  <2>3. TypeOK'
    BY <1>0, <1>5, <2>1, <2>2 DEF FollowUp, TypeOK
  <2>4. Position'
    BY <1>0, <1>5 DEF FollowUp, Position
  <2>5. QED BY <2>3, <2>4
<1>6. CASE DeltasDone
  BY <1>0, <1>6 DEF DeltasDone, TypeOK, Position
<1>7. QED BY <1>1, <1>2, <1>3, <1>4, <1>5, <1>6

LEMMA ReadAlarmsType == TInv /\ ReadAlarms => TInv'
<1> SUFFICES ASSUME TInv, ReadAlarms PROVE TInv'
  OBVIOUS
<1> USE DEF TInv, streams, claims, outputs, hand, bounds, Goto
<1>0. Sized
  BY Sizes
<1>1. Position'
  BY DEF ReadAlarms, Position
<1>2. CASE Unread = {}
  BY <1>0, <1>1, <1>2 DEF ReadAlarms, TypeOK
<1>3. CASE Unread # {}
  <2>1. PICK last \in Unread : Advance("alarms", last)
    BY <1>3 DEF ReadAlarms
  <2>2. last \in Nat /\ last <= Len(alerts)
    BY DEF Unread
  <2>3. /\ cursor' \in [Lanes -> Nat] /\ cursor'["deltas"] = cursor["deltas"]
        /\ cursor'["alarms"] = last
        /\ cursor'["requests"] = cursor["requests"]
    BY <2>1, <2>2, Advanced, LanesAre
  <2>4. explaining' \subseteq DOMAIN alerts /\ entryClaims' \subseteq DOMAIN alerts
    BY <1>0, <1>3 DEF ReadAlarms, Unread, TypeOK
  <2>5. QED BY <1>1, <1>3, <2>2, <2>3, <2>4 DEF ReadAlarms, TypeOK
<1>4. QED BY <1>2, <1>3

LEMMA AlarmType ==
    ASSUME TInv, NEW n \in explaining,
           Explained(n) \/ ExplainFails(n)
    PROVE  TInv'
<1> USE DEF TInv, streams, claims, outputs, hand, bounds, Goto
<1>0. Sized
  BY Sizes
<1>1. CASE Explained(n)
  <2>1. /\ alerts' \in Seq(Kinds) /\ DOMAIN alerts \subseteq DOMAIN alerts'
        /\ cursor["alarms"] <= Len(alerts')
    BY <1>1, PublishType DEF Explained, Kinds
  <2>a. /\ explained' \subseteq DOMAIN alerts' /\ explaining' \subseteq DOMAIN alerts'
        /\ entryClaims' \subseteq DOMAIN alerts'
    BY <1>1, <2>1 DEF Explained, TypeOK
  <2>b. UNCHANGED <<deltas, requests, cursor, known, alerted, rcaClaims, raised, answered,
                    pc, upto, at, answering, faults, lapses, restarts>>
    BY <1>1 DEF Explained
  <2>2. TypeOK'
    BY <2>1, <2>a, <2>b DEF TypeOK
  <2>3. QED BY <1>1, <2>2 DEF Explained, Position
<1>2. CASE ExplainFails(n)
  <2>1. faults' \in 0..MaxFaults
    BY <1>2, AgentsAssumption DEF ExplainFails, Fault, TypeOK
  <2>2. TypeOK'
    BY <1>0, <1>2, <2>1 DEF ExplainFails, TypeOK
  <2>3. QED BY <1>2, <2>2 DEF ExplainFails, Position
<1>3. QED BY <1>1, <1>2

LEMMA RequestType ==
    TInv /\ (AlarmsDone \/ ReadRequests \/ Scan \/ LookUp \/ ScanDone \/ TickDone) => TInv'
<1> SUFFICES ASSUME TInv,
                    AlarmsDone \/ ReadRequests \/ Scan \/ LookUp \/ ScanDone \/ TickDone
             PROVE  TInv'
  OBVIOUS
<1> USE DEF TInv, streams, claims, outputs, hand, bounds, Goto
<1>0. Sized
  BY Sizes
<1>1. CASE AlarmsDone
  BY <1>0, <1>1 DEF AlarmsDone, TypeOK, Position
<1>2. CASE ReadRequests
  <2>1. Len(requests) \in Nat /\ cursor["requests"] \in Nat
        /\ cursor["requests"] <= Len(requests)
    <3>1. Len(requests) \in Nat /\ cursor["requests"] \in Nat
      BY <1>0 DEF Sized
    <3>2. QED BY <3>1 DEF TypeOK
  <2>2. TypeOK'
    BY <1>2, <2>1 DEF ReadRequests, TypeOK
  <2>3. QED BY <1>2, <2>1, <2>2 DEF ReadRequests, Position
<1>3. CASE Scan
  <2>1. /\ at' = at + 1 /\ at' \in Nat /\ at' > 0 /\ at' <= upto /\ at' <= Len(requests)
        /\ upto <= Len(requests)
    <3>1. at < upto /\ upto <= Len(requests) /\ at' = at + 1
      BY <1>3 DEF Scan, Position
    <3>2. at \in Nat /\ upto \in Nat /\ Len(requests) \in Nat
      BY <1>0 DEF Sized
    <3>3. QED BY <3>1, <3>2
  <2>2. requests \in Seq(Diagnoses)
    BY DEF TypeOK
  <2>3. requests[at'] \in Diagnoses
    BY <2>1, <2>2, Element
  <2>4. rcaClaims' \subseteq Diagnoses /\ pc' \in {"scan", "look up"}
    BY <1>3, <2>3 DEF Scan, TypeOK
  <2>5. TypeOK'
    <3>1. upto' = upto /\ faults' = faults /\ lapses' = lapses /\ restarts' = restarts
      BY <1>3 DEF Scan
    <3>2. QED BY <1>3, <2>1, <2>4, <3>1 DEF Scan, TypeOK
  <2>6. Position'
    BY <1>3, <2>1, <2>4 DEF Scan, Position
  <2>7. QED BY <2>5, <2>6
<1>4. CASE LookUp
  <2>1. TypeOK'
    BY <1>0, <1>4 DEF LookUp, TypeOK
  <2>2. Position'
    BY <1>0, <1>4 DEF LookUp, Position
  <2>3. QED BY <2>1, <2>2
<1>5. CASE ScanDone
  <2>1. /\ cursor' \in [Lanes -> Nat] /\ cursor'["deltas"] = cursor["deltas"]
        /\ cursor'["alarms"] = cursor["alarms"]
        /\ cursor'["requests"] = upto
    <3>1. upto \in Nat /\ Advance("requests", upto)
      BY <1>0, <1>5 DEF Sized, ScanDone
    <3>2. QED BY <3>1, Advanced, LanesAre
  <2>2. upto <= Len(requests)
    BY <1>0, <1>5 DEF ScanDone, Position
  <2>3. TypeOK'
    BY <1>0, <1>5, <2>1, <2>2 DEF ScanDone, TypeOK
  <2>4. Position'
    BY <1>0, <1>5 DEF ScanDone, Position
  <2>5. QED BY <2>3, <2>4
<1>6. CASE TickDone
  BY <1>0, <1>6 DEF TickDone, TypeOK, Position
<1>7. QED BY <1>1, <1>2, <1>3, <1>4, <1>5, <1>6

LEMMA AnswerType ==
    ASSUME TInv, NEW d \in Diagnoses,
           Answered(d) \/ AnswerFails(d) \/ ClaimLapses(d) \/ Restart
    PROVE  TInv'
<1> USE DEF TInv, streams, claims, outputs, hand, bounds, Goto
<1>0. Sized
  BY Sizes
<1>1. CASE Answered(d)
  <2>1. /\ alerts' \in Seq(Kinds) /\ DOMAIN alerts \subseteq DOMAIN alerts'
        /\ cursor["alarms"] <= Len(alerts')
    BY <1>1, PublishType DEF Answered, Kinds
  <2>2. answered' \in [Diagnoses -> Nat]
    BY <1>0, <1>1 DEF Answered, TypeOK
  <2>3. TypeOK'
    BY <1>0, <1>1, <2>1, <2>2 DEF Answered, TypeOK
  <2>4. QED BY <1>1, <2>3 DEF Answered, Position
<1>2. CASE AnswerFails(d)
  <2>1. faults' \in 0..MaxFaults
    BY <1>2, AgentsAssumption DEF AnswerFails, Fault, TypeOK
  <2>2. TypeOK'
    BY <1>0, <1>2, <2>1 DEF AnswerFails, TypeOK
  <2>3. QED BY <1>2, <2>2 DEF AnswerFails, Position
<1>3. CASE ClaimLapses(d)
  <2>1. lapses' \in 0..MaxLapses
    <3>1. lapses < MaxLapses /\ lapses' = lapses + 1
      BY <1>3 DEF ClaimLapses
    <3>2. lapses \in 0..MaxLapses
      BY DEF TypeOK
    <3>3. QED BY <3>1, <3>2, AgentsAssumption
  <2>2. TypeOK'
    BY <1>0, <1>3, <2>1 DEF ClaimLapses, TypeOK
  <2>3. QED BY <1>3, <2>2 DEF ClaimLapses, Position
<1>4. CASE Restart
  <2>1. restarts' \in 0..MaxRestarts
    <3>1. restarts < MaxRestarts /\ restarts' = restarts + 1
      BY <1>4 DEF Restart
    <3>2. restarts \in 0..MaxRestarts
      BY DEF TypeOK
    <3>3. QED BY <3>1, <3>2, AgentsAssumption
  <2>2. TypeOK'
    BY <1>0, <1>4, <2>1 DEF Restart, TypeOK
  <2>3. QED BY <1>4, <2>2 DEF Restart, Position
<1>5. QED BY <1>1, <1>2, <1>3, <1>4

LEMMA TypeInd == TInv /\ [Next]_vars => TInv'
<1> SUFFICES ASSUME TInv, [Next]_vars PROVE TInv'
  OBVIOUS
<1>1. CASE World
  BY <1>1, WorldType
<1>2. CASE \E n \in explaining : Explained(n) \/ ExplainFails(n)
  BY <1>2, AlarmType
<1>3. CASE \E d \in answering : Answered(d) \/ AnswerFails(d)
  <2>1. answering \subseteq Diagnoses
    BY DEF TInv, TypeOK
  <2>2. QED BY <1>3, <2>1, AnswerType
<1>4. CASE (\E d \in Diagnoses : ClaimLapses(d))
  BY <1>4, AnswerType
<1>5. CASE Restart
  <2>1. CASE Diagnoses = {}
    <3>1. restarts' \in 0..MaxRestarts
      <4>1. restarts < MaxRestarts /\ restarts' = restarts + 1
        BY <1>5 DEF Restart
      <4>2. restarts \in 0..MaxRestarts
        BY DEF TInv, TypeOK
      <4>3. QED BY <4>1, <4>2, AgentsAssumption
    <3>2. TypeOK'
      BY <1>5, <3>1 DEF Restart, TInv, TypeOK, streams, outputs, claims, Goto
    <3>3. QED BY <1>5, <3>2 DEF Restart, TInv, Position, Goto
  <2>2. QED BY <1>5, <2>1, AnswerType
<1>6. CASE UNCHANGED vars
  BY <1>6 DEF vars, TInv, TypeOK, Position
<1>7. QED
  BY <1>1, <1>2, <1>3, <1>4, <1>5, <1>6, DeltaType, ReadAlarmsType, RequestType
  DEF Next, Tick, Failure

-----------------------------------------------------------------------------
(* Patterns *)

\* A step that leaves the deltas and their claims alone.
LEMMA PatternsStutter ==
    ASSUME PatternsHeld, NothingSkipped, UNCHANGED <<deltas, alerted, raised>>,
           cursor'["deltas"] = cursor["deltas"],
           pc' = pc \/ pc' \notin {"reason", "follow up"}
    PROVE  PatternsHeld' /\ NothingSkipped'
  BY DEF PatternsHeld, NothingSkipped, InHand

\* The cursor passes an entry that is claimed or nothing.
LEMMA Passed ==
    ASSUME TInv, NothingSkipped, cursor["deltas"] < Len(deltas),
           InHand = NoPattern \/ InHand \in alerted,
           UNCHANGED <<deltas, alerted>>, Advance("deltas", cursor["deltas"] + 1)
    PROVE  NothingSkipped'
<1>1. cursor["deltas"] \in Nat /\ DOMAIN deltas = 1..Len(deltas) /\ Len(deltas) \in Nat
  BY Sizes DEF Sized, TInv
<1>2. cursor'["deltas"] = cursor["deltas"] + 1
  <2>1. cursor["deltas"] + 1 \in Nat
    BY <1>1
  <2>2. QED BY <2>1, Advanced, LanesAre DEF TInv
<1>3. SUFFICES ASSUME NEW n \in DOMAIN deltas, n <= cursor["deltas"] + 1
               PROVE  deltas[n] = NoPattern \/ deltas[n] \in alerted
  BY <1>2 DEF NothingSkipped
<1>4. n <= cursor["deltas"] \/ n = cursor["deltas"] + 1
  BY <1>1, <1>3
<1>5. QED BY <1>3, <1>4 DEF NothingSkipped, InHand

LEMMA DeltaPatterns ==
    ASSUME TInv, PatternsHeld, NothingSkipped,
           DeltaArrives \/ NothingNew \/ ClaimPattern \/ RaisePattern \/ FollowUp
    PROVE  PatternsHeld' /\ NothingSkipped'
<1> USE DEF streams, claims, outputs, hand, bounds, Goto
<1>0. /\ cursor["deltas"] \in Nat /\ upto \in Nat
      /\ Len(deltas) \in Nat /\ DOMAIN deltas = 1..Len(deltas)
  BY Sizes DEF Sized, TInv
<1>1. pc \in {"reason", "follow up"} =>
        /\ cursor["deltas"] < Len(deltas) /\ cursor["deltas"] + 1 \in DOMAIN deltas
        /\ InHand \in Patterns \cup {NoPattern}
  <2>1. SUFFICES ASSUME pc \in {"reason", "follow up"}
                 PROVE  /\ cursor["deltas"] < Len(deltas)
                        /\ cursor["deltas"] + 1 \in DOMAIN deltas
                        /\ InHand \in Patterns \cup {NoPattern}
    OBVIOUS
  <2>2. cursor["deltas"] < upto /\ upto <= Len(deltas)
    BY <2>1 DEF TInv, Position
  <2>3. cursor["deltas"] < Len(deltas)
    BY <1>0, <2>2
  <2>4. QED BY <2>3, HandType DEF TInv
<1>2. pc = "delta" /\ cursor["deltas"] < upto => cursor["deltas"] < Len(deltas)
  <2>1. SUFFICES ASSUME pc = "delta", cursor["deltas"] < upto
                 PROVE  cursor["deltas"] < Len(deltas)
    OBVIOUS
  <2>2. upto <= Len(deltas)
    BY <2>1 DEF TInv, Position
  <2>3. QED BY <1>0, <2>1, <2>2
<1>3. CASE DeltaArrives
  <2>1. PICK p \in Patterns \cup {NoPattern} : deltas' = Append(deltas, p)
    BY <1>3 DEF DeltaArrives
  <2>2. deltas \in Seq(Patterns \cup {NoPattern})
    BY DEF TInv, TypeOK
  <2>3. /\ DOMAIN deltas' = 1..(Len(deltas) + 1)
        /\ \A n \in DOMAIN deltas : deltas'[n] = deltas[n]
    BY <2>1, <2>2, Appended
  <2>4. cursor' = cursor /\ UNCHANGED <<pc, alerted, raised>>
    BY <1>3 DEF DeltaArrives
  <2>5. PatternsHeld'
    <3>1. pc \in {"reason", "follow up"} => InHand' = InHand
      BY <1>1, <2>3, <2>4 DEF InHand
    <3>2. QED BY <2>4, <3>1 DEF PatternsHeld
  <2>6. NothingSkipped'
    <3>1. SUFFICES ASSUME NEW n \in DOMAIN deltas', n <= cursor["deltas"]
                   PROVE  deltas'[n] = NoPattern \/ deltas'[n] \in alerted
      BY <2>4 DEF NothingSkipped
    <3>2. cursor["deltas"] <= Len(deltas)
      BY DEF TInv, TypeOK
    <3>3. n \in DOMAIN deltas
      BY <1>0, <2>3, <3>1, <3>2
    <3>4. QED BY <2>3, <3>1, <3>3 DEF NothingSkipped
  <2>7. QED BY <2>5, <2>6
<1>4. CASE NothingNew
  <2>1. NothingSkipped'
    BY <1>2, <1>4, Passed DEF NothingNew
  <2>2. PatternsHeld'
    BY <1>4 DEF NothingNew, PatternsHeld
  <2>3. QED BY <2>1, <2>2
<1>5. CASE ClaimPattern
  <2>1. /\ InHand \in Patterns /\ InHand \notin alerted /\ InHand' = InHand
        /\ alerted' = alerted \cup {InHand} /\ raised' = raised /\ pc' = "reason"
    BY <1>2, <1>5, HandType DEF ClaimPattern, TInv, InHand
  <2>2. raised[InHand] = 0
    <3>1. raised[InHand] \in Nat
      BY <2>1 DEF TInv, TypeOK
    <3>2. raised[InHand] <= 1 /\ raised[InHand] # 1
      BY <2>1 DEF PatternsHeld
    <3>3. QED BY <3>1, <3>2
  <2>3. PatternsHeld'
    BY <2>1, <2>2 DEF PatternsHeld
  <2>4. NothingSkipped'
    BY <1>5, <2>1 DEF ClaimPattern, NothingSkipped
  <2>5. QED BY <2>3, <2>4
<1>6. CASE RaisePattern
  <2>1. InHand \in alerted /\ raised[InHand] = 0 /\ pc = "reason"
    BY <1>6 DEF RaisePattern, PatternsHeld
  <2>2. InHand \in Patterns
    BY <2>1 DEF TInv, TypeOK
  <2>3. raised \in [Patterns -> Nat]
    BY DEF TInv, TypeOK
  <2>4. /\ raised'[InHand] = 1
        /\ \A p \in Patterns \ {InHand} : raised'[p] = raised[p]
    <3>1. raised' = [raised EXCEPT ![InHand] = @ + 1]
      BY <1>6 DEF RaisePattern
    <3>2. /\ raised'[InHand] = raised[InHand] + 1
          /\ \A p \in Patterns \ {InHand} : raised'[p] = raised[p]
      BY <2>2, <2>3, <3>1
    <3>3. QED BY <2>1, <3>2
  <2>5. /\ UNCHANGED <<deltas, alerted, cursor>> /\ InHand' = InHand
        /\ pc' = "follow up"
    BY <1>6 DEF RaisePattern, InHand
  <2>6. \A p \in Patterns : raised'[p] <= 1 /\ (raised'[p] = 1 => p \in alerted)
    BY <2>1, <2>4 DEF PatternsHeld
  <2>7. PatternsHeld'
    BY <2>1, <2>5, <2>6 DEF PatternsHeld
  <2>8. NothingSkipped'
    BY <2>5 DEF NothingSkipped
  <2>9. QED BY <2>7, <2>8
<1>7. CASE FollowUp
  <2>1. NothingSkipped'
    BY <1>1, <1>7, Passed DEF FollowUp, PatternsHeld
  <2>2. PatternsHeld'
    BY <1>7 DEF FollowUp, PatternsHeld
  <2>3. QED BY <2>1, <2>2
<1>8. QED BY <1>3, <1>4, <1>5, <1>6, <1>7

LEMMA PatternsInd ==
    TInv /\ PatternsHeld /\ NothingSkipped /\ [Next]_vars
        => PatternsHeld' /\ NothingSkipped'
<1> SUFFICES ASSUME TInv, PatternsHeld, NothingSkipped, [Next]_vars
             PROVE  PatternsHeld' /\ NothingSkipped'
  OBVIOUS
<1> USE DEF streams, claims, outputs, hand, bounds, Goto
<1>1. CASE AlarmArrives \/ Diagnosed \/ Ask \/ ReadDeltas \/ DeltasDone \/ AlarmsDone
  BY <1>1, PatternsStutter
  DEF AlarmArrives, Diagnosed, Ask, ReadDeltas, DeltasDone, AlarmsDone
<1>2. CASE ReadAlarms
  <2>1. cursor'["deltas"] = cursor["deltas"]
    <3>1. CASE Unread = {}
      BY <1>2, <3>1 DEF ReadAlarms
    <3>2. CASE Unread # {}
      <4>1. PICK last \in Unread : Advance("alarms", last)
        BY <1>2, <3>2 DEF ReadAlarms
      <4>2. last \in Nat
        BY Sizes DEF Unread, Sized, TInv
      <4>3. QED BY <4>1, <4>2, Advanced, LanesAre DEF TInv
    <3>3. QED BY <3>1, <3>2
  <2>2. UNCHANGED <<deltas, alerted, raised>> /\ pc' \notin {"reason", "follow up"}
    BY <1>2 DEF ReadAlarms
  <2>3. QED BY <2>1, <2>2, PatternsStutter
<1>3. CASE \E n \in explaining : Explained(n) \/ ExplainFails(n)
  BY <1>3, PatternsStutter DEF Explained, ExplainFails
<1>4. CASE ReadRequests \/ Scan \/ LookUp \/ TickDone
  BY <1>4, PatternsStutter DEF ReadRequests, Scan, LookUp, TickDone
<1>5. CASE ScanDone
  <2>1. cursor'["deltas"] = cursor["deltas"]
    <3>1. upto \in Nat /\ Advance("requests", upto)
      BY <1>5 DEF ScanDone, TInv, TypeOK
    <3>2. QED BY <3>1, Advanced, LanesAre DEF TInv
  <2>2. QED BY <1>5, <2>1, PatternsStutter DEF ScanDone
<1>6. CASE \E d \in answering : Answered(d) \/ AnswerFails(d)
  BY <1>6, PatternsStutter DEF Answered, AnswerFails
<1>7. CASE (\E d \in Diagnoses : ClaimLapses(d)) \/ Restart
  BY <1>7, PatternsStutter DEF ClaimLapses, Restart
<1>8. CASE UNCHANGED vars
  BY <1>8, PatternsStutter DEF vars
<1>9. QED
  BY <1>1, <1>2, <1>3, <1>4, <1>5, <1>6, <1>7, <1>8, DeltaPatterns
  DEF Next, World, Tick, Failure

-----------------------------------------------------------------------------
(* Answers *)

\* A step that leaves answers, claims and the investigations under way alone.
LEMMA BudgetsStutter ==
    ASSUME Budgets, UNCHANGED <<answered, lapses, answering, rcaClaims>>,
           known \subseteq known',
           pc' # "look up" \/ (UNCHANGED <<pc, at>> /\ requests'[at] = requests[at])
    PROVE  Budgets'
<1>1. \A d \in Diagnoses : Working(d)' => Working(d)
  BY DEF Working
<1>2. SUFFICES ASSUME NEW d \in Diagnoses PROVE Budget(d)'
  BY DEF Budgets
<1>3. Budget(d) /\ (Working(d)' => Working(d))
  BY <1>1 DEF Budgets
<1>4. CASE Working(d)'
  BY <1>3, <1>4 DEF Budget
<1>5. CASE ~Working(d)'
  BY <1>3, <1>5 DEF Budget
<1>6. QED BY <1>4, <1>5

\* The numbers a budget compares.
LEMMA BudgetTypes ==
    TypeOK => lapses \in Nat /\ \A d \in Diagnoses : answered[d] \in Nat
<1> SUFFICES ASSUME TypeOK
             PROVE  lapses \in Nat /\ \A d \in Diagnoses : answered[d] \in Nat
  OBVIOUS
<1>1. lapses \in 0..MaxLapses /\ answered \in [Diagnoses -> Nat]
  BY DEF TypeOK
<1>2. QED BY <1>1, AgentsAssumption

LEMMA ClaimsBudgets ==
    ASSUME TInv, Budgets, Ask \/ Scan \/ LookUp PROVE Budgets'
<1> USE DEF streams, claims, outputs, hand, bounds, Goto
<1>0. /\ at \in Nat /\ requests \in Seq(Diagnoses)
      /\ lapses \in Nat /\ \A d \in Diagnoses : answered[d] \in Nat
  BY BudgetTypes DEF TInv, TypeOK
<1>1. CASE Ask
  <2>1. pc = "look up" => requests'[at] = requests[at]
    <3>1. PICK d \in Diagnoses : requests' = Append(requests, d)
      BY <1>1 DEF Ask
    <3>2. SUFFICES ASSUME pc = "look up" PROVE requests'[at] = requests[at]
      OBVIOUS
    <3>3. at <= upto /\ upto <= Len(requests) /\ at > 0
      BY <3>2 DEF TInv, Position
    <3>4. upto \in Nat /\ Len(requests) \in Nat /\ DOMAIN requests = 1..Len(requests)
      BY Sizes DEF TInv, Sized
    <3>5. at \in DOMAIN requests
      BY <1>0, <3>3, <3>4
    <3>6. QED BY <1>0, <3>1, <3>5, Appended
  <2>2. UNCHANGED <<answered, lapses, answering, rcaClaims, known, pc, at>>
    BY <1>1 DEF Ask
  <2>3. pc' # "look up" \/ (UNCHANGED <<pc, at>> /\ requests'[at] = requests[at])
    BY <2>1, <2>2
  <2>4. QED BY <2>2, <2>3, BudgetsStutter
<1>2. CASE Scan
  <2>1. UNCHANGED <<answered, lapses, answering, known, requests>> /\ pc = "scan"
    BY <1>2 DEF Scan
  <2>2. SUFFICES ASSUME NEW d \in Diagnoses PROVE Budget(d)'
    BY <2>1 DEF Budgets
  <2>3. Budget(d)
    BY DEF Budgets
  <2>4. CASE requests[at'] \in rcaClaims
    <3>1. rcaClaims' = rcaClaims /\ pc' = "scan"
      BY <1>2, <2>4 DEF Scan
    <3>2. Working(d)' <=> Working(d)
      BY <2>1, <3>1 DEF Working
    <3>3. QED BY <2>1, <2>3, <3>1, <3>2 DEF Budget
  <2>5. CASE requests[at'] \notin rcaClaims
    <3>1. rcaClaims' = rcaClaims \cup {requests[at']}
      BY <1>2, <2>5 DEF Scan
    <3>2. CASE d = requests[at']
      <4>1. answered[d] <= lapses /\ d \in rcaClaims'
        BY <2>3, <2>5, <3>1, <3>2 DEF Budget
      <4>2. QED BY <1>0, <2>1, <4>1 DEF Budget
    <3>3. CASE d # requests[at']
      <4>1. (Working(d)' => Working(d)) /\ (d \in rcaClaims' <=> d \in rcaClaims)
        BY <2>1, <3>1, <3>3 DEF Working
      <4>2. CASE Working(d)'
        BY <2>1, <2>3, <4>1, <4>2 DEF Budget
      <4>3. CASE ~Working(d)'
        BY <2>1, <2>3, <4>1, <4>3 DEF Budget
      <4>4. QED BY <4>2, <4>3
    <3>4. QED BY <3>2, <3>3
  <2>6. QED BY <2>4, <2>5
<1>3. CASE LookUp
  <2>1. UNCHANGED <<answered, lapses, known, requests, at>> /\ pc = "look up" /\ pc' = "scan"
    BY <1>3 DEF LookUp
  <2>2. answering' \subseteq known'
    BY <1>3, <2>1 DEF LookUp, Budgets
  <2>3. SUFFICES ASSUME NEW d \in Diagnoses PROVE Budget(d)'
    BY <2>2 DEF Budgets
  <2>4. Budget(d) /\ answering \subseteq known
    BY DEF Budgets
  <2>5. CASE requests[at] \in known
    <3>1. answering' = answering \cup {requests[at]} /\ rcaClaims' = rcaClaims
      BY <1>3, <2>5 DEF LookUp
    <3>2. Working(d)' <=> Working(d)
      BY <2>1, <3>1 DEF Working
    <3>3. QED BY <2>1, <2>4, <3>1, <3>2 DEF Budget
  <2>6. CASE requests[at] \notin known
    <3>1. answering' = answering /\ rcaClaims' = rcaClaims \ {requests[at]}
      BY <1>3, <2>6 DEF LookUp
    <3>2. CASE d = requests[at]
      <4>1. ~Working(d)' /\ Working(d)
        BY <2>1, <2>4, <2>6, <3>1, <3>2 DEF Working
      <4>2. answered[d] <= lapses /\ answered[d] <= lapses + 1
        BY <2>4, <4>1 DEF Budget
      <4>3. QED BY <2>1, <4>1, <4>2 DEF Budget
    <3>3. CASE d # requests[at]
      <4>1. (Working(d)' <=> Working(d)) /\ (d \in rcaClaims' <=> d \in rcaClaims)
        BY <2>1, <3>1, <3>3 DEF Working
      <4>2. QED BY <2>1, <2>4, <4>1 DEF Budget
    <3>4. QED BY <3>2, <3>3
  <2>7. QED BY <2>5, <2>6
<1>4. QED BY <1>1, <1>2, <1>3

LEMMA AnswersBudgets ==
    ASSUME TInv, Budgets, NEW c \in Diagnoses,
           \/ c \in answering /\ (Answered(c) \/ AnswerFails(c))
           \/ ClaimLapses(c)
    PROVE  Budgets'
<1> USE DEF streams, claims, outputs, hand, bounds, Goto
<1>0. lapses \in Nat /\ \A d \in Diagnoses : answered[d] \in Nat
  BY BudgetTypes DEF TInv
<1>1. answering' \subseteq known'
  BY DEF Budgets, Answered, AnswerFails, ClaimLapses
<1>2. SUFFICES ASSUME NEW d \in Diagnoses PROVE Budget(d)'
  BY <1>1 DEF Budgets
<1>3. Budget(d) /\ answered[d] \in Nat
  BY <1>0 DEF Budgets
<1>4. CASE c \in answering /\ Answered(c)
  <2>1. /\ UNCHANGED <<lapses, rcaClaims, pc>> /\ pc = "answer"
        /\ answering' = answering \ {c} /\ answered' = [answered EXCEPT ![c] = @ + 1]
    BY <1>4 DEF Answered
  <2>2. answered \in [Diagnoses -> Nat]
    BY DEF TInv, TypeOK
  <2>3. CASE d = c
    <3>1. answered'[d] = answered[d] + 1
      BY <2>1, <2>2, <2>3
    <3>2. Working(d) /\ ~Working(d)'
      BY <1>4, <2>1, <2>3 DEF Working
    <3>3. answered[d] <= lapses /\ (d \notin rcaClaims => answered[d] < lapses)
      BY <1>3, <3>2 DEF Budget
    <3>4. answered[d] + 1 <= lapses + 1 /\ (d \notin rcaClaims => answered[d] + 1 <= lapses)
      BY <1>0, <1>3, <3>3
    <3>5. QED BY <2>1, <3>1, <3>2, <3>4 DEF Budget
  <2>4. CASE d # c
    <3>1. answered'[d] = answered[d]
      BY <2>1, <2>2, <2>4
    <3>2. Working(d)' <=> Working(d)
      BY <2>1, <2>4 DEF Working
    <3>3. QED BY <1>3, <2>1, <3>1, <3>2 DEF Budget
  <2>5. QED BY <2>3, <2>4
<1>5. CASE c \in answering /\ AnswerFails(c)
  <2>1. /\ UNCHANGED <<answered, lapses, pc>> /\ pc = "answer"
        /\ answering' = answering \ {c} /\ rcaClaims' = rcaClaims \ {c}
    BY <1>5 DEF AnswerFails
  <2>2. CASE d = c
    <3>1. Working(d) /\ ~Working(d)'
      BY <1>5, <2>1, <2>2 DEF Working
    <3>2. answered[d] <= lapses
      BY <1>3, <3>1 DEF Budget
    <3>3. QED BY <1>0, <1>3, <2>1, <3>1, <3>2 DEF Budget
  <2>3. CASE d # c
    <3>1. (Working(d)' <=> Working(d)) /\ (d \in rcaClaims' <=> d \in rcaClaims)
      BY <2>1, <2>3 DEF Working
    <3>2. QED BY <1>3, <2>1, <3>1 DEF Budget
  <2>4. QED BY <2>2, <2>3
<1>6. CASE ClaimLapses(c)
  <2>1. UNCHANGED <<answered, answering, pc, at, requests>> /\ lapses' = lapses + 1
    BY <1>6 DEF ClaimLapses
  <2>2. Working(d)' <=> Working(d)
    BY <2>1 DEF Working
  <2>3. answered[d] <= lapses + 1 /\ (Working(d) => answered[d] <= lapses)
    BY <1>3 DEF Budget
  <2>4. answered[d] <= lapses + 2 /\ (Working(d) => answered[d] < lapses + 1)
    BY <1>0, <1>3, <2>3
  <2>5. QED BY <1>0, <1>3, <2>1, <2>2, <2>3, <2>4 DEF Budget
<1>7. QED BY <1>4, <1>5, <1>6

LEMMA BudgetsInd == TInv /\ Budgets /\ [Next]_vars => Budgets'
<1> SUFFICES ASSUME TInv, Budgets, [Next]_vars PROVE Budgets'
  OBVIOUS
<1> USE DEF streams, claims, outputs, hand, bounds, Goto
<1>1. CASE DeltaArrives \/ AlarmArrives \/ Diagnosed
  BY <1>1, BudgetsStutter DEF DeltaArrives, AlarmArrives, Diagnosed
<1>2. CASE ReadDeltas \/ NothingNew \/ ClaimPattern \/ RaisePattern \/ FollowUp \/ DeltasDone
  BY <1>2, BudgetsStutter
  DEF ReadDeltas, NothingNew, ClaimPattern, RaisePattern, FollowUp, DeltasDone
<1>3. CASE ReadAlarms \/ AlarmsDone \/ ReadRequests \/ ScanDone \/ TickDone
  BY <1>3, BudgetsStutter DEF ReadAlarms, AlarmsDone, ReadRequests, ScanDone, TickDone
<1>4. CASE \E n \in explaining : Explained(n) \/ ExplainFails(n)
  BY <1>4, BudgetsStutter DEF Explained, ExplainFails
<1>5. CASE \E d \in answering : Answered(d) \/ AnswerFails(d)
  <2>1. answering \subseteq Diagnoses
    BY DEF TInv, TypeOK
  <2>2. QED BY <1>5, <2>1, AnswersBudgets
<1>6. CASE (\E d \in Diagnoses : ClaimLapses(d))
  BY <1>6, AnswersBudgets
<1>7. CASE Restart
  <2>1. /\ UNCHANGED <<answered, lapses, rcaClaims, known>>
        /\ answering' = {} /\ pc' = "tick"
    BY <1>7 DEF Restart
  <2>2. SUFFICES ASSUME NEW d \in Diagnoses PROVE Budget(d)'
    BY <2>1 DEF Budgets
  <2>3. Budget(d) /\ ~Working(d)'
    BY <2>1 DEF Budgets, Working
  <2>4. QED BY <2>1, <2>3 DEF Budget
<1>8. CASE UNCHANGED vars
  BY <1>8, BudgetsStutter DEF vars
<1>9. QED
  BY <1>1, <1>2, <1>3, <1>4, <1>5, <1>6, <1>7, <1>8, ClaimsBudgets
  DEF Next, World, Tick, Failure

-----------------------------------------------------------------------------
(* Echoes *)

\* Publishing takes nothing away from the plant alarms.
LEMMA AlarmsGrow ==
    ASSUME TInv, (\E kind \in Kinds : Publish(kind)) \/ alerts' = alerts
    PROVE  Alarms \subseteq Alarms'
<1>1. CASE alerts' = alerts
  BY <1>1 DEF Alarms
<1>2. CASE \E kind \in Kinds : Publish(kind)
  BY <1>2, PublishType DEF Alarms, TInv
<1>3. QED BY <1>1, <1>2

LEMMA EchoInd == TInv /\ NoEcho /\ [Next]_vars => NoEcho'
<1> SUFFICES ASSUME TInv, NoEcho, [Next]_vars PROVE NoEcho'
  OBVIOUS
<1> USE DEF streams, claims, outputs, hand, bounds, Goto
<1>1. CASE World
  <2>1. Alarms \subseteq Alarms'
    BY <1>1, AlarmsGrow DEF World, DeltaArrives, AlarmArrives, Diagnosed, Ask, Kinds
  <2>2. UNCHANGED <<explaining, explained>>
    BY <1>1 DEF World, DeltaArrives, AlarmArrives, Diagnosed, Ask
  <2>3. QED BY <2>1, <2>2 DEF NoEcho
<1>2. CASE RaisePattern
  BY <1>2, AlarmsGrow DEF RaisePattern, Kinds, NoEcho
<1>3. CASE ReadDeltas \/ NothingNew \/ ClaimPattern \/ FollowUp \/ DeltasDone
           \/ AlarmsDone \/ ReadRequests \/ Scan \/ LookUp \/ ScanDone \/ TickDone
  BY <1>3
  DEF ReadDeltas, NothingNew, ClaimPattern, FollowUp, DeltasDone, AlarmsDone,
      ReadRequests, Scan, LookUp, ScanDone, TickDone, NoEcho, Alarms
<1>4. CASE ReadAlarms
  <2>1. \A n \in Unread : Routed(n) => n \in Alarms
    BY DEF Unread, Routed, Alarms
  <2>2. explaining' \subseteq explaining \cup {n \in Unread : Routed(n)}
    BY <1>4 DEF ReadAlarms
  <2>3. explained' = explained /\ alerts' = alerts
    BY <1>4 DEF ReadAlarms
  <2>4. QED BY <2>1, <2>2, <2>3 DEF NoEcho, Alarms
<1>5. ASSUME NEW n \in explaining, Explained(n) PROVE NoEcho'
  <2>1. Alarms \subseteq Alarms'
    BY <1>5, AlarmsGrow DEF Explained, Kinds
  <2>2. QED BY <1>5, <2>1 DEF Explained, NoEcho
<1>6. ASSUME NEW n \in explaining, ExplainFails(n) PROVE NoEcho'
  BY <1>6 DEF ExplainFails, NoEcho, Alarms
<1>7. ASSUME NEW d \in answering, Answered(d) PROVE NoEcho'
  BY <1>7, AlarmsGrow DEF Answered, Kinds, NoEcho
<1>8. ASSUME NEW d \in answering, AnswerFails(d) PROVE NoEcho'
  BY <1>8 DEF AnswerFails, NoEcho, Alarms
<1>9. CASE (\E d \in Diagnoses : ClaimLapses(d)) \/ Restart
  BY <1>9 DEF ClaimLapses, Restart, NoEcho, Alarms
<1>10. CASE UNCHANGED vars
  BY <1>10 DEF vars, NoEcho, Alarms
<1>11. QED
  BY <1>1, <1>2, <1>3, <1>4, <1>5, <1>6, <1>7, <1>8, <1>9, <1>10 DEF Next, Tick, Failure

-----------------------------------------------------------------------------
(***************************************************************************)
(* Losses.  Without a fault and a restart a claimed entry is an            *)
(* investigation under way or done, so that none the batch reads is passed *)
(* over for a claim somebody left; and only between its reads is nothing   *)
(* under way.                                                              *)
(***************************************************************************)
Calm == faults = 0 /\ restarts = 0

EntriesHeld ==
    /\ pc # "explain" => explaining = {}
    /\ Calm => entryClaims \subseteq explaining \cup explained

LEMMA BoundsAre == TypeOK => faults \in Nat /\ restarts \in Nat /\ lapses \in Nat
<1> SUFFICES ASSUME TypeOK PROVE faults \in Nat /\ restarts \in Nat /\ lapses \in Nat
  OBVIOUS
<1>1. faults \in 0..MaxFaults /\ restarts \in 0..MaxRestarts /\ lapses \in 0..MaxLapses
  BY DEF TypeOK
<1>2. QED
  BY <1>1, AgentsAssumption

\* A step that leaves the patterns alone.
LEMMA AlertsStutter ==
    ASSUME AlertLostOnlyByRestart, UNCHANGED <<alerted, raised, restarts>>,
           pc = "reason" => pc' = "reason" /\ InHand' = InHand
    PROVE  AlertLostOnlyByRestart'
  BY DEF AlertLostOnlyByRestart

LEMMA AlertsKept ==
    ASSUME TInv, PatternsHeld, AlertLostOnlyByRestart, [Next]_vars
    PROVE  AlertLostOnlyByRestart'
<1> USE DEF streams, claims, outputs, hand, bounds, Goto
<1>1. CASE DeltaArrives
  <2>1. PICK p \in Patterns \cup {NoPattern} : deltas' = Append(deltas, p)
    BY <1>1 DEF DeltaArrives
  <2>2. UNCHANGED <<alerted, raised, restarts, pc, cursor>>
    BY <1>1 DEF DeltaArrives
  <2>3. pc = "reason" => InHand' = InHand
    <3>1. SUFFICES ASSUME pc = "reason" PROVE InHand' = InHand
      OBVIOUS
    <3>2. cursor["deltas"] < upto /\ upto <= Len(deltas)
      BY <3>1 DEF TInv, Position
    <3>3. cursor["deltas"] \in Nat /\ upto \in Nat /\ Len(deltas) \in Nat
      BY Sizes DEF TInv, Sized
    <3>4. cursor["deltas"] + 1 \in DOMAIN deltas
      BY <3>2, <3>3, HandType DEF TInv
    <3>5. deltas \in Seq(Patterns \cup {NoPattern})
      BY DEF TInv, TypeOK
    <3>6. deltas'[cursor["deltas"] + 1] = deltas[cursor["deltas"] + 1]
      BY <2>1, <3>4, <3>5, Appended
    <3>7. QED
      BY <2>2, <3>6 DEF InHand
  <2>4. QED
    BY <2>2, <2>3, AlertsStutter
<1>2. CASE ClaimPattern
  BY <1>2 DEF ClaimPattern, AlertLostOnlyByRestart, InHand
<1>3. CASE RaisePattern
  <2>1. /\ InHand \in Patterns /\ raised \in [Patterns -> Nat] /\ alerted \subseteq Patterns
        /\ pc = "reason" /\ UNCHANGED <<alerted, restarts>>
    BY <1>3 DEF RaisePattern, PatternsHeld, TInv, TypeOK
  <2>2. raised' = [raised EXCEPT ![InHand] = @ + 1]
    BY <1>3 DEF RaisePattern
  <2>3. /\ raised'[InHand] > 0
        /\ \A p \in Patterns \ {InHand} : raised'[p] = raised[p]
    BY <2>1, <2>2
  <2>4. QED
    BY <2>1, <2>3 DEF AlertLostOnlyByRestart
<1>4. CASE Restart
  BY <1>4, BoundsAre DEF Restart, AlertLostOnlyByRestart, TInv
<1>5. CASE World /\ ~DeltaArrives
  BY <1>5, AlertsStutter DEF World, AlarmArrives, Diagnosed, Ask, InHand
<1>6. CASE ReadDeltas \/ NothingNew \/ FollowUp \/ DeltasDone \/ ReadAlarms \/ AlarmsDone
           \/ ReadRequests \/ Scan \/ LookUp \/ ScanDone \/ TickDone
  BY <1>6, AlertsStutter
  DEF ReadDeltas, NothingNew, FollowUp, DeltasDone, ReadAlarms, AlarmsDone, ReadRequests,
      Scan, LookUp, ScanDone, TickDone
<1>7. CASE \E n \in explaining : Explained(n) \/ ExplainFails(n)
  BY <1>7, AlertsStutter DEF Explained, ExplainFails
<1>8. CASE \E d \in answering : Answered(d) \/ AnswerFails(d)
  BY <1>8, AlertsStutter DEF Answered, AnswerFails
<1>9. CASE (\E d \in Diagnoses : ClaimLapses(d)) \/ UNCHANGED vars
  BY <1>9, AlertsStutter DEF ClaimLapses, vars, InHand
<1>10. QED
  BY <1>1, <1>2, <1>3, <1>4, <1>5, <1>6, <1>7, <1>8, <1>9 DEF Next, Tick, Failure

\* A step that leaves the claims on diagnoses alone.
LEMMA AskStutter ==
    ASSUME AskAgain, UNCHANGED <<answered, answering, restarts>>, rcaClaims' \subseteq rcaClaims,
           pc = "look up" => pc' = "look up" /\ requests'[at'] = requests[at]
    PROVE  AskAgain'
  BY DEF AskAgain

LEMMA AskKept ==
    ASSUME TInv, AskAgain, [Next]_vars
    PROVE  AskAgain'
<1> USE DEF streams, claims, outputs, hand, bounds, Goto
<1>1. CASE Ask
  <2>1. PICK d \in Diagnoses : requests' = Append(requests, d)
    BY <1>1 DEF Ask
  <2>2. UNCHANGED <<answered, answering, restarts, rcaClaims, pc, at>>
    BY <1>1 DEF Ask
  <2>3. pc = "look up" => requests'[at] = requests[at]
    <3>1. SUFFICES ASSUME pc = "look up" PROVE requests'[at] = requests[at]
      OBVIOUS
    <3>2. at <= upto /\ upto <= Len(requests) /\ at > 0
      BY <3>1 DEF TInv, Position
    <3>3. at \in Nat /\ upto \in Nat /\ Len(requests) \in Nat
          /\ DOMAIN requests = 1..Len(requests)
      BY Sizes DEF TInv, Sized
    <3>4. at \in DOMAIN requests
      BY <3>2, <3>3
    <3>5. requests \in Seq(Diagnoses)
      BY DEF TInv, TypeOK
    <3>6. QED
      BY <2>1, <3>4, <3>5, Appended
  <2>4. QED
    BY <2>2, <2>3, AskStutter
<1>2. CASE Scan
  <2>1. UNCHANGED <<answered, answering, restarts, requests>> /\ pc = "scan"
    BY <1>2 DEF Scan
  <2>2. CASE requests[at'] \in rcaClaims
    BY <1>2, <2>1, <2>2, AskStutter DEF Scan
  <2>3. CASE requests[at'] \notin rcaClaims
    BY <1>2, <2>1, <2>3 DEF Scan, AskAgain
  <2>4. QED
    BY <2>2, <2>3
<1>3. CASE LookUp
  <2>1. UNCHANGED <<answered, restarts, requests, at>> /\ pc = "look up" /\ pc' = "scan"
    BY <1>3 DEF LookUp
  <2>2. CASE requests[at] \in known
    BY <1>3, <2>1, <2>2 DEF LookUp, AskAgain
  <2>3. CASE requests[at] \notin known
    BY <1>3, <2>1, <2>3 DEF LookUp, AskAgain
  <2>4. QED
    BY <2>2, <2>3
<1>4. ASSUME NEW c \in answering, Answered(c) PROVE AskAgain'
  <2>1. /\ UNCHANGED <<restarts, rcaClaims, pc, requests, at>>
        /\ answering' = answering \ {c} /\ answered' = [answered EXCEPT ![c] = @ + 1]
    BY <1>4 DEF Answered
  <2>2. answered \in [Diagnoses -> Nat] /\ c \in Diagnoses /\ rcaClaims \subseteq Diagnoses
    BY DEF TInv, TypeOK
  <2>3. answered'[c] > 0 /\ \A d \in Diagnoses \ {c} : answered'[d] = answered[d]
    BY <2>1, <2>2
  <2>4. QED
    BY <2>1, <2>2, <2>3 DEF AskAgain
<1>5. ASSUME NEW c \in answering, AnswerFails(c) PROVE AskAgain'
  <2>1. /\ UNCHANGED <<answered, restarts, pc, requests, at>>
        /\ answering' = answering \ {c} /\ rcaClaims' = rcaClaims \ {c}
    BY <1>5 DEF AnswerFails
  <2>2. QED
    BY <2>1 DEF AskAgain
<1>6. CASE Restart
  <2>1. restarts' > 0
    BY <1>6, BoundsAre DEF Restart, TInv
  <2>2. QED
    BY <2>1 DEF AskAgain
<1>7. CASE World /\ ~Ask
  BY <1>7, AskStutter DEF World, DeltaArrives, AlarmArrives, Diagnosed
<1>8. CASE ReadDeltas \/ NothingNew \/ ClaimPattern \/ RaisePattern \/ FollowUp \/ DeltasDone
           \/ ReadAlarms \/ AlarmsDone \/ ReadRequests \/ ScanDone \/ TickDone
  BY <1>8, AskStutter
  DEF ReadDeltas, NothingNew, ClaimPattern, RaisePattern, FollowUp, DeltasDone, ReadAlarms,
      AlarmsDone, ReadRequests, ScanDone, TickDone
<1>9. CASE \E n \in explaining : Explained(n) \/ ExplainFails(n)
  BY <1>9, AskStutter DEF Explained, ExplainFails
<1>10. CASE (\E d \in Diagnoses : ClaimLapses(d)) \/ UNCHANGED vars
  BY <1>10, AskStutter DEF ClaimLapses, vars
<1>11. QED
  BY <1>1, <1>2, <1>3, <1>4, <1>5, <1>6, <1>7, <1>8, <1>9, <1>10 DEF Next, Tick, Failure

\* A step that reads no alarms and ends no investigation of one.
LEMMA EntriesStutter ==
    ASSUME EntriesHeld, AlarmsExplained,
           UNCHANGED <<entryClaims, explaining, explained, faults, restarts>>,
           cursor'["alarms"] = cursor["alarms"],
           pc = "explain" => pc' = "explain" \/ explaining = {},
           \A n \in Alarms' \ Alarms : n > cursor["alarms"]
    PROVE  EntriesHeld' /\ AlarmsExplained'
  BY DEF EntriesHeld, AlarmsExplained, FailedIsRetried, Calm

\* What is published is behind no cursor.
LEMMA NewIsAhead ==
    ASSUME TInv, (\E kind \in Kinds : Publish(kind)) \/ alerts' = alerts
    PROVE  \A n \in Alarms' \ Alarms : n > cursor["alarms"]
<1>1. CASE alerts' = alerts
  BY <1>1 DEF Alarms
<1>2. ASSUME NEW kind \in Kinds, Publish(kind)
      PROVE  \A n \in Alarms' \ Alarms : n > cursor["alarms"]
  <2>1. /\ Len(alerts') = Len(alerts) + 1 /\ DOMAIN alerts' = 1..Len(alerts')
        /\ \A n \in DOMAIN alerts : alerts'[n] = alerts[n]
    BY <1>2, PublishType DEF TInv
  <2>2. /\ cursor["alarms"] \in Nat /\ Len(alerts) \in Nat /\ DOMAIN alerts = 1..Len(alerts)
        /\ cursor["alarms"] <= Len(alerts)
    BY Sizes DEF TInv, Sized, TypeOK
  <2>3. ASSUME NEW n \in Alarms' \ Alarms PROVE n > cursor["alarms"]
    <3>1. n \in 1..(Len(alerts) + 1) /\ n \notin 1..Len(alerts)
      BY <2>1, <2>2 DEF Alarms
    <3>2. QED
      BY <2>2, <3>1
  <2>4. QED
    BY <2>3
<1>3. QED
  BY <1>1, <1>2

LEMMA EntriesKept ==
    ASSUME TInv, EntriesHeld, AlarmsExplained, [Next]_vars
    PROVE  EntriesHeld' /\ AlarmsExplained'
<1> USE DEF streams, claims, outputs, hand, bounds, Goto
<1>0. faults \in Nat /\ restarts \in Nat
  BY BoundsAre DEF TInv
<1>1. CASE World
  <2>1. \A n \in Alarms' \ Alarms : n > cursor["alarms"]
    BY <1>1, NewIsAhead DEF World, DeltaArrives, AlarmArrives, Diagnosed, Ask, Kinds
  <2>2. QED
    BY <1>1, <2>1, EntriesStutter DEF World, DeltaArrives, AlarmArrives, Diagnosed, Ask
<1>2. CASE RaisePattern
  <2>1. \A n \in Alarms' \ Alarms : n > cursor["alarms"]
    BY <1>2, NewIsAhead DEF RaisePattern, Kinds
  <2>2. QED
    BY <1>2, <2>1, EntriesStutter DEF RaisePattern
<1>3. CASE ReadDeltas \/ ClaimPattern \/ DeltasDone \/ AlarmsDone \/ ReadRequests \/ Scan
           \/ LookUp \/ TickDone
  <2>1. Alarms' = Alarms
    BY <1>3 DEF ReadDeltas, ClaimPattern, DeltasDone, AlarmsDone, ReadRequests, Scan,
                LookUp, TickDone, Alarms
  <2>2. QED
    BY <1>3, <2>1, EntriesStutter
    DEF ReadDeltas, ClaimPattern, DeltasDone, AlarmsDone, ReadRequests, Scan, LookUp,
        TickDone
<1>4. CASE NothingNew \/ FollowUp \/ ScanDone
  <2>1. Alarms' = Alarms
    BY <1>4 DEF NothingNew, FollowUp, ScanDone, Alarms
  <2>2. cursor'["alarms"] = cursor["alarms"]
    <3>1. cursor["deltas"] + 1 \in Nat /\ upto \in Nat
      BY Sizes DEF TInv, Sized
    <3>2. Advance("deltas", cursor["deltas"] + 1) \/ Advance("requests", upto)
      BY <1>4 DEF NothingNew, FollowUp, ScanDone
    <3>3. QED
      BY <3>1, <3>2, Advanced, LanesAre DEF TInv
  <2>3. QED
    BY <1>4, <2>1, <2>2, EntriesStutter DEF NothingNew, FollowUp, ScanDone
<1>5. CASE ReadAlarms /\ Unread = {}
  <2>1. Alarms' = Alarms
    BY <1>5 DEF ReadAlarms, Alarms
  <2>2. QED
    BY <1>5, <2>1, EntriesStutter DEF ReadAlarms
<1>6. CASE ReadAlarms /\ Unread # {}
  <2>1. PICK last \in Unread : Advance("alarms", last) /\ \A n \in Unread : n <= last
    BY <1>6 DEF ReadAlarms
  <2>2. /\ pc = "alarms" /\ pc' = "explain"
        /\ explaining' = {n \in Unread : Routed(n)} \ entryClaims
        /\ entryClaims' = entryClaims \cup explaining'
        /\ UNCHANGED <<alerts, explained, faults, restarts>>
    BY <1>6 DEF ReadAlarms
  <2>3. /\ cursor["alarms"] \in Nat /\ Len(alerts) \in Nat /\ DOMAIN alerts = 1..Len(alerts)
        /\ last \in Nat /\ last <= cursor["alarms"] + AlarmBatch
    BY Sizes DEF TInv, Sized, Unread
  <2>4. cursor'["alarms"] = last
    BY <2>1, <2>3, Advanced, LanesAre DEF TInv
  <2>5. Calm => entryClaims \subseteq explained
    BY <2>2 DEF EntriesHeld
  <2>6. EntriesHeld'
    BY <2>2, <2>5 DEF EntriesHeld, Calm
  <2>7. ASSUME Calm, AutoRca, NEW n \in Alarms, n <= last
        PROVE  n \in explaining' \cup explained
    <3>1. CASE n > cursor["alarms"]
      <4>1. n \in Unread /\ Routed(n)
        BY <2>3, <2>7, <3>1, AgentsAssumption DEF Unread, Routed, Alarms
      <4>2. QED
        BY <2>2, <2>5, <2>7, <4>1
    <3>2. CASE ~(n > cursor["alarms"])
      BY <2>2, <2>7, <3>2 DEF AlarmsExplained, FailedIsRetried, Calm, EntriesHeld
    <3>3. QED
      BY <3>1, <3>2
  <2>8. AlarmsExplained'
    <3>1. SUFFICES ASSUME Calm, AutoRca, NEW n \in Alarms
                   PROVE  n > last \/ n \in explaining' \cup explained
      BY <2>2, <2>4 DEF AlarmsExplained, FailedIsRetried, Calm, Alarms
    <3>2. n \in Nat
      BY <2>3 DEF Alarms
    <3>3. QED
      BY <2>3, <2>7, <3>1, <3>2
  <2>9. QED
    BY <2>6, <2>8
<1>7. ASSUME NEW n \in explaining, Explained(n) PROVE EntriesHeld' /\ AlarmsExplained'
  <2>1. \A m \in Alarms' \ Alarms : m > cursor["alarms"]
    BY <1>7, NewIsAhead DEF Explained, Kinds
  <2>2. /\ UNCHANGED <<entryClaims, faults, restarts, cursor, pc>> /\ pc = "explain"
        /\ explaining' \cup explained' = explaining \cup explained
    BY <1>7 DEF Explained
  <2>3. EntriesHeld'
    BY <2>2 DEF EntriesHeld, Calm
  <2>4. AlarmsExplained'
    BY <2>1, <2>2 DEF AlarmsExplained, FailedIsRetried
  <2>5. QED
    BY <2>3, <2>4
<1>8. ASSUME NEW n \in explaining, ExplainFails(n) PROVE EntriesHeld' /\ AlarmsExplained'
  <2>1. faults' # 0 /\ pc' = pc /\ pc = "explain"
    BY <1>0, <1>8 DEF ExplainFails, Fault
  <2>2. QED
    BY <2>1 DEF EntriesHeld, AlarmsExplained, Calm
<1>9. ASSUME NEW d \in answering, Answered(d) PROVE EntriesHeld' /\ AlarmsExplained'
  <2>1. \A m \in Alarms' \ Alarms : m > cursor["alarms"]
    BY <1>9, NewIsAhead DEF Answered, Kinds
  <2>2. QED
    BY <1>9, <2>1, EntriesStutter DEF Answered
<1>10. ASSUME NEW d \in answering, AnswerFails(d) PROVE EntriesHeld' /\ AlarmsExplained'
  <2>1. faults' # 0 /\ pc' = pc /\ explaining' = explaining
    BY <1>0, <1>10 DEF AnswerFails, Fault
  <2>2. QED
    BY <2>1 DEF EntriesHeld, AlarmsExplained, Calm
<1>11. CASE Restart
  <2>1. restarts' # 0 /\ explaining' = {}
    BY <1>0, <1>11 DEF Restart
  <2>2. QED
    BY <2>1 DEF EntriesHeld, AlarmsExplained, Calm
<1>12. CASE (\E d \in Diagnoses : ClaimLapses(d)) \/ UNCHANGED vars
  BY <1>12, EntriesStutter DEF ClaimLapses, vars, Alarms
<1>13. QED
  BY <1>1, <1>2, <1>3, <1>4, <1>5, <1>6, <1>7, <1>8, <1>9, <1>10, <1>11, <1>12
  DEF Next, Tick, Failure

-----------------------------------------------------------------------------
\* The inductive invariant holds for any streams, bounds and interleaving.
THEOREM InductiveInvariant == Spec => []IInv
<1>1. Init => IInv
  BY InitInd
<1>2. IInv /\ [Next]_vars => IInv'
  BY TypeInd, PatternsInd, BudgetsInd, EchoInd DEF IInv
<1>3. QED BY <1>1, <1>2, PTL DEF Spec

\* The runtime's streams, cursors and claims have their types, and the cursors stay
\* within the streams.
THEOREM TypeCorrect == Spec => []TypeOK
<1>1. IInv => TypeOK
  BY DEF IInv, TInv
<1>2. QED BY <1>1, InductiveInvariant, PTL

\* One alert for a pattern, one answer for a diagnosis and each lapse of a claim
\* (DeltaHandler.handle_delta, AgentsRuntime.tick_rca_requests).
THEOREM InvestigationsSpentOnce == Spec => []SpentOnce
<1>1. IInv => SpentOnce
  <2>1. SUFFICES ASSUME IInv PROVE SpentOnce
    OBVIOUS
  <2>2. lapses \in Nat /\ \A d \in Diagnoses : answered[d] \in Nat
    BY <2>1, BudgetTypes DEF IInv, TInv
  <2>3. \A d \in Diagnoses : answered[d] <= lapses + 1
    BY <2>1 DEF IInv, Budgets, Budget
  <2>4. \A d \in Diagnoses : answered[d] <= 1 + lapses
    BY <2>2, <2>3
  <2>5. QED BY <2>1, <2>4 DEF IInv, PatternsHeld, SpentOnce
<1>2. QED BY <1>1, InductiveInvariant, PTL

\* The runtime investigates no alert of its own (AgentsRuntime._route_alarm).
THEOREM OwnAlertsIgnored == Spec => []NoEcho
<1>1. IInv => NoEcho
  BY DEF IInv
<1>2. QED BY <1>1, InductiveInvariant, PTL

\* The delta cursor passes claimed patterns only (AgentsRuntime.tick).
THEOREM NoPatternSkipped == Spec => []NothingSkipped
<1>1. IInv => NothingSkipped
  BY DEF IInv
<1>2. QED BY <1>1, InductiveInvariant, PTL

\* What is lost is lost to a restart or to the failure of its investigation: a
\* pattern that is claimed has its alert, a claimed diagnosis its answer or somebody
\* at work on it, and every alarm behind the cursor its explanation.
THEOREM LossesHaveACause == Spec => []LossesAccounted
<1>1. Init => AlertLostOnlyByRestart /\ AskAgain /\ EntriesHeld /\ AlarmsExplained
  BY DEF Init, AlertLostOnlyByRestart, AskAgain, EntriesHeld, AlarmsExplained,
         FailedIsRetried, Alarms
<1>2. IInv /\ AlertLostOnlyByRestart /\ [Next]_vars => AlertLostOnlyByRestart'
  BY AlertsKept DEF IInv
<1>3. IInv /\ AskAgain /\ [Next]_vars => AskAgain'
  BY AskKept DEF IInv
<1>4. IInv /\ EntriesHeld /\ AlarmsExplained /\ [Next]_vars
          => EntriesHeld' /\ AlarmsExplained'
  BY EntriesKept DEF IInv
<1>5. AlertLostOnlyByRestart /\ AskAgain /\ AlarmsExplained => LossesAccounted
  BY DEF LossesAccounted
<1>6. QED
  BY <1>1, <1>2, <1>3, <1>4, <1>5, InductiveInvariant, PTL DEF Spec

=============================================================================
