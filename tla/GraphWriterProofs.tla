-------------------------- MODULE GraphWriterProofs --------------------------
(***************************************************************************)
(* What becomes of a push, for any number of flushers: type correctness,   *)
(* that the graph's changes are all announced, that only the culprit is    *)
(* parked, that no subgraph is lost or made up, and that the versions of   *)
(* the graph grow but for flushes that shared it, of which there are no    *)
(* more than locks that ended under a flush.                               *)
(***************************************************************************)
EXTENDS GraphWriter, FiniteSetTheorems, FunctionTheorems, SequenceTheorems, TLAPS

Round == UNION {[D -> Subgraphs] : D \in SUBSET (1..BatchSize)}

\* Where a flush has nothing in hand, and where it is in the middle of a round.
Outside == {"idle", "take", "release"}
Within == {"commit", "write", "announce"}

\* A flush has a round in hand only while it commits one; what is in hand, or waits
\* in the buffer, was pushed, and what does not parse is not in hand.
Handled ==
    /\ \A f \in Flushers : pc[f] \in Outside => DOMAIN todo[f] = {}
    /\ \A f \in Flushers : pc[f] \in Within => rounds[f] < MaxRounds
    /\ \A f \in Flushers : \A i \in DOMAIN todo[f] :
          kind[todo[f][i]] # "garbled" /\ pushed[todo[f][i]] > 0
    /\ \A i \in DOMAIN buffer : pushed[buffer[i]] > 0

\* A version is of one flusher, and on the stream only when that flusher put it there.
Numbered ==
    /\ \A f \in Flushers : pc[f] \in {"write", "announce"} =>
          ver[f] \in 1..version /\ ver[f] \notin Range(deltas)
    /\ \A f, g \in Flushers :
          (pc[f] \in {"write", "announce"} /\ pc[g] \in {"write", "announce"}
             /\ ver[f] = ver[g]) => f = g
    /\ \A f \in Flushers : pc[f] = "write" => ver[f] \notin committed
    /\ \A f \in Flushers : pc[f] = "announce" => ver[f] \in committed

IInv == TypeOK /\ Handled /\ Numbered

-----------------------------------------------------------------------------
(* Rounds and counts *)

\* What a round is.
LEMMA RoundIs ==
    ASSUME NEW r \in Round
    PROVE  /\ DOMAIN r \subseteq 1..BatchSize /\ IsFiniteSet(DOMAIN r)
           /\ \A i \in DOMAIN r : r[i] \in Subgraphs
<1>1. PICK D \in SUBSET (1..BatchSize) : r \in [D -> Subgraphs]
  BY DEF Round
<1>2. IsFiniteSet(1..BatchSize)
  BY FS_Interval, WriterAssumption
<1>3. QED
  BY <1>1, <1>2, FS_Subset

\* What a batch leaves of its round.
LEMMA RestIs ==
    ASSUME TypeOK, NEW f \in Flushers
    PROVE  /\ Rest(f) \in [Flushers -> Round]
           /\ \A g \in Flushers \ {f} : Rest(f)[g] = todo[g]
           /\ DOMAIN Rest(f)[f] = DOMAIN todo[f] \ Batch(f)
           /\ \A i \in DOMAIN todo[f] \ Batch(f) : Rest(f)[f][i] = todo[f][i]
<1> DEFINE D == DOMAIN todo[f] \ Batch(f)
           left == [i \in D |-> todo[f][i]]
<1>1. todo \in [Flushers -> Round]
  BY DEF TypeOK, Round
<1>2. D \in SUBSET (1..BatchSize) /\ left \in [D -> Subgraphs]
  BY <1>1, RoundIs
<1>3. left \in Round
  BY <1>2 DEF Round
<1>4. Rest(f) = [todo EXCEPT ![f] = left]
  BY DEF Rest, Restrict
<1>5. QED
  BY <1>1, <1>3, <1>4

\* A batch is part of its round.
LEMMA BatchIs ==
    ASSUME TypeOK, NEW f \in Flushers
    PROVE  /\ Batch(f) \subseteq DOMAIN todo[f] /\ IsFiniteSet(Batch(f))
           /\ \A i \in Batch(f) : todo[f][i] \in Subgraphs
<1>1. todo[f] \in Round
  BY DEF TypeOK, Round
<1>2. Batch(f) \subseteq DOMAIN todo[f]
  BY DEF Batch
<1>3. QED
  BY <1>1, <1>2, RoundIs, FS_Subset

\* The payloads of one name in a batch.
Same(f, s) == {i \in Batch(f) : todo[f][i] = s}

LEMMA AddIs ==
    ASSUME TypeOK, NEW f \in Flushers, NEW count \in [Subgraphs -> Nat]
    PROVE  /\ Add(count, f) \in [Subgraphs -> Nat]
           /\ \A s \in Subgraphs : /\ IsFiniteSet(Same(f, s)) /\ Cardinality(Same(f, s)) \in Nat
                                  /\ Add(count, f)[s] = count[s] + Cardinality(Same(f, s))
<1>1. ASSUME NEW s \in Subgraphs
      PROVE  IsFiniteSet(Same(f, s)) /\ Cardinality(Same(f, s)) \in Nat
  BY BatchIs, FS_Subset, FS_CardinalityType DEF Same
<1>2. Add(count, f) = [s \in Subgraphs |-> count[s] + Cardinality(Same(f, s))]
  BY DEF Add, Same
<1>3. QED
  BY <1>1, <1>2

-----------------------------------------------------------------------------
(* Types, hands and versions *)

LEMMA InitInd == Init => IInv
<1> SUFFICES ASSUME Init PROVE IInv
  OBVIOUS
<1> USE WriterAssumption DEF Init
<1>1. TypeOK
  <2>1. todo \in [Flushers -> Round]
    <3>1. <<>> \in [{} -> Subgraphs]
      OBVIOUS
    <3>2. <<>> \in Round
      BY <3>1 DEF Round
    <3>3. QED
      BY <3>2
  <2>2. <<>> \in Seq(Subgraphs) /\ <<>> \in Seq(1..0)
    OBVIOUS
  <2>3. 0 \in 0..0 /\ {} \subseteq 1..0 /\ 0 \in 0..MaxPushes /\ 0 \in 0..MaxRounds
        /\ 0 \in 0..BatchSize /\ 0 \in 0..MaxFaults /\ 0 \in 0..MaxCrashes
        /\ 0 \in 0..MaxExpiries /\ 0 \in Nat
    OBVIOUS
  <2>4. QED
    BY <2>1, <2>2, <2>3 DEF TypeOK, Round
<1>2. Handled
  BY DEF Handled, Outside, Within
<1>3. Numbered
  BY DEF Numbered
<1>4. QED
  BY <1>1, <1>2, <1>3 DEF IInv

\* What appending does to a sequence.
LEMMA Appended ==
    ASSUME NEW S, NEW q \in Seq(S), NEW e \in S
    PROVE  /\ Append(q, e) \in Seq(S) /\ Len(q) \in Nat
           /\ DOMAIN q = 1..Len(q) /\ DOMAIN Append(q, e) = 1..(Len(q) + 1)
           /\ \A i \in DOMAIN q : Append(q, e)[i] = q[i] /\ q[i] \in S
           /\ Append(q, e)[Len(q) + 1] = e
  OBVIOUS

\* A push is one more payload at the end of the buffer.
LEMMA PushInd ==
    ASSUME IInv, NEW s \in Subgraphs, Push(s)
    PROVE  IInv'
<1> USE DEF IInv, Push, graphVars, flushVars, budget
<1>1. /\ pushed' \in [Subgraphs -> 0..MaxPushes] /\ pushed'[s] > 0
      /\ \A r \in Subgraphs : pushed'[r] >= pushed[r]
  BY WriterAssumption DEF TypeOK
<1>2. /\ buffer' \in Seq(Subgraphs) /\ DOMAIN buffer' = 1..(Len(buffer) + 1)
      /\ DOMAIN buffer = 1..Len(buffer) /\ Len(buffer) \in Nat
      /\ \A i \in DOMAIN buffer : buffer'[i] = buffer[i] /\ buffer[i] \in Subgraphs
      /\ buffer'[Len(buffer) + 1] = s
  <2>1. buffer \in Seq(Subgraphs) /\ buffer' = Append(buffer, s)
    BY DEF TypeOK
  <2>2. QED
    BY <2>1, Appended
<1>3. TypeOK'
  BY <1>1, <1>2 DEF TypeOK
<1>4. Handled'
  <2>1. \A i \in DOMAIN buffer' : pushed'[buffer'[i]] > 0
    <3>1. SUFFICES ASSUME NEW i \in DOMAIN buffer' PROVE pushed'[buffer'[i]] > 0
      OBVIOUS
    <3>2. CASE i = Len(buffer) + 1
      BY <1>1, <1>2, <3>2
    <3>3. CASE i # Len(buffer) + 1
      <4>1. i \in DOMAIN buffer
        BY <1>2, <3>3
      <4>2. pushed[buffer[i]] > 0 /\ buffer[i] \in Subgraphs /\ buffer'[i] = buffer[i]
        BY <1>2, <4>1 DEF Handled
      <4>3. pushed[buffer[i]] \in Nat /\ pushed'[buffer[i]] \in Nat
        BY <1>1, <4>2, WriterAssumption DEF TypeOK
      <4>4. QED
        BY <1>1, <4>2, <4>3
    <3>4. QED
      BY <3>2, <3>3
  <2>2. ASSUME NEW f \in Flushers, NEW i \in DOMAIN todo[f]
        PROVE  kind[todo[f][i]] # "garbled" /\ pushed'[todo[f][i]] > 0
    <3>1. todo[f][i] \in Subgraphs
      BY RoundIs DEF TypeOK, Round
    <3>2. pushed[todo[f][i]] \in Nat /\ pushed'[todo[f][i]] \in Nat
      BY <1>1, <3>1, WriterAssumption DEF TypeOK
    <3>3. QED
      BY <1>1, <3>1, <3>2 DEF Handled
  <2>3. QED
    BY <2>1, <2>2 DEF Handled
<1>5. Numbered'
  BY DEF Numbered
<1>6. QED
  BY <1>3, <1>4, <1>5

\* A flush that moves on without touching what was pushed, or the graph.
LEMMA MoveInd ==
    ASSUME IInv, NEW f \in Flushers,
           Acquire(f) \/ Drained(f) \/ EndRound(f), UNCHANGED kind
    PROVE  IInv'
<1> USE DEF IInv, graphVars, budget, At, Goto
<1>1. /\ lock' \in BOOLEAN /\ shared' \subseteq Flushers
      /\ UNCHANGED <<kind, pushed, buffer, dlq, graphVars, last, ver, todo, solo, budget>>
  BY DEF Acquire, Drained, EndRound, AtWork, TypeOK
<1>2. PICK place \in {"take", "release"} : pc' = [pc EXCEPT ![f] = place]
  BY DEF Acquire, Drained, EndRound
<1>3. DOMAIN todo[f] = {} /\ pc[f] \notin {"write", "announce"}
  BY DEF Acquire, Drained, EndRound, Handled, Outside
<1>4. pc \in [Flushers -> Outside \cup Within] /\ rounds \in [Flushers -> 0..MaxRounds]
  BY DEF TypeOK, Outside, Within
<1>5. PICK n \in 0..MaxRounds : rounds' = [rounds EXCEPT ![f] = n]
  <2>1. CASE Acquire(f)
    <3>1. rounds' = [rounds EXCEPT ![f] = 0] /\ 0 \in 0..MaxRounds
      BY <2>1, WriterAssumption DEF Acquire
    <3>2. QED
      BY <3>1
  <2>2. CASE Drained(f)
    <3>1. rounds' = [rounds EXCEPT ![f] = rounds[f]] /\ rounds[f] \in 0..MaxRounds
      BY <1>4, <2>2 DEF Drained
    <3>2. QED
      BY <3>1
  <2>3. CASE EndRound(f)
    <3>1. rounds[f] < MaxRounds /\ rounds[f] \in 0..MaxRounds
      BY <1>4, <2>3 DEF EndRound, Handled, Within
    <3>2. rounds[f] + 1 \in 0..MaxRounds /\ rounds' = [rounds EXCEPT ![f] = rounds[f] + 1]
      BY <2>3, <3>1, WriterAssumption DEF EndRound
    <3>3. QED
      BY <3>2
  <2>4. QED
    BY <2>1, <2>2, <2>3
<1>6. TypeOK'
  <2>1. pc' \in [Flushers -> {"idle", "take", "commit", "write", "announce", "release"}]
        /\ rounds' \in [Flushers -> 0..MaxRounds]
    BY <1>2, <1>4, <1>5 DEF Outside, Within
  <2>2. QED
    BY <1>1, <2>1 DEF TypeOK
<1>7. \A g \in Flushers : (g # f /\ pc'[g] = pc[g]) \/ (g = f /\ pc'[g] \in Outside)
  BY <1>2, <1>4 DEF Outside
<1>8. Handled'
  <2>1. \A g \in Flushers : pc'[g] \in Outside => DOMAIN todo[g] = {}
    BY <1>3, <1>7 DEF Handled
  <2>2. \A g \in Flushers : pc'[g] \in Within => rounds'[g] < MaxRounds
    BY <1>4, <1>5, <1>7 DEF Handled, Outside, Within
  <2>3. QED
    BY <1>1, <2>1, <2>2 DEF Handled
<1>9. Numbered'
  BY <1>1, <1>7 DEF Numbered, Outside
<1>10. QED
  BY <1>6, <1>8, <1>9

\* A round that is popped: a batch of everything that parses.
LEMMA TakeInd ==
    ASSUME IInv, NEW f \in Flushers, TakeRound(f), UNCHANGED kind
    PROVE  IInv'
<1> USE DEF IInv, graphVars, budget, At, Goto
<1>1. PICK n \in 1..BatchSize :
         /\ n <= Len(buffer)
         /\ buffer' = SubSeq(buffer, n + 1, Len(buffer))
         /\ last' = [last EXCEPT ![f] = n]
         /\ todo' = [todo EXCEPT ![f] = [i \in (1..n) \ {i \in 1..n : kind[buffer[i]] = "garbled"}
                                             |-> buffer[i]]]
         /\ dlq' = [s \in Subgraphs |-> dlq[s]
                      + Cardinality({i \in {i \in 1..n : kind[buffer[i]] = "garbled"} : buffer[i] = s})]
  <2> DEFINE n == IF Len(buffer) < BatchSize THEN Len(buffer) ELSE BatchSize
  <2>1. buffer # <<>> /\ buffer \in Seq(Subgraphs)
    BY DEF TakeRound, TypeOK
  <2>2. Len(buffer) \in Nat /\ Len(buffer) > 0
    BY <2>1
  <2>3. n \in 1..BatchSize /\ n <= Len(buffer)
    BY <2>2, WriterAssumption
  <2>4. QED
    BY <2>3 DEF TakeRound
<1>2. /\ pc[f] = "take" /\ pc' = [pc EXCEPT ![f] = "commit"] /\ rounds[f] < MaxRounds
      /\ solo' = [solo EXCEPT ![f] = FALSE]
      /\ UNCHANGED <<kind, pushed, lock, graphVars, rounds, ver, budget, shared>>
  BY DEF TakeRound
<1> DEFINE good == (1..n) \ {i \in 1..n : kind[buffer[i]] = "garbled"}
           round == [i \in good |-> buffer[i]]
<1>3. /\ buffer \in Seq(Subgraphs) /\ DOMAIN buffer = 1..Len(buffer) /\ Len(buffer) \in Nat
      /\ \A i \in 1..n : i \in DOMAIN buffer /\ buffer[i] \in Subgraphs
  <2>1. buffer \in Seq(Subgraphs)
    BY DEF TypeOK
  <2>2. DOMAIN buffer = 1..Len(buffer) /\ Len(buffer) \in Nat
    BY <2>1
  <2>3. \A i \in 1..n : i \in 1..Len(buffer)
    BY <1>1, <2>2
  <2>4. \A i \in 1..Len(buffer) : buffer[i] \in Subgraphs
    BY <2>1
  <2>5. QED
    BY <2>1, <2>2, <2>3, <2>4
<1>4. /\ buffer' \in Seq(Subgraphs) /\ DOMAIN buffer' = 1..(Len(buffer) - n)
      /\ \A i \in DOMAIN buffer' : i + n \in DOMAIN buffer /\ buffer'[i] = buffer[i + n]
  BY <1>1, <1>3
<1>5. round \in Round /\ \A i \in DOMAIN round : kind[round[i]] # "garbled" /\ pushed[round[i]] > 0
  <2>1. good \in SUBSET (1..BatchSize) /\ round \in [good -> Subgraphs]
    <3>1. good \subseteq 1..n
      OBVIOUS
    <3>2. 1..n \subseteq 1..BatchSize
      BY <1>1, WriterAssumption
    <3>3. \A i \in good : buffer[i] \in Subgraphs
      BY <1>3, <3>1
    <3> HIDE DEF good
    <3>4. QED
      BY <3>1, <3>2, <3>3
  <2>2. \A i \in good : kind[buffer[i]] # "garbled" /\ pushed[buffer[i]] > 0
    BY <1>3 DEF Handled
  <2>3. QED
    BY <2>1, <2>2 DEF Round
<1>6. todo' = [todo EXCEPT ![f] = round]
  BY <1>1
<1> HIDE DEF round, good
<1>7. dlq' \in [Subgraphs -> Nat]
  <2>1. ASSUME NEW s \in Subgraphs
        PROVE  Cardinality({i \in {i \in 1..n : kind[buffer[i]] = "garbled"} : buffer[i] = s}) \in Nat
    <3>1. IsFiniteSet(1..n)
      BY FS_Interval, <1>1
    <3>2. QED
      BY <3>1, FS_Subset, FS_CardinalityType
  <2>2. dlq \in [Subgraphs -> Nat]
    BY DEF TypeOK
  <2> DEFINE more(s) == Cardinality({i \in {i \in 1..n : kind[buffer[i]] = "garbled"} : buffer[i] = s})
  <2>3. dlq' = [s \in Subgraphs |-> dlq[s] + more(s)] /\ \A s \in Subgraphs : more(s) \in Nat
    BY <1>1, <2>1
  <2> HIDE DEF more
  <2>4. \A s \in Subgraphs : dlq[s] + more(s) \in Nat
    BY <2>2, <2>3
  <2>5. QED
    BY <2>3, <2>4
<1>8. TypeOK'
  <2>1. last' \in [Flushers -> 0..BatchSize] /\ solo' \in [Flushers -> BOOLEAN]
        /\ pc' \in [Flushers -> {"idle", "take", "commit", "write", "announce", "release"}]
    <3>1. /\ last \in [Flushers -> 0..BatchSize] /\ solo \in [Flushers -> BOOLEAN]
          /\ pc \in [Flushers -> {"idle", "take", "commit", "write", "announce", "release"}]
      BY DEF TypeOK
    <3>2. last' \in [Flushers -> 0..BatchSize]
      <4>1. n \in 0..BatchSize /\ last' = [last EXCEPT ![f] = n]
        BY <1>1, WriterAssumption
      <4>2. QED
        BY <3>1, <4>1
    <3>3. solo' \in [Flushers -> BOOLEAN]
      BY <1>2, <3>1
    <3>4. pc' \in [Flushers -> {"idle", "take", "commit", "write", "announce", "release"}]
      BY <1>2, <3>1
    <3>5. QED
      BY <3>2, <3>3, <3>4
  <2>2. todo' \in [Flushers -> Round]
    BY <1>5, <1>6 DEF TypeOK, Round
  <2>3. QED
    BY <1>2, <1>4, <1>7, <2>1, <2>2 DEF TypeOK, Round
<1>9. Handled'
  <2>1. pc \in [Flushers -> {"idle", "take", "commit", "write", "announce", "release"}]
        /\ todo \in [Flushers -> Round]
    BY DEF TypeOK, Round
  <2>2. \A g \in Flushers : pc'[g] \in Outside => DOMAIN todo'[g] = {}
    BY <1>2, <1>6, <2>1 DEF Handled, Outside
  <2>3. \A g \in Flushers : pc'[g] \in Within => rounds'[g] < MaxRounds
    BY <1>2, <2>1 DEF Handled, Within
  <2>4. \A g \in Flushers : \A i \in DOMAIN todo'[g] :
           kind[todo'[g][i]] # "garbled" /\ pushed[todo'[g][i]] > 0
    BY <1>5, <1>6, <2>1 DEF Handled
  <2>5. \A i \in DOMAIN buffer' : pushed[buffer'[i]] > 0
    BY <1>4 DEF Handled
  <2>6. QED
    BY <1>2, <2>2, <2>3, <2>4, <2>5 DEF Handled
<1>10. Numbered'
  BY <1>2 DEF Numbered, TypeOK
<1>11. QED
  BY <1>8, <1>9, <1>10

\* A flush that puts the next batch out of its hands, or gives the round up.
LEMMA BatchInd ==
    ASSUME IInv, NEW f \in Flushers, pc[f] \in Within, UNCHANGED kind,
           UNCHANGED <<pushed, buffer, lock, version, entityVersion, written, committed,
                       rounds, last, ver>>,
           dlq' \in [Subgraphs -> Nat], skipped' \in [Subgraphs -> Nat],
           deltas' \in Seq(1..version), solo' \in [Flushers -> BOOLEAN],
           faults' \in 0..MaxFaults, UNCHANGED <<crashes, expiries, shared>>,
           todo' = todo \/ todo' = Rest(f),
           pc' = [pc EXCEPT ![f] = "commit"],
           \A g \in Flushers \ {f} : pc[g] \in {"write", "announce"} =>
              ver[g] \notin Range(deltas')
    PROVE  IInv'
<1> USE DEF IInv
<1>1. pc \in [Flushers -> Outside \cup Within]
  BY DEF TypeOK, Outside, Within
<1>2. todo' \in [Flushers -> Round] /\ todo \in [Flushers -> Round]
  BY RestIs DEF TypeOK, Round
<1>3. /\ \A g \in Flushers : \A i \in DOMAIN todo'[g] :
            i \in DOMAIN todo[g] /\ todo'[g][i] = todo[g][i]
      /\ \A g \in Flushers : DOMAIN todo[g] = {} => DOMAIN todo'[g] = {}
  <2>1. CASE todo' = todo
    BY <2>1
  <2>2. CASE todo' = Rest(f)
    <3>1. /\ \A g \in Flushers \ {f} : todo'[g] = todo[g]
          /\ DOMAIN todo'[f] = DOMAIN todo[f] \ Batch(f)
          /\ \A i \in DOMAIN todo[f] \ Batch(f) : todo'[f][i] = todo[f][i]
      BY <2>2, RestIs
    <3>2. ASSUME NEW g \in Flushers
          PROVE  /\ \A i \in DOMAIN todo'[g] : i \in DOMAIN todo[g] /\ todo'[g][i] = todo[g][i]
                 /\ DOMAIN todo[g] = {} => DOMAIN todo'[g] = {}
      <4>1. CASE g = f
        BY <3>1, <4>1
      <4>2. CASE g # f
        BY <3>1, <4>2
      <4>3. QED
        BY <4>1, <4>2
    <3>3. QED
      BY <3>2
  <2>3. QED
    BY <2>1, <2>2
<1>4. TypeOK'
  <2>1. pc' \in [Flushers -> {"idle", "take", "commit", "write", "announce", "release"}]
    BY <1>1 DEF Outside, Within
  <2>2. QED
    BY <1>2, <2>1 DEF TypeOK, Round
<1>5. Handled'
  <2>1. pc[f] \in Within /\ pc'[f] = "commit" /\ \A g \in Flushers \ {f} : pc'[g] = pc[g]
    BY <1>1
  <2>2. \A g \in Flushers : pc'[g] \in Outside => DOMAIN todo'[g] = {}
    BY <1>3, <2>1 DEF Handled, Outside
  <2>3. \A g \in Flushers : pc'[g] \in Within => rounds[g] < MaxRounds
    BY <2>1 DEF Handled
  <2>4. \A g \in Flushers : \A i \in DOMAIN todo'[g] :
           kind[todo'[g][i]] # "garbled" /\ pushed[todo'[g][i]] > 0
    BY <1>3 DEF Handled
  <2>5. QED
    BY <2>2, <2>3, <2>4 DEF Handled
<1>6. Numbered'
  BY <1>1 DEF Numbered
<1>7. QED
  BY <1>4, <1>5, <1>6

\* One fault more is within the bound.
LEMMA FaultIs ==
    ASSUME TypeOK, NEW call, Fault(call)
    PROVE  faults' \in 0..MaxFaults /\ faults' > 0 /\ faults' > faults /\ call \in FaultyCalls
  BY WriterAssumption DEF TypeOK, Fault

LEMMA SetAsideInd ==
    ASSUME IInv, NEW f \in Flushers, SetAside(f), UNCHANGED kind
    PROVE  IInv'
<1>1. /\ UNCHANGED <<pushed, buffer, lock, version, entityVersion, written, committed, pc,
                     rounds, last, ver, deltas, solo, faults, crashes, expiries, shared>>
      /\ todo' = Rest(f) /\ pc[f] = "commit"
      /\ dlq' = dlq \/ dlq' = Add(dlq, f)
      /\ skipped' = skipped \/ skipped' = Add(skipped, f)
  BY DEF SetAside, budget, At
<1>2. dlq' \in [Subgraphs -> Nat] /\ skipped' \in [Subgraphs -> Nat]
  BY <1>1, AddIs DEF IInv, TypeOK
<1>3. pc' = [pc EXCEPT ![f] = "commit"] /\ pc[f] \in Within
  BY <1>1 DEF IInv, TypeOK, Within
<1>4. /\ deltas' \in Seq(1..version) /\ solo' \in [Flushers -> BOOLEAN] /\ faults' \in 0..MaxFaults
      /\ \A g \in Flushers \ {f} : pc[g] \in {"write", "announce"} => ver[g] \notin Range(deltas')
  BY <1>1 DEF IInv, TypeOK, Numbered
<1>5. QED
  BY <1>1, <1>2, <1>3, <1>4, BatchInd

LEMMA WriteFailsInd ==
    ASSUME IInv, NEW f \in Flushers, WriteFails(f), UNCHANGED kind
    PROVE  IInv'
<1>1. /\ UNCHANGED <<pushed, buffer, lock, version, entityVersion, written, committed,
                     rounds, last, ver, deltas, skipped, crashes, expiries, shared>>
      /\ pc[f] \in {"commit", "write"} /\ pc' = [pc EXCEPT ![f] = "commit"]
      /\ todo' = Rest(f) \/ todo' = todo
      /\ dlq' = dlq \/ dlq' = Add(dlq, f)
      /\ solo' = solo \/ solo' = [solo EXCEPT ![f] = TRUE]
      /\ faults' = faults \/ faults' \in 0..MaxFaults
  BY FaultIs DEF WriteFails, Raises, Committable, budget, graphVars, At, Goto, Fault, IInv
<1>2. dlq' \in [Subgraphs -> Nat] /\ skipped' \in [Subgraphs -> Nat]
  <2>1. dlq \in [Subgraphs -> Nat] /\ skipped \in [Subgraphs -> Nat] /\ TypeOK
    BY DEF IInv, TypeOK
  <2>2. Add(dlq, f) \in [Subgraphs -> Nat]
    BY <2>1, AddIs
  <2>3. QED
    BY <1>1, <2>1, <2>2
<1>3. /\ deltas' \in Seq(1..version) /\ solo' \in [Flushers -> BOOLEAN] /\ faults' \in 0..MaxFaults
      /\ pc[f] \in Within
      /\ \A g \in Flushers \ {f} : pc[g] \in {"write", "announce"} => ver[g] \notin Range(deltas')
  BY <1>1 DEF IInv, TypeOK, Numbered, Within
<1>4. QED
  BY <1>1, <1>2, <1>3, BatchInd

\* What is on the stream of deltas.
LEMMA StreamIs ==
    ASSUME TypeOK
    PROVE  /\ version \in Nat /\ Range(deltas) \subseteq 1..version
           /\ deltas \in Seq(1..(version + 1))
           /\ \A v \in 1..version : /\ Append(deltas, v) \in Seq(1..version)
                                    /\ Range(Append(deltas, v)) = Range(deltas) \cup {v}
<1>1. version \in Nat /\ deltas \in Seq(1..version)
  BY DEF TypeOK
<1>2. Range(deltas) \subseteq 1..version
  BY <1>1 DEF Range
<1>3. deltas \in Seq(1..(version + 1))
  <2>1. 1..version \subseteq 1..(version + 1)
    BY <1>1
  <2>2. QED
    BY <1>1, <2>1, SeqMonotonic
<1>4. ASSUME NEW v \in 1..version
      PROVE  /\ Append(deltas, v) \in Seq(1..version)
             /\ Range(Append(deltas, v)) = Range(deltas) \cup {v}
  <2>1. /\ Append(deltas, v) \in Seq(1..version) /\ Len(deltas) \in Nat
        /\ DOMAIN deltas = 1..Len(deltas)
        /\ DOMAIN Append(deltas, v) = 1..(Len(deltas) + 1)
        /\ \A i \in DOMAIN deltas : Append(deltas, v)[i] = deltas[i]
        /\ Append(deltas, v)[Len(deltas) + 1] = v
    BY <1>1, Appended
  <2>2. DOMAIN Append(deltas, v) = DOMAIN deltas \cup {Len(deltas) + 1}
    BY <2>1
  <2>3. QED
    BY <2>1, <2>2 DEF Range
<1>5. QED
  BY <1>1, <1>2, <1>3, <1>4

LEMMA VersionInd ==
    ASSUME IInv, NEW f \in Flushers, NextVersion(f), UNCHANGED kind
    PROVE  IInv'
<1> USE DEF IInv
<1>1. /\ pc[f] = "commit" /\ pc' = [pc EXCEPT ![f] = "write"]
      /\ version' = version + 1 /\ ver' = [ver EXCEPT ![f] = version + 1]
      /\ UNCHANGED <<pushed, buffer, dlq, lock, entityVersion, written, skipped, committed,
                     deltas, rounds, last, todo, solo, faults, crashes, expiries, shared>>
  BY DEF NextVersion, Committable, At, Goto, budget
<1>2. /\ version \in Nat /\ ver \in [Flushers -> 0..version] /\ committed \subseteq 1..version
      /\ pc \in [Flushers -> {"idle", "take", "commit", "write", "announce", "release"}]
      /\ entityVersion \in [Entities -> 0..version]
  BY DEF TypeOK
<1>3. deltas \in Seq(1..(version + 1)) /\ Range(deltas) \subseteq 1..version
  BY StreamIs
<1>4. TypeOK'
  <2>1. /\ version' \in Nat /\ committed \subseteq 1..version'
        /\ 0..version \subseteq 0..version' /\ version + 1 \in 0..version'
    BY <1>1, <1>2
  <2>2. ver' \in [Flushers -> 0..version'] /\ entityVersion \in [Entities -> 0..version']
    BY <1>1, <1>2, <2>1
  <2>3. pc' \in [Flushers -> {"idle", "take", "commit", "write", "announce", "release"}]
    BY <1>1, <1>2
  <2>4. QED
    BY <1>1, <1>3, <2>1, <2>2, <2>3 DEF TypeOK
<1>5. Handled'
  <2>1. pc'[f] = "write" /\ pc[f] \in Within /\ \A g \in Flushers \ {f} : pc'[g] = pc[g]
    BY <1>1, <1>2 DEF Within
  <2>2. \A g \in Flushers : pc'[g] \in Outside => pc[g] \in Outside
    BY <2>1 DEF Outside
  <2>3. \A g \in Flushers : pc'[g] \in Within => pc[g] \in Within
    BY <2>1
  <2>4. QED
    BY <1>1, <2>2, <2>3 DEF Handled
<1>6. Numbered'
  <2>1. /\ version + 1 \notin Range(deltas) /\ version + 1 \notin committed
        /\ \A g \in Flushers : ver[g] # version + 1
        /\ 1..version \subseteq 1..(version + 1) /\ version + 1 \in 1..(version + 1)
    BY <1>2, <1>3
  <2>2. \A g \in Flushers \ {f} : ver'[g] = ver[g] /\ pc'[g] = pc[g]
    BY <1>1, <1>2
  <2>3. ver'[f] = version + 1 /\ pc'[f] = "write"
    BY <1>1, <1>2
  <2>4. QED
    BY <1>1, <2>1, <2>2, <2>3 DEF Numbered
<1>7. QED
  BY <1>4, <1>5, <1>6

LEMMA WriteInd ==
    ASSUME IInv, NEW f \in Flushers, WriteBatch(f), UNCHANGED kind
    PROVE  IInv'
<1> USE DEF IInv
<1>1. /\ pc[f] = "write" /\ pc' = [pc EXCEPT ![f] = "announce"]
      /\ written' = Add(written, f) /\ committed' = committed \cup {ver[f]}
      /\ UNCHANGED <<pushed, buffer, dlq, lock, version, skipped, deltas, rounds, last, ver,
                     todo, solo, faults, crashes, expiries, shared>>
  BY DEF WriteBatch, At, Goto, budget
<1>2. /\ pc \in [Flushers -> {"idle", "take", "commit", "write", "announce", "release"}]
      /\ written \in [Subgraphs -> Nat] /\ ver[f] \in 1..version /\ ver[f] \in 0..version
      /\ entityVersion \in [Entities -> 0..version] /\ TypeOK
  BY <1>1 DEF TypeOK, Numbered
<1>3. TypeOK'
  <2>1. written' \in [Subgraphs -> Nat]
    BY <1>1, <1>2, AddIs
  <2>2. entityVersion' \in [Entities -> 0..version]
    BY <1>2 DEF WriteBatch
  <2>3. pc' \in [Flushers -> {"idle", "take", "commit", "write", "announce", "release"}]
    BY <1>1, <1>2
  <2>4. QED
    BY <1>1, <1>2, <2>1, <2>2, <2>3 DEF TypeOK
<1>4. pc'[f] = "announce" /\ \A g \in Flushers \ {f} : pc'[g] = pc[g]
  BY <1>1, <1>2
<1>5. Handled'
  <2>1. \A g \in Flushers : pc'[g] \in Outside => pc[g] \in Outside
    BY <1>4 DEF Outside
  <2>2. \A g \in Flushers : pc'[g] \in Within => pc[g] \in Within
    BY <1>1, <1>4 DEF Within
  <2>3. QED
    BY <1>1, <2>1, <2>2 DEF Handled
<1>6. Numbered'
  BY <1>1, <1>4 DEF Numbered
<1>7. QED
  BY <1>3, <1>5, <1>6

\* A flush that is over, or gives its round up: what it had in hand is gone.
LEMMA GiveUpInd ==
    ASSUME IInv, NEW f \in Flushers, UNCHANGED kind,
           UNCHANGED <<pushed, buffer, dlq, graphVars, expiries>>, lock' \in BOOLEAN,
           faults' \in 0..MaxFaults, crashes' \in 0..MaxCrashes, shared' \subseteq shared,
           UNCHANGED <<rounds, last, ver, solo>> \/ Forget(f),
           NEW place \in {"idle", "release"}, pc' = [pc EXCEPT ![f] = place],
           todo' = [todo EXCEPT ![f] = <<>>] \/ (todo' = todo /\ DOMAIN todo[f] = {})
    PROVE  IInv'
<1> USE DEF IInv, graphVars
<1>1. /\ pc \in [Flushers -> {"idle", "take", "commit", "write", "announce", "release"}]
      /\ todo \in [Flushers -> Round]
  BY DEF TypeOK, Round
<1>2. <<>> \in Round /\ DOMAIN <<>> = {}
  <2>1. <<>> \in [{} -> Subgraphs]
    OBVIOUS
  <2>2. QED
    BY <2>1 DEF Round
<1>3. /\ pc'[f] = place /\ \A g \in Flushers \ {f} : pc'[g] = pc[g] /\ todo'[g] = todo[g]
      /\ DOMAIN todo'[f] = {}
  BY <1>1, <1>2
<1>4. /\ rounds' \in [Flushers -> 0..MaxRounds] /\ last' \in [Flushers -> 0..BatchSize]
      /\ ver' \in [Flushers -> 0..version] /\ solo' \in [Flushers -> BOOLEAN]
      /\ \A g \in Flushers \ {f} : rounds'[g] = rounds[g] /\ ver'[g] = ver[g]
  <2>1. /\ rounds \in [Flushers -> 0..MaxRounds] /\ last \in [Flushers -> 0..BatchSize]
        /\ ver \in [Flushers -> 0..version] /\ solo \in [Flushers -> BOOLEAN]
    BY DEF TypeOK
  <2>2. 0 \in 0..MaxRounds /\ 0 \in 0..BatchSize /\ 0 \in 0..version
    BY WriterAssumption DEF TypeOK
  <2>3. CASE UNCHANGED <<rounds, last, ver, solo>>
    BY <2>1, <2>3
  <2>4. CASE Forget(f)
    BY <2>1, <2>2, <2>4 DEF Forget
  <2>5. QED
    BY <2>3, <2>4
<1>5. TypeOK'
  <2>1. /\ pc' \in [Flushers -> {"idle", "take", "commit", "write", "announce", "release"}]
        /\ todo' \in [Flushers -> Round]
    BY <1>1, <1>2
  <2>2. QED
    BY <1>4, <2>1 DEF TypeOK, Round
<1>6. Handled'
  <2>1. \A g \in Flushers : pc'[g] \in Outside => DOMAIN todo'[g] = {}
    BY <1>3 DEF Handled, Outside
  <2>2. \A g \in Flushers : pc'[g] \in Within => rounds'[g] < MaxRounds
    BY <1>3, <1>4 DEF Handled, Within
  <2>3. \A g \in Flushers : \A i \in DOMAIN todo'[g] : i \in DOMAIN todo[g] /\ todo'[g][i] = todo[g][i]
    BY <1>3
  <2>4. QED
    BY <2>1, <2>2, <2>3 DEF Handled
<1>7. Numbered'
  <2>1. \A g \in Flushers : pc'[g] \in {"write", "announce"} =>
            g # f /\ pc[g] = pc'[g] /\ ver'[g] = ver[g]
    BY <1>3, <1>4
  <2>2. QED
    BY <2>1 DEF Numbered
<1>8. QED
  BY <1>5, <1>6, <1>7

LEMMA AnnounceInd ==
    ASSUME IInv, NEW f \in Flushers, Announce(f), UNCHANGED kind
    PROVE  IInv'
<1> USE DEF IInv, At, Goto
<1>1. /\ pc[f] = "announce" /\ ver[f] \in 1..version
      /\ UNCHANGED <<pushed, buffer, dlq, lock, version, entityVersion, written, skipped,
                     committed, rounds, last, ver, solo>>
  BY DEF Announce, Numbered
<1>2. CASE /\ deltas' = Append(deltas, ver[f]) /\ todo' = Rest(f)
           /\ pc' = [pc EXCEPT ![f] = "commit"] /\ UNCHANGED budget
  <2>1. /\ deltas' \in Seq(1..version) /\ Range(deltas') = Range(deltas) \cup {ver[f]}
    BY <1>1, <1>2, StreamIs
  <2>2. \A g \in Flushers \ {f} : pc[g] \in {"write", "announce"} => ver[g] \notin Range(deltas')
    BY <1>1, <2>1 DEF Numbered
  <2>3. /\ dlq' \in [Subgraphs -> Nat] /\ skipped' \in [Subgraphs -> Nat]
        /\ solo' \in [Flushers -> BOOLEAN] /\ faults' \in 0..MaxFaults /\ pc[f] \in Within
        /\ UNCHANGED <<crashes, expiries, shared>>
    BY <1>1, <1>2 DEF Announce, TypeOK, Within, budget
  <2>4. QED
    BY <1>1, <1>2, <2>1, <2>2, <2>3, BatchInd
<1>3. CASE /\ Fault("publish") /\ todo' = [todo EXCEPT ![f] = <<>>]
           /\ pc' = [pc EXCEPT ![f] = "release"] /\ UNCHANGED deltas
  <2>1. faults' \in 0..MaxFaults /\ crashes' \in 0..MaxCrashes /\ expiries' = expiries
    BY <1>3, FaultIs DEF TypeOK, Fault
  <2>2. lock' \in BOOLEAN /\ shared' \subseteq shared
    BY <1>1 DEF Announce, TypeOK
  <2>3. QED
    BY <1>1, <1>3, <2>1, <2>2, GiveUpInd DEF graphVars
<1>4. QED
  BY <1>2, <1>3 DEF Announce

LEMMA CrashInd ==
    ASSUME IInv, NEW f \in Flushers, Crash(f)
    PROVE  IInv'
<1>1. crashes' \in 0..MaxCrashes /\ faults' \in 0..MaxFaults
  BY WriterAssumption DEF Crash, IInv, TypeOK
<1>2. lock' \in BOOLEAN /\ shared' \subseteq shared
  BY DEF Crash, IInv, TypeOK
<1>3. QED
  BY <1>1, <1>2, GiveUpInd DEF Crash, Goto

LEMMA ReleaseInd ==
    ASSUME IInv, NEW f \in Flushers, Release(f), UNCHANGED kind
    PROVE  IInv'
<1>1. /\ crashes' \in 0..MaxCrashes /\ faults' \in 0..MaxFaults /\ lock' \in BOOLEAN
      /\ shared' \subseteq shared /\ DOMAIN todo[f] = {} /\ todo' = todo
      /\ UNCHANGED <<pushed, buffer, dlq, graphVars, expiries>>
  BY DEF Release, IInv, TypeOK, Handled, Outside, At, budget
<1>2. QED
  BY <1>1, GiveUpInd DEF Release, Goto

LEMMA ExpiryInd ==
    ASSUME IInv, LockExpires
    PROVE  IInv'
<1>1. expiries' \in 0..MaxExpiries
  BY WriterAssumption DEF LockExpires, IInv, TypeOK
<1>2. /\ lock' \in BOOLEAN
      /\ UNCHANGED <<kind, pushed, buffer, dlq, version, entityVersion, written, skipped,
                     committed, deltas, pc, rounds, last, ver, todo, solo, faults, crashes,
                     shared>>
  BY DEF LockExpires, graphVars, flushVars
<1>3. QED
  BY <1>1, <1>2 DEF IInv, TypeOK, Handled, Numbered

LEMMA StepInd == IInv /\ [Next]_vars => IInv'
<1> SUFFICES ASSUME IInv, [Next]_vars PROVE IInv'
  OBVIOUS
<1>1. CASE \E s \in Subgraphs : Push(s)
  BY <1>1, PushInd
<1>2. ASSUME NEW f \in Flushers, Flush(f) PROVE IInv'
  BY <1>2, MoveInd, TakeInd, SetAsideInd, VersionInd, WriteInd, WriteFailsInd, AnnounceInd,
     ReleaseInd
  DEF Flush
<1>3. CASE \E f \in Flushers : Crash(f)
  BY <1>3, CrashInd
<1>4. CASE LockExpires
  BY <1>4, ExpiryInd
<1>5. CASE UNCHANGED vars
  BY <1>5 DEF vars, IInv, TypeOK, Handled, Numbered
<1>6. QED
  BY <1>1, <1>2, <1>3, <1>4, <1>5 DEF Next

LEMMA Inductive == Spec => []IInv
  BY InitInd, StepInd, PTL DEF Spec

\* Every reachable state of the writer is type-correct.
THEOREM TypeCorrect == Spec => []TypeOK
  BY Inductive, PTL DEF IInv

-----------------------------------------------------------------------------
(* The commits are announced *)

\* Faults and crashes are only counted up, and what was pushed stays pushed.
LEMMA OnlyCountedUp ==
    ASSUME IInv, [Next]_vars
    PROVE  /\ kind' = kind
           /\ crashes \in Nat /\ crashes' \in Nat /\ crashes' >= crashes
           /\ faults \in Nat /\ faults' \in Nat /\ faults' >= faults
           /\ \A s \in Subgraphs :
                 pushed[s] \in Nat /\ pushed'[s] \in Nat /\ pushed'[s] >= pushed[s]
<1>1. IInv'
  BY StepInd
<1>2. /\ crashes \in Nat /\ crashes' \in Nat /\ faults \in Nat /\ faults' \in Nat
      /\ pushed \in [Subgraphs -> Nat] /\ pushed' \in [Subgraphs -> Nat]
  BY <1>1, WriterAssumption DEF IInv, TypeOK
<1>3. UNCHANGED kind
  BY DEF Next, Flush, Push, Crash, LockExpires, vars
<1>4. crashes' = crashes \/ crashes' = crashes + 1
  BY DEF Next, Flush, Push, Acquire, TakeRound, Drained, EndRound, SetAside, NextVersion,
         WriteBatch, WriteFails, Raises, Fault, Announce, Release, Crash, LockExpires, budget, vars
<1>5. faults' = faults \/ faults' = faults + 1
  BY DEF Next, Flush, Push, Acquire, TakeRound, Drained, EndRound, SetAside, NextVersion,
         WriteBatch, WriteFails, Raises, Fault, Announce, Release, Crash, LockExpires, budget, vars
<1>6. pushed' = pushed \/ \E s \in Subgraphs : pushed' = [pushed EXCEPT ![s] = @ + 1]
  BY DEF Next, Flush, Push, Acquire, TakeRound, Drained, EndRound, SetAside, NextVersion,
         WriteBatch, WriteFails, Announce, Release, Crash, LockExpires, vars
<1>7. \A s \in Subgraphs : pushed'[s] >= pushed[s]
  BY <1>2, <1>6
<1>8. QED
  BY <1>2, <1>3, <1>4, <1>5, <1>7

\* A step that has nothing to do with what is committed and announced.
Silent ==
    /\ UNCHANGED <<committed, deltas>>
    /\ \A f \in Flushers : pc'[f] = "announce" <=> pc[f] = "announce"
    /\ \A f \in Flushers : pc[f] = "announce" => ver'[f] = ver[f]

\* Every other step is a commit, an announcement or the end of a flusher.
LEMMA StepsOfTheStream ==
    ASSUME IInv, [Next]_vars
    PROVE  \/ Silent
           \/ \E f \in Flushers : WriteBatch(f) \/ Announce(f) \/ Crash(f)
<1> USE DEF At, Goto, graphVars, flushVars
<1>1. /\ pc \in [Flushers -> {"idle", "take", "commit", "write", "announce", "release"}]
      /\ ver \in [Flushers -> 0..version]
  BY DEF IInv, TypeOK
<1>2. CASE \/ \E s \in Subgraphs : Push(s)
           \/ LockExpires \/ UNCHANGED vars
  BY <1>2 DEF Push, LockExpires, vars, Silent
<1>3. ASSUME NEW f \in Flushers,
             \/ Acquire(f) \/ TakeRound(f) \/ Drained(f) \/ EndRound(f) \/ SetAside(f)
             \/ WriteFails(f) \/ Release(f)
      PROVE  Silent
  <2>1. /\ UNCHANGED <<committed, deltas>> /\ pc[f] # "announce"
        /\ ver' = ver \/ ver' = [ver EXCEPT ![f] = 0]
        /\ \E p \in {"idle", "take", "commit", "release"} : pc' = [pc EXCEPT ![f] = p]
    BY <1>1, <1>3 DEF Acquire, TakeRound, Drained, EndRound, SetAside, WriteFails, Raises, Release,
                      Forget, Committable
  <2>2. QED
    BY <1>1, <2>1 DEF Silent
<1>4. ASSUME NEW f \in Flushers, NextVersion(f) PROVE Silent
  <2>1. /\ UNCHANGED <<committed, deltas>> /\ pc[f] = "commit"
        /\ pc' = [pc EXCEPT ![f] = "write"] /\ ver' = [ver EXCEPT ![f] = version + 1]
    BY <1>4 DEF NextVersion, Committable
  <2>2. QED
    BY <1>1, <2>1 DEF Silent
<1>5. QED
  BY <1>2, <1>3, <1>4 DEF Next, Flush

\* What the end of an announcement is.
LEMMA AnnounceIs ==
    ASSUME IInv, NEW f \in Flushers, Announce(f)
    PROVE  /\ UNCHANGED <<committed, ver, pushed, buffer, dlq, written, skipped>>
           /\ pc[f] = "announce" /\ pc'[f] # "announce" /\ ver[f] \in committed
           /\ \A g \in Flushers \ {f} : pc'[g] = pc[g] /\ (pc[g] = "announce" => ver[g] # ver[f])
           /\ \/ /\ Range(deltas') = Range(deltas) \cup {ver[f]} /\ todo' = Rest(f)
                 /\ UNCHANGED budget
              \/ /\ "publish" \in FaultyCalls /\ faults' > faults /\ faults' > 0
                 /\ deltas' = deltas /\ ver[f] \notin Range(deltas)
<1> USE DEF IInv, At, Goto
<1>1. pc \in [Flushers -> {"idle", "take", "commit", "write", "announce", "release"}]
  BY DEF TypeOK
<1>2. /\ UNCHANGED <<committed, ver, pushed, buffer, dlq, written, skipped>>
      /\ pc[f] = "announce"
      /\ \E p \in {"commit", "release"} : pc' = [pc EXCEPT ![f] = p]
  BY DEF Announce
<1>3. /\ ver[f] \in committed /\ ver[f] \in 1..version /\ ver[f] \notin Range(deltas)
      /\ \A g \in Flushers \ {f} : pc[g] = "announce" => ver[g] # ver[f]
  BY <1>2 DEF Numbered
<1>4. \/ deltas' = Append(deltas, ver[f]) /\ todo' = Rest(f) /\ UNCHANGED budget
      \/ Fault("publish") /\ UNCHANGED deltas
  BY DEF Announce
<1>5. Range(Append(deltas, ver[f])) = Range(deltas) \cup {ver[f]}
  BY <1>3, StreamIs
<1>6. Fault("publish") => "publish" \in FaultyCalls /\ faults' > faults /\ faults' > 0
  BY FaultIs
<1>7. QED
  BY <1>1, <1>2, <1>3, <1>4, <1>5, <1>6

\* While nobody crashes and XADD does not raise every commit is announced.
LEMMA AnnouncedStep ==
    ASSUME IInv, EveryCommitAnnounced, [Next]_vars
    PROVE  EveryCommitAnnounced'
<1> SUFFICES ASSUME crashes' = 0, faults' = 0 \/ "publish" \notin FaultyCalls
             PROVE  Announced'
  BY DEF EveryCommitAnnounced
<1>1. crashes = 0 /\ Announced
  BY OnlyCountedUp DEF EveryCommitAnnounced
<1> USE DEF Announced, At
<1>2. CASE Silent
  BY <1>1, <1>2 DEF Silent
<1>3. ASSUME NEW f \in Flushers, WriteBatch(f) PROVE Announced'
  <2>1. /\ committed' = committed \cup {ver[f]} /\ UNCHANGED <<deltas, ver>> /\ pc[f] = "write"
        /\ pc'[f] = "announce" /\ \A g \in Flushers \ {f} : pc'[g] = pc[g]
    BY <1>3 DEF WriteBatch, Goto, IInv, TypeOK
  <2>2. QED
    BY <1>1, <2>1
<1>4. ASSUME NEW f \in Flushers, Announce(f) PROVE Announced'
  <2>1. /\ UNCHANGED <<committed, ver>> /\ Range(deltas') = Range(deltas) \cup {ver[f]}
        /\ pc'[f] # "announce" /\ \A g \in Flushers \ {f} : pc'[g] = pc[g]
    BY <1>4, AnnounceIs
  <2>2. QED
    BY <1>1, <2>1
<1>5. ASSUME NEW f \in Flushers, Crash(f) PROVE FALSE
  BY <1>1, <1>5 DEF Crash
<1>6. QED
  BY <1>2, <1>3, <1>4, <1>5, StepsOfTheStream

\* What is announced after a step, with no flusher lost, was announced before it.
LEMMA AnnouncedBefore ==
    ASSUME IInv, [Next]_vars, crashes' = 0, Announced'
    PROVE  /\ crashes = 0 /\ Announced
           /\ \A f \in Flushers : ~Crash(f)
           /\ \A f \in Flushers : Announce(f) => todo' = Rest(f)
<1>1. crashes = 0 /\ \A f \in Flushers : ~Crash(f)
  BY OnlyCountedUp DEF Crash
<1> USE DEF Announced, At
<1>2. CASE Silent
  <2>1. Announced
    BY <1>2 DEF Silent
  <2>2. \A f \in Flushers : ~Announce(f)
    BY <1>2, AnnounceIs DEF Silent
  <2>3. QED
    BY <1>1, <2>1, <2>2
<1>3. ASSUME NEW f \in Flushers, WriteBatch(f)
      PROVE  Announced /\ \A g \in Flushers : ~Announce(g)
  <2>1. /\ committed' = committed \cup {ver[f]} /\ UNCHANGED <<deltas, ver>> /\ pc[f] = "write"
        /\ pc'[f] = "announce" /\ \A g \in Flushers \ {f} : pc'[g] = pc[g]
    BY <1>3 DEF WriteBatch, Goto, IInv, TypeOK
  <2>2. ver[f] \notin committed
    BY <2>1 DEF IInv, Numbered
  <2>3. \A v \in committed : v \in Range(deltas) \/ \E g \in Flushers : pc[g] = "announce" /\ v = ver[g]
    BY <2>1, <2>2
  <2>4. \A g \in Flushers : ~Announce(g)
    BY <2>1, AnnounceIs
  <2>5. QED
    BY <2>3, <2>4
<1>4. ASSUME NEW f \in Flushers, Announce(f)
      PROVE  Announced /\ todo' = Rest(f)
  <2>1. /\ UNCHANGED <<committed, ver>> /\ pc[f] = "announce" /\ ver[f] \in committed
        /\ pc'[f] # "announce"
        /\ \A g \in Flushers \ {f} : pc'[g] = pc[g] /\ (pc[g] = "announce" => ver[g] # ver[f])
    BY <1>4, AnnounceIs
  <2>2. ~(deltas' = deltas /\ ver[f] \notin Range(deltas))
    BY <2>1
  <2>3. Range(deltas') = Range(deltas) \cup {ver[f]} /\ todo' = Rest(f)
    BY <1>4, <2>2, AnnounceIs
  <2>4. QED
    BY <2>1, <2>3
<1>5. QED
  <2>1. \A f, g \in Flushers : Announce(f) /\ Announce(g) => f = g
    BY AnnounceIs
  <2>2. QED
    BY <1>1, <1>2, <1>3, <1>4, StepsOfTheStream

-----------------------------------------------------------------------------
(* Only the culprit is parked *)

\* What a round that is popped does with its payloads: those that do not parse are
\* parked, the others are in hand, the rest of the buffer stays.
LEMMA TakeIs ==
    ASSUME IInv, NEW f \in Flushers, TakeRound(f)
    PROVE  \E n \in 1..BatchSize :
             /\ n <= Len(buffer) /\ buffer' = SubSeq(buffer, n + 1, Len(buffer))
             /\ \A i \in 1..n : i \in DOMAIN buffer /\ buffer[i] \in Subgraphs
             /\ DOMAIN todo'[f] = {i \in 1..n : kind[buffer[i]] # "garbled"}
             /\ \A i \in DOMAIN todo'[f] : todo'[f][i] = buffer[i]
             /\ \A g \in Flushers \ {f} : todo'[g] = todo[g]
             /\ \A s \in Subgraphs : dlq'[s] = dlq[s]
                  + Cardinality({i \in 1..n : kind[buffer[i]] = "garbled" /\ buffer[i] = s})
<1> DEFINE n == IF Len(buffer) < BatchSize THEN Len(buffer) ELSE BatchSize
           bad == {i \in 1..n : kind[buffer[i]] = "garbled"}
           round == [i \in (1..n) \ bad |-> buffer[i]]
<1>1. buffer # <<>> /\ buffer \in Seq(Subgraphs)
  BY DEF TakeRound, IInv, TypeOK
<1>2. Len(buffer) \in Nat /\ Len(buffer) > 0 /\ DOMAIN buffer = 1..Len(buffer)
  BY <1>1
<1>3. n \in 1..BatchSize /\ n <= Len(buffer)
  BY <1>2, WriterAssumption
<1>4. \A i \in 1..n : i \in DOMAIN buffer /\ buffer[i] \in Subgraphs
  BY <1>1, <1>2, <1>3
<1>5. /\ buffer' = SubSeq(buffer, n + 1, Len(buffer))
      /\ todo' = [todo EXCEPT ![f] = round]
      /\ dlq' = [s \in Subgraphs |-> dlq[s] + Cardinality({i \in bad : buffer[i] = s})]
  BY DEF TakeRound
<1>6. /\ \A s \in Subgraphs : {i \in bad : buffer[i] = s}
            = {i \in 1..n : kind[buffer[i]] = "garbled" /\ buffer[i] = s}
      /\ DOMAIN round = {i \in 1..n : kind[buffer[i]] # "garbled"}
      /\ \A i \in DOMAIN round : round[i] = buffer[i]
  OBVIOUS
<1> HIDE DEF n, bad, round
<1>7. todo'[f] = round /\ \A g \in Flushers \ {f} : todo'[g] = todo[g]
  <2>1. todo \in [Flushers -> Round]
    BY DEF IInv, TypeOK, Round
  <2>2. QED
    BY <1>5, <2>1
<1>8. \A s \in Subgraphs : dlq'[s] = dlq[s]
         + Cardinality({i \in 1..n : kind[buffer[i]] = "garbled" /\ buffer[i] = s})
  BY <1>5, <1>6
<1>9. QED
  BY <1>3, <1>4, <1>5, <1>6, <1>7, <1>8

\* What is parked more is parked for its own fault, unless a call failed or
\* something unresolved was in hand.
LEMMA ParkedIs ==
    ASSUME IInv, [Next]_vars, NEW s \in Subgraphs, dlq'[s] # dlq[s]
    PROVE  \/ kind[s] \in {"garbled", "refused"} \/ faults' > 0
           \/ \E r \in Subgraphs : kind[r] = "unresolved" /\ pushed[r] > 0
<1> USE DEF IInv
<1>1. ASSUME NEW f \in Flushers, TakeRound(f)
      PROVE  kind[s] = "garbled"
  <2>1. PICK n \in 1..BatchSize :
           dlq'[s] = dlq[s]
             + Cardinality({i \in 1..n : kind[buffer[i]] = "garbled" /\ buffer[i] = s})
    BY <1>1, TakeIs
  <2>2. dlq[s] \in Nat
    BY DEF TypeOK
  <2>3. {i \in 1..n : kind[buffer[i]] = "garbled" /\ buffer[i] = s} # {}
    BY <2>1, <2>2, FS_EmptySet
  <2>4. QED
    BY <2>3
<1>2. ASSUME NEW f \in Flushers, dlq' = Add(dlq, f)
      PROVE  \E i \in Batch(f) : todo[f][i] = s
  <2>1. dlq \in [Subgraphs -> Nat] /\ dlq'[s] = dlq[s] + Cardinality(Same(f, s))
    BY <1>2, AddIs DEF TypeOK
  <2>2. Same(f, s) # {}
    BY <2>1, FS_EmptySet
  <2>3. QED
    BY <2>2 DEF Same
<1>3. ASSUME NEW f \in Flushers, SetAside(f)
      PROVE  \E r \in Subgraphs : kind[r] = "unresolved" /\ pushed[r] > 0
  <2>1. Has(f, "unresolved")
    BY <1>3 DEF SetAside
  <2>2. PICK i \in Batch(f) : kind[todo[f][i]] = "unresolved"
    BY <2>1 DEF Has
  <2>3. QED
    BY <2>2, BatchIs DEF Handled
<1>4. ASSUME NEW f \in Flushers, WriteFails(f)
      PROVE  kind[s] = "refused" \/ faults' > 0
  <2>1. Cardinality(Batch(f)) = 1 /\ dlq' = Add(dlq, f)
    BY <1>4 DEF WriteFails
  <2>2. CASE Has(f, "refused")
    <3>1. PICK i \in Batch(f) : kind[todo[f][i]] = "refused"
      BY <2>2 DEF Has
    <3>2. PICK j \in Batch(f) : todo[f][j] = s
      BY <1>2, <2>1
    <3>3. i = j
      BY <2>1, BatchIs, FS_Singleton
    <3>4. QED
      BY <3>1, <3>2, <3>3
  <2>3. CASE ~Has(f, "refused")
    BY <1>4, <2>3, FaultIs DEF WriteFails, Raises
  <2>4. QED
    BY <2>2, <2>3
<1>5. \E f \in Flushers : TakeRound(f) \/ SetAside(f) \/ WriteFails(f)
  BY DEF Next, Flush, Push, Acquire, Drained, EndRound, NextVersion, WriteBatch, Announce,
         Release, Crash, LockExpires, vars
<1>6. QED
  BY <1>1, <1>3, <1>4, <1>5

LEMMA CulpritsStep ==
    ASSUME IInv, OnlyCulpritsParked, [Next]_vars
    PROVE  OnlyCulpritsParked'
<1> SUFFICES ASSUME faults' = 0, \A r \in Subgraphs : kind'[r] = "unresolved" => pushed'[r] = 0,
                    NEW s \in Subgraphs, dlq'[s] > 0
             PROVE  kind'[s] \in {"garbled", "refused"}
  BY DEF OnlyCulpritsParked, OnlyPoisonParked
<1>1. /\ kind' = kind /\ faults = 0
      /\ \A r \in Subgraphs : kind[r] = "unresolved" => ~(pushed[r] > 0) /\ pushed[r] = 0
  BY OnlyCountedUp
<1>2. CASE dlq'[s] = dlq[s]
  BY <1>1, <1>2 DEF OnlyCulpritsParked, OnlyPoisonParked
<1>3. CASE dlq'[s] # dlq[s]
  <2>1. ~(faults' > 0)
    OBVIOUS
  <2>2. QED
    BY <1>1, <1>3, <2>1, ParkedIs
<1>4. QED
  BY <1>2, <1>3

-----------------------------------------------------------------------------
(* No subgraph is lost or made up *)

\* Counts of sets that have nothing in common.
LEMMA Apart ==
    ASSUME NEW S, NEW T, IsFiniteSet(S), IsFiniteSet(T), S \cap T = {}
    PROVE  /\ IsFiniteSet(S \cup T) /\ Cardinality(S \cup T) = Cardinality(S) + Cardinality(T)
           /\ Cardinality(S) \in Nat /\ Cardinality(T) \in Nat
<1>1. Cardinality(S \cap T) = 0
  BY FS_EmptySet
<1>2. Cardinality(S) \in Nat /\ Cardinality(T) \in Nat
  BY FS_CardinalityType
<1>3. /\ IsFiniteSet(S \cup T)
      /\ Cardinality(S \cup T) = Cardinality(S) + Cardinality(T) - Cardinality(S \cap T)
  BY FS_Union
<1>4. QED
  BY <1>1, <1>2, <1>3

\* What a flusher has in hand of s.
Hand(f, s) == {i \in Uncommitted(f) : todo[f][i] = s}

\* All hands, the hand of f, and the others.
LEMMA HandsAre ==
    ASSUME NEW f \in Flushers, NEW all \in SUBSET (Flushers \X (1..BatchSize)),
           NEW hand \in SUBSET (1..BatchSize),
           \A h \in all : h[1] = f => h[2] \in hand,
           \A i \in hand : <<f, i>> \in all
    PROVE  /\ IsFiniteSet(hand) /\ Cardinality(hand) \in Nat
           /\ Cardinality({h \in all : h[1] # f}) \in Nat
           /\ Cardinality(all) = Cardinality(hand) + Cardinality({h \in all : h[1] # f})
<1> DEFINE others == {h \in all : h[1] # f}
<1>1. IsFiniteSet(1..BatchSize)
  BY FS_Interval, WriterAssumption
<1>2. IsFiniteSet(hand)
  BY <1>1, FS_Subset
<1>3. IsFiniteSet(all) /\ IsFiniteSet(others)
  <2>1. IsFiniteSet(Flushers \X (1..BatchSize))
    BY <1>1, FS_Product, WriterAssumption
  <2>2. QED
    BY <2>1, FS_Subset
<1> DEFINE mine == {f} \X hand
<1>4. IsFiniteSet(mine) /\ Cardinality(mine) = Cardinality(hand)
  <2>1. IsFiniteSet({f}) /\ Cardinality({f}) = 1
    BY FS_Singleton
  <2>2. Cardinality(hand) \in Nat
    BY <1>2, FS_CardinalityType
  <2>3. QED
    <3>1. /\ IsFiniteSet({f} \X hand)
          /\ Cardinality({f} \X hand) = Cardinality({f}) * Cardinality(hand)
      BY <1>2, <2>1, FS_Product
    <3>2. QED
      BY <2>1, <2>2, <3>1
<1>5. all = mine \cup others /\ mine \cap others = {}
  <2>1. ASSUME NEW h \in mine PROVE h \in all /\ h[1] = f
    <3>1. h = <<h[1], h[2]>> /\ h[1] = f /\ h[2] \in hand
      OBVIOUS
    <3>2. QED
      BY <3>1
  <2>2. \A h \in all : h[1] = f => h \in mine
    OBVIOUS
  <2> HIDE DEF mine
  <2>3. QED
    BY <2>1, <2>2
<1> HIDE DEF mine
<1>6. QED
  BY <1>2, <1>3, <1>4, <1>5, Apart

\* What has yet to be committed are places of a round.
LEMMA UncommittedIs ==
    TypeOK => \A f \in Flushers : Uncommitted(f) \subseteq 1..BatchSize
<1> SUFFICES ASSUME TypeOK, NEW f \in Flushers PROVE Uncommitted(f) \subseteq 1..BatchSize
  OBVIOUS
<1>1. todo[f] \in Round
  BY DEF TypeOK, Round
<1>2. Uncommitted(f) \subseteq DOMAIN todo[f]
  BY DEF Uncommitted
<1>3. QED
  BY <1>1, <1>2, RoundIs

\* One flusher's hand changes: so much does the number in hand.
LEMMA HandMoves ==
    ASSUME TypeOK, TypeOK', NEW f \in Flushers, NEW s \in Subgraphs,
           \A g \in Flushers \ {f} : todo'[g] = todo[g] /\ (pc'[g] = "announce" <=> pc[g] = "announce"),
           \A g \in Flushers \ {f} : solo'[g] = solo[g]
    PROVE  /\ Cardinality(InHand(s)) \in Nat /\ Cardinality(InHand(s)') \in Nat
           /\ IsFiniteSet(Hand(f, s)) /\ IsFiniteSet(Hand(f, s)')
           /\ Cardinality(Hand(f, s)) \in Nat /\ Cardinality(Hand(f, s)') \in Nat
           /\ Cardinality(InHand(s)') + Cardinality(Hand(f, s))
                = Cardinality(InHand(s)) + Cardinality(Hand(f, s)')
<1>1. \A g \in Flushers \ {f} : Uncommitted(g)' = Uncommitted(g)
  BY DEF Uncommitted, Batch, At
<1>2. PICK U \in [Flushers -> SUBSET (1..BatchSize)] : \A g \in Flushers : U[g] = Uncommitted(g)
  <2>1. [g \in Flushers |-> Uncommitted(g)] \in [Flushers -> SUBSET (1..BatchSize)]
    BY UncommittedIs
  <2>2. QED
    BY <2>1
<1>3. PICK V \in [Flushers -> SUBSET (1..BatchSize)] : \A g \in Flushers : V[g] = Uncommitted(g)'
  <2>1. \A g \in Flushers : todo'[g] \in Round
    BY DEF TypeOK, Round
  <2>2. \A g \in Flushers : Uncommitted(g)' \subseteq DOMAIN todo'[g]
    BY DEF Uncommitted
  <2>3. \A g \in Flushers : Uncommitted(g)' \in SUBSET (1..BatchSize)
    BY <2>1, <2>2, RoundIs
  <2> DEFINE V == [g \in Flushers |-> Uncommitted(g)']
  <2>4. V \in [Flushers -> SUBSET (1..BatchSize)]
    BY <2>3
  <2>5. \A g \in Flushers : V[g] = Uncommitted(g)'
    OBVIOUS
  <2> HIDE DEF V
  <2>6. QED
    BY <2>4, <2>5
<1>4. /\ InHand(s) = {h \in Flushers \X (1..BatchSize) : h[2] \in U[h[1]] /\ todo[h[1]][h[2]] = s}
      /\ Hand(f, s) = {i \in U[f] : todo[f][i] = s}
  BY <1>2 DEF InHand, Hand
<1>5. /\ InHand(s)' = {h \in Flushers \X (1..BatchSize) : h[2] \in V[h[1]] /\ todo'[h[1]][h[2]] = s}
      /\ Hand(f, s)' = {i \in V[f] : todo'[f][i] = s}
  BY <1>3 DEF InHand, Hand
<1>6. {h \in InHand(s)' : h[1] # f} = {h \in InHand(s) : h[1] # f}
  BY <1>1, <1>2, <1>3, <1>4, <1>5
<1>7. PICK others : others = {h \in InHand(s) : h[1] # f}
  OBVIOUS
<1>8. /\ IsFiniteSet(Hand(f, s)) /\ Cardinality(Hand(f, s)) \in Nat /\ Cardinality(others) \in Nat
      /\ Cardinality(InHand(s)) = Cardinality(Hand(f, s)) + Cardinality(others)
  <2>1. PICK all, hand : all = InHand(s) /\ hand = Hand(f, s)
    OBVIOUS
  <2>2. /\ all \in SUBSET (Flushers \X (1..BatchSize)) /\ hand \in SUBSET (1..BatchSize)
        /\ \A h \in all : h[1] = f => h[2] \in hand
        /\ \A i \in hand : <<f, i>> \in all
    BY <2>1, <1>2, <1>4
  <2>3. QED
    BY <2>1, <2>2, <1>7, HandsAre
<1>9. others = {h \in InHand(s)' : h[1] # f}
  BY <1>6, <1>7
<1>10. /\ IsFiniteSet(Hand(f, s)') /\ Cardinality(Hand(f, s)') \in Nat
       /\ Cardinality(InHand(s)') = Cardinality(Hand(f, s)') + Cardinality(others)
  <2>1. PICK all, hand : all = InHand(s)' /\ hand = Hand(f, s)'
    OBVIOUS
  <2>2. /\ all \in SUBSET (Flushers \X (1..BatchSize)) /\ hand \in SUBSET (1..BatchSize)
        /\ \A h \in all : h[1] = f => h[2] \in hand
        /\ \A i \in hand : <<f, i>> \in all
    BY <2>1, <1>3, <1>5
  <2>3. QED
    BY <2>1, <2>2, <1>9, HandsAre
<1>11. QED
  BY <1>8, <1>10

\* No hand changes.
LEMMA HandsStay ==
    ASSUME NEW s, \A g \in Flushers : /\ todo'[g] = todo[g]
                                      /\ pc'[g] = "announce" <=> pc[g] = "announce"
                                      /\ pc[g] = "announce" => solo'[g] = solo[g]
    PROVE  InHand(s)' = InHand(s)
<1>1. \A g \in Flushers : Uncommitted(g)' = Uncommitted(g)
  BY DEF Uncommitted, Batch, At
<1>2. QED
  BY <1>1 DEF InHand

\* The payloads of a batch: in the hand before, out of it after.
LEMMA BatchLeaves ==
    ASSUME TypeOK, NEW f \in Flushers, NEW s \in Subgraphs, pc[f] # "announce",
           todo' = Rest(f), pc'[f] # "announce",
           IsFiniteSet(Hand(f, s)), IsFiniteSet(Hand(f, s)')
    PROVE  Cardinality(Hand(f, s)) = Cardinality(Hand(f, s)') + Cardinality(Same(f, s))
<1>1. /\ DOMAIN todo'[f] = DOMAIN todo[f] \ Batch(f) /\ Batch(f) \subseteq DOMAIN todo[f]
      /\ \A i \in DOMAIN todo[f] \ Batch(f) : todo'[f][i] = todo[f][i]
  BY RestIs, BatchIs
<1>2. Hand(f, s) = {i \in DOMAIN todo[f] : todo[f][i] = s}
  BY DEF Hand, Uncommitted, At
<1>3. Hand(f, s)' = {i \in DOMAIN todo'[f] : todo'[f][i] = s}
  BY DEF Hand, Uncommitted, At
<1>4. Hand(f, s) = Hand(f, s)' \cup Same(f, s) /\ Hand(f, s)' \cap Same(f, s) = {}
  BY <1>1, <1>2, <1>3 DEF Same
<1>5. IsFiniteSet(Same(f, s))
  BY <1>4, FS_Subset
<1>6. QED
  BY <1>4, <1>5, Apart

\* One thing more at the end of a sequence.
LEMMA OccursAppend ==
    ASSUME NEW S, NEW q \in Seq(S), NEW e \in S, NEW s
    PROVE  /\ Occurs(s, q) \in Nat
           /\ Occurs(s, Append(q, e)) = Occurs(s, q) + IF e = s THEN 1 ELSE 0
<1> DEFINE A == {i \in DOMAIN q : q[i] = s}
           B == {i \in DOMAIN Append(q, e) : Append(q, e)[i] = s}
<1>1. /\ Len(q) \in Nat /\ DOMAIN q = 1..Len(q) /\ DOMAIN Append(q, e) = 1..(Len(q) + 1)
      /\ \A i \in DOMAIN q : Append(q, e)[i] = q[i]
      /\ Append(q, e)[Len(q) + 1] = e
  BY Appended
<1>2. IsFiniteSet(A)
  <2>1. IsFiniteSet(1..Len(q)) /\ A \subseteq 1..Len(q)
    BY <1>1, FS_Interval
  <2> HIDE DEF A
  <2>2. QED
    BY <2>1, FS_Subset
<1>3. B = IF e = s THEN A \cup {Len(q) + 1} ELSE A
  <2>1. DOMAIN Append(q, e) = DOMAIN q \cup {Len(q) + 1} /\ Len(q) + 1 \notin DOMAIN q
    BY <1>1
  <2>2. QED
    BY <1>1, <2>1
<1>4. Len(q) + 1 \notin A
  BY <1>1
<1> HIDE DEF A, B
<1>5. Cardinality(A) \in Nat /\ Cardinality(B) = Cardinality(A) + IF e = s THEN 1 ELSE 0
  <2>1. Cardinality(A) \in Nat
    BY <1>2, FS_CardinalityType
  <2>2. Cardinality(A \cup {Len(q) + 1}) = Cardinality(A) + 1
    BY <1>2, <1>4, FS_AddElement
  <2>3. QED
    BY <1>3, <2>1, <2>2
<1>6. QED
  BY <1>5 DEF Occurs, A, B

\* The first n of a sequence, and the rest.
LEMMA OccursSplit ==
    ASSUME NEW S, NEW q \in Seq(S), NEW n \in Nat, n <= Len(q), NEW s,
           NEW first \in SUBSET (1..n), \A i \in 1..n : i \in first <=> q[i] = s
    PROVE  /\ Occurs(s, SubSeq(q, n + 1, Len(q))) \in Nat
           /\ IsFiniteSet(first) /\ Cardinality(first) \in Nat
           /\ Occurs(s, q) = Cardinality(first) + Occurs(s, SubSeq(q, n + 1, Len(q)))
<1> DEFINE r == SubSeq(q, n + 1, Len(q))
           later == {i \in (n + 1)..Len(q) : q[i] = s}
           moved == {j \in DOMAIN r : r[j] = s}
           shift == [j \in moved |-> j + n]
<1>1. /\ Len(q) \in Nat /\ DOMAIN q = 1..Len(q) /\ DOMAIN r = 1..(Len(q) - n)
      /\ \A j \in DOMAIN r : r[j] = q[j + n]
  OBVIOUS
<1>2. IsFiniteSet(first) /\ IsFiniteSet(later) /\ IsFiniteSet(moved)
  <2>1. /\ n \in Int /\ n + 1 \in Int /\ Len(q) \in Int /\ Len(q) - n \in Int
    BY <1>1
  <2>2. IsFiniteSet(1..n) /\ IsFiniteSet((n + 1)..Len(q)) /\ IsFiniteSet(1..(Len(q) - n))
    BY <2>1, FS_Interval
  <2>3. first \subseteq 1..n /\ later \subseteq (n + 1)..Len(q) /\ moved \subseteq 1..(Len(q) - n)
    BY <1>1
  <2> HIDE DEF later, moved, r
  <2>4. QED
    BY <2>2, <2>3, FS_Subset
<1>3. {i \in DOMAIN q : q[i] = s} = first \cup later /\ first \cap later = {}
  <2>1. /\ DOMAIN q = (1..n) \cup ((n + 1)..Len(q)) /\ (1..n) \cap ((n + 1)..Len(q)) = {}
    BY <1>1
  <2>2. QED
    BY <2>1
<1>4. ExistsBijection(moved, later)
  <2>1. \A j \in moved : j \in Int /\ j + n \in later
    BY <1>1
  <2>2. shift \in [moved -> later] /\ \A j, k \in moved : shift[j] = shift[k] => j = k
    BY <2>1
  <2>3. ASSUME NEW i \in later PROVE i - n \in moved /\ shift[i - n] = i
    <3>1. i - n \in DOMAIN r /\ r[i - n] = q[i] /\ q[i] = s /\ (i - n) + n = i
      BY <1>1
    <3>2. i - n \in moved
      BY <3>1
    <3>3. QED
      BY <3>1, <3>2
  <2> HIDE DEF shift, moved, later
  <2>4. shift \in Bijection(moved, later)
    BY <2>2, <2>3, Fun_IsBij
  <2>5. QED
    BY <2>4 DEF ExistsBijection
<1>5. Cardinality(moved) = Cardinality(later)
  <2> HIDE DEF moved, later
  <2>1. QED
    BY <1>2, <1>4, FS_Bijection
<1>6. Cardinality(first \cup later) = Cardinality(first) + Cardinality(later)
      /\ Cardinality(first) \in Nat /\ Cardinality(later) \in Nat
  BY <1>2, <1>3, Apart
<1>7. Occurs(s, q) = Cardinality(first \cup later) /\ Occurs(s, r) = Cardinality(moved)
  BY <1>3 DEF Occurs
<1> HIDE DEF r, later, moved, shift
<1>8. Occurs(s, r) \in Nat /\ Occurs(s, q) = Cardinality(first) + Occurs(s, r)
  BY <1>5, <1>6, <1>7
<1>9. QED
  BY <1>2, <1>6, <1>8 DEF r

\* The account of one payload: where its pushes are.
Balanced(s) ==
    pushed[s] = Occurs(s, buffer) + Cardinality(InHand(s)) + written[s] + dlq[s] + skipped[s]

LEMMA AccountIs ==
    ASSUME TypeOK, NEW s \in Subgraphs
    PROVE  /\ pushed[s] \in Nat /\ written[s] \in Nat /\ dlq[s] \in Nat /\ skipped[s] \in Nat
           /\ Occurs(s, buffer) \in Nat
<1>1. buffer \in Seq(Subgraphs)
  BY DEF TypeOK
<1>2. Occurs(s, buffer) \in Nat
  BY <1>1, OccursAppend
<1>3. QED
  BY <1>2, WriterAssumption DEF TypeOK

LEMMA PushBalanced ==
    ASSUME TypeOK, TypeOK', NEW p \in Subgraphs, Push(p), NEW s \in Subgraphs, Balanced(s)
    PROVE  Balanced(s)'
<1>1. /\ pushed' = [pushed EXCEPT ![p] = @ + 1] /\ buffer' = Append(buffer, p)
      /\ UNCHANGED <<dlq, written, skipped, pc, todo, solo>>
  BY DEF Push, graphVars, flushVars
<1>2. InHand(s)' = InHand(s)
  BY <1>1, HandsStay
<1>3. Occurs(s, buffer') = Occurs(s, buffer) + IF p = s THEN 1 ELSE 0
  <2>1. buffer \in Seq(Subgraphs)
    BY DEF TypeOK
  <2>2. QED
    BY <1>1, <2>1, OccursAppend
<1>4. pushed'[s] = pushed[s] + IF p = s THEN 1 ELSE 0
  <2>1. pushed \in [Subgraphs -> 0..MaxPushes] /\ pushed[s] \in Nat
    BY AccountIs DEF TypeOK
  <2>2. QED
    BY <1>1, <2>1
<1>5. Cardinality(InHand(s)) \in Nat
  <2>1. InHand(s) \subseteq Flushers \X (1..BatchSize)
    BY DEF InHand
  <2>2. IsFiniteSet(1..BatchSize)
    BY FS_Interval, WriterAssumption
  <2>3. IsFiniteSet(Flushers \X (1..BatchSize))
    BY <2>2, FS_Product, WriterAssumption
  <2>4. QED
    BY <2>1, <2>3, FS_Subset, FS_CardinalityType
<1>6. pushed'[s] = Occurs(s, buffer') + Cardinality(InHand(s)') + written'[s] + dlq'[s] + skipped'[s]
  <2>1. /\ pushed[s] \in Nat /\ written[s] \in Nat /\ dlq[s] \in Nat /\ skipped[s] \in Nat
        /\ Occurs(s, buffer) \in Nat
    BY AccountIs
  <2>2. pushed[s] = Occurs(s, buffer) + Cardinality(InHand(s)) + written[s] + dlq[s] + skipped[s]
    BY DEF Balanced
  <2>3. written'[s] = written[s] /\ dlq'[s] = dlq[s] /\ skipped'[s] = skipped[s]
        /\ Cardinality(InHand(s)') = Cardinality(InHand(s))
    BY <1>1, <1>2
  <2>4. QED
    BY <1>3, <1>4, <1>5, <2>1, <2>2, <2>3
<1>7. QED
  BY <1>6 DEF Balanced

\* A round that is popped: from the buffer to the flusher's hand, or to the DLQ.
LEMMA TakeBalanced ==
    ASSUME IInv, IInv', NEW f \in Flushers, TakeRound(f), NEW s \in Subgraphs, Balanced(s)
    PROVE  Balanced(s)'
<1>1. PICK n \in 1..BatchSize :
         /\ n <= Len(buffer) /\ buffer' = SubSeq(buffer, n + 1, Len(buffer))
         /\ \A i \in 1..n : i \in DOMAIN buffer /\ buffer[i] \in Subgraphs
         /\ DOMAIN todo'[f] = {i \in 1..n : kind[buffer[i]] # "garbled"}
         /\ \A i \in DOMAIN todo'[f] : todo'[f][i] = buffer[i]
         /\ \A g \in Flushers \ {f} : todo'[g] = todo[g]
         /\ \A r \in Subgraphs : dlq'[r] = dlq[r]
              + Cardinality({i \in 1..n : kind[buffer[i]] = "garbled" /\ buffer[i] = r})
  BY TakeIs
<1>2. /\ pc[f] = "take" /\ pc' = [pc EXCEPT ![f] = "commit"] /\ solo' = [solo EXCEPT ![f] = FALSE]
      /\ UNCHANGED <<pushed, written, skipped>>
  BY DEF TakeRound, At, Goto, graphVars
<1>3. /\ DOMAIN todo[f] = {} /\ pc'[f] = "commit"
      /\ \A g \in Flushers \ {f} : pc'[g] = pc[g] /\ solo'[g] = solo[g]
  BY <1>2 DEF IInv, Handled, Outside, TypeOK
<1> DEFINE first == {i \in 1..n : buffer[i] = s}
           bad == {i \in 1..n : kind[buffer[i]] = "garbled" /\ buffer[i] = s}
<1>4. Hand(f, s) = {} /\ Hand(f, s)' = {i \in first : kind[buffer[i]] # "garbled"}
  <2>1. Uncommitted(f) = DOMAIN todo[f] /\ Uncommitted(f)' = DOMAIN todo'[f]
    BY <1>2, <1>3 DEF Uncommitted, At
  <2>2. QED
    BY <1>1, <1>3, <2>1 DEF Hand
<1>5. /\ IsFiniteSet(first) /\ Cardinality(first) \in Nat /\ Occurs(s, buffer') \in Nat
      /\ Occurs(s, buffer) = Cardinality(first) + Occurs(s, buffer')
  <2>1. buffer \in Seq(Subgraphs) /\ n \in Nat /\ n <= Len(buffer)
    BY <1>1 DEF IInv, TypeOK
  <2>2. /\ IsFiniteSet(first) /\ Cardinality(first) \in Nat
        /\ Occurs(s, SubSeq(buffer, n + 1, Len(buffer))) \in Nat
        /\ Occurs(s, buffer) = Cardinality(first) + Occurs(s, SubSeq(buffer, n + 1, Len(buffer)))
    <3>1. first \in SUBSET (1..n) /\ \A i \in 1..n : i \in first <=> buffer[i] = s
      OBVIOUS
    <3> HIDE DEF first
    <3>2. QED
      BY <2>1, <3>1, OccursSplit
  <2>3. QED
    BY <1>1, <2>2
<1>6. first = Hand(f, s)' \cup bad /\ Hand(f, s)' \cap bad = {}
  BY <1>4
<1> HIDE DEF first, bad
<1>7. /\ Cardinality(first) = Cardinality(Hand(f, s)') + Cardinality(bad)
      /\ Cardinality(Hand(f, s)') \in Nat /\ Cardinality(bad) \in Nat
  BY <1>5, <1>6, FS_Subset, Apart
<1>8. /\ Cardinality(InHand(s)) \in Nat /\ Cardinality(InHand(s)') \in Nat
      /\ Cardinality(InHand(s)') + Cardinality(Hand(f, s))
            = Cardinality(InHand(s)) + Cardinality(Hand(f, s)')
  BY <1>1, <1>3, HandMoves DEF IInv
<1>9. Cardinality(Hand(f, s)) = 0
  BY <1>4, FS_EmptySet
<1>10. dlq'[s] = dlq[s] + Cardinality(bad)
  BY <1>1 DEF bad
<1>11. QED
  BY <1>2, <1>5, <1>7, <1>8, <1>9, <1>10, AccountIs DEF Balanced, IInv

\* A batch that leaves the flusher's hand is counted where it goes.
LEMMA BatchBalanced ==
    ASSUME IInv, IInv', NEW f \in Flushers, pc[f] \in {"commit", "write"},
           UNCHANGED <<pushed, buffer>>,
           \A g \in Flushers \ {f} : pc'[g] = pc[g] /\ solo'[g] = solo[g] /\ todo'[g] = todo[g],
           \/ /\ pc'[f] # "announce" /\ todo' = Rest(f)
              /\ \/ dlq' = Add(dlq, f) /\ UNCHANGED <<skipped, written>>
                 \/ skipped' = Add(skipped, f) /\ UNCHANGED <<dlq, written>>
           \/ /\ pc'[f] = "announce" /\ todo' = todo /\ solo' = solo
              /\ written' = Add(written, f) /\ UNCHANGED <<dlq, skipped>>,
           NEW s \in Subgraphs, Balanced(s)
    PROVE  Balanced(s)'
<1>1. /\ IsFiniteSet(Hand(f, s)) /\ IsFiniteSet(Hand(f, s)')
      /\ Cardinality(InHand(s)) \in Nat /\ Cardinality(InHand(s)') \in Nat
      /\ Cardinality(Hand(f, s)) \in Nat /\ Cardinality(Hand(f, s)') \in Nat
      /\ Cardinality(InHand(s)') + Cardinality(Hand(f, s))
            = Cardinality(InHand(s)) + Cardinality(Hand(f, s)')
  BY HandMoves DEF IInv
<1>2. Cardinality(Hand(f, s)) = Cardinality(Hand(f, s)') + Cardinality(Same(f, s))
  <2>1. CASE pc'[f] # "announce"
    BY <1>1, <2>1, BatchLeaves DEF IInv
  <2>2. CASE pc'[f] = "announce"
    <3>1. todo' = todo /\ solo' = solo
      BY <2>2
    <3>2. Uncommitted(f) = DOMAIN todo[f] /\ Uncommitted(f)' = DOMAIN todo[f] \ Batch(f)
      BY <2>2, <3>1 DEF Uncommitted, Batch, At
    <3>3. Hand(f, s) = Hand(f, s)' \cup Same(f, s) /\ Hand(f, s)' \cap Same(f, s) = {}
      BY <3>1, <3>2, BatchIs DEF Hand, Same, IInv
    <3>4. IsFiniteSet(Same(f, s))
      BY <1>1, <3>3, FS_Subset
    <3>5. QED
      BY <1>1, <3>3, <3>4, Apart
  <2>3. QED
    BY <2>1, <2>2
<1>3. /\ dlq \in [Subgraphs -> Nat] /\ skipped \in [Subgraphs -> Nat]
      /\ written \in [Subgraphs -> Nat] /\ TypeOK
  BY DEF IInv, TypeOK
<1>4. Cardinality(Same(f, s)) \in Nat
  BY <1>3, AddIs
<1>5. written'[s] + dlq'[s] + skipped'[s]
        = written[s] + dlq[s] + skipped[s] + Cardinality(Same(f, s))
  <2>1. /\ Add(dlq, f)[s] = dlq[s] + Cardinality(Same(f, s))
        /\ Add(skipped, f)[s] = skipped[s] + Cardinality(Same(f, s))
        /\ Add(written, f)[s] = written[s] + Cardinality(Same(f, s))
    BY <1>3, AddIs
  <2>2. QED
    BY <1>4, <2>1, AccountIs DEF IInv
<1>6. /\ pushed[s] \in Nat /\ written[s] \in Nat /\ dlq[s] \in Nat /\ skipped[s] \in Nat
      /\ Occurs(s, buffer) \in Nat
  BY <1>3, AccountIs
<1>7. written'[s] \in Nat /\ dlq'[s] \in Nat /\ skipped'[s] \in Nat
  BY DEF IInv, TypeOK
<1>8. QED
  BY <1>1, <1>2, <1>4, <1>5, <1>6, <1>7 DEF Balanced

\* A step that leaves every place of a payload as it is.
LEMMA StillBalanced ==
    ASSUME UNCHANGED <<pushed, buffer, dlq, written, skipped>>,
           NEW s, Balanced(s), InHand(s)' = InHand(s)
    PROVE  Balanced(s)'
<1>1. Cardinality(InHand(s)') = Cardinality(InHand(s)) /\ Occurs(s, buffer') = Occurs(s, buffer)
  OBVIOUS
<1>2. pushed'[s] = Occurs(s, buffer') + Cardinality(InHand(s)') + written'[s] + dlq'[s] + skipped'[s]
  <2>1. pushed[s] = Occurs(s, buffer) + Cardinality(InHand(s)) + written[s] + dlq[s] + skipped[s]
    BY DEF Balanced
  <2>2. QED
    BY <1>1, <2>1
<1>3. QED
  BY <1>2 DEF Balanced

\* A flush goes on, and its round stays where it is.
LEMMA MoveBalanced ==
    ASSUME IInv, NEW f \in Flushers, NEW s, Balanced(s),
           Acquire(f) \/ Drained(f) \/ EndRound(f) \/ NextVersion(f) \/ Release(f)
    PROVE  Balanced(s)'
<1>1. /\ UNCHANGED <<pushed, buffer, dlq, written, skipped, todo>>
      /\ pc[f] # "announce" /\ (solo' = solo \/ solo' = [solo EXCEPT ![f] = FALSE])
      /\ \E p \in {"take", "commit", "write", "release", "idle"} : pc' = [pc EXCEPT ![f] = p]
  BY DEF Acquire, Drained, EndRound, NextVersion, Release, Forget, Committable, At, Goto,
         graphVars
<1>2. \A g \in Flushers : pc'[g] = "announce" <=> pc[g] = "announce"
  BY <1>1 DEF IInv, TypeOK
<1>3. InHand(s)' = InHand(s)
  <2>1. \A g \in Flushers : pc[g] = "announce" => solo'[g] = solo[g]
    BY <1>1 DEF IInv, TypeOK
  <2>2. QED
    BY <1>1, <1>2, <2>1, HandsStay
<1>4. QED
  BY <1>1, <1>3, StillBalanced

\* Every step of a flush that announces what it committed.
LEMMA FlushBalanced ==
    ASSUME IInv, IInv', NEW f \in Flushers, Flush(f), Announce(f) => todo' = Rest(f),
           NEW s \in Subgraphs, Balanced(s)
    PROVE  Balanced(s)'
<1>1. /\ pc \in [Flushers -> {"idle", "take", "commit", "write", "announce", "release"}]
      /\ solo \in [Flushers -> BOOLEAN] /\ todo \in [Flushers -> Round] /\ TypeOK
  BY DEF IInv, TypeOK, Round
<1>2. CASE SetAside(f)
  <2>1. /\ pc[f] = "commit" /\ todo' = Rest(f)
        /\ UNCHANGED <<pushed, buffer, pc, solo, written>>
        /\ \/ dlq' = Add(dlq, f) /\ UNCHANGED skipped
           \/ skipped' = Add(skipped, f) /\ UNCHANGED dlq
    BY <1>2 DEF SetAside, At
  <2>2. \A g \in Flushers \ {f} : pc'[g] = pc[g] /\ solo'[g] = solo[g] /\ todo'[g] = todo[g]
    BY <1>1, <2>1, RestIs
  <2>3. QED
    BY <2>1, <2>2, BatchBalanced
<1>3. CASE WriteFails(f)
  <2>1. /\ pc[f] \in {"commit", "write"} /\ pc' = [pc EXCEPT ![f] = "commit"]
        /\ UNCHANGED <<pushed, buffer, written, skipped>>
    BY <1>3 DEF WriteFails, Raises, Committable, At, Goto, graphVars
  <2>2. pc'[f] = "commit" /\ \A g \in Flushers \ {f} : pc'[g] = pc[g]
    BY <1>1, <2>1
  <2>3. CASE Cardinality(Batch(f)) = 1
    <3>1. dlq' = Add(dlq, f) /\ todo' = Rest(f) /\ UNCHANGED solo
      BY <1>3, <2>3 DEF WriteFails
    <3>2. \A g \in Flushers \ {f} : solo'[g] = solo[g] /\ todo'[g] = todo[g]
      BY <1>1, <3>1, RestIs
    <3>3. QED
      BY <2>1, <2>2, <3>1, <3>2, BatchBalanced
  <2>4. CASE Cardinality(Batch(f)) # 1
    <3>1. UNCHANGED <<dlq, todo>> /\ solo' = [solo EXCEPT ![f] = TRUE]
      BY <1>3, <2>4 DEF WriteFails
    <3>2. \A g \in Flushers : Uncommitted(g)' = Uncommitted(g)
      <4>1. Uncommitted(f) = DOMAIN todo[f] /\ Uncommitted(f)' = DOMAIN todo[f]
        BY <2>1, <2>2, <3>1 DEF Uncommitted, At
      <4>2. \A g \in Flushers \ {f} : solo'[g] = solo[g] /\ todo'[g] = todo[g]
        BY <1>1, <3>1
      <4>3. \A g \in Flushers \ {f} : Uncommitted(g)' = Uncommitted(g)
        BY <2>2, <4>2 DEF Uncommitted, Batch, At
      <4>4. QED
        BY <4>1, <4>3
    <3>3. InHand(s)' = InHand(s)
      BY <3>1, <3>2 DEF InHand
    <3>4. QED
      BY <2>1, <3>1, <3>3, StillBalanced
  <2>5. QED
    BY <2>3, <2>4
<1>4. CASE WriteBatch(f)
  <2>1. /\ pc[f] = "write" /\ pc' = [pc EXCEPT ![f] = "announce"] /\ written' = Add(written, f)
        /\ UNCHANGED <<pushed, buffer, dlq, skipped, todo, solo>>
    BY <1>4 DEF WriteBatch, At, Goto
  <2>2. pc'[f] = "announce" /\ \A g \in Flushers \ {f} : pc'[g] = pc[g]
    BY <1>1, <2>1
  <2>3. QED
    BY <2>1, <2>2, BatchBalanced
<1>5. CASE Announce(f)
  <2>1. /\ pc[f] = "announce" /\ pc'[f] # "announce" /\ todo' = Rest(f)
        /\ UNCHANGED <<pushed, buffer, dlq, written, skipped, solo>>
        /\ \A g \in Flushers \ {f} : pc'[g] = pc[g]
    BY <1>5, AnnounceIs DEF Announce
  <2>2. /\ Uncommitted(f) = DOMAIN todo[f] \ Batch(f) /\ Uncommitted(f)' = DOMAIN todo'[f]
    BY <2>1 DEF Uncommitted, At
  <2>3. /\ \A g \in Flushers \ {f} : todo'[g] = todo[g]
        /\ DOMAIN todo'[f] = DOMAIN todo[f] \ Batch(f)
        /\ \A i \in DOMAIN todo[f] \ Batch(f) : todo'[f][i] = todo[f][i]
    BY <1>1, <2>1, RestIs
  <2>4. \A g \in Flushers \ {f} : Uncommitted(g)' = Uncommitted(g)
    BY <2>1, <2>3 DEF Uncommitted, Batch, At
  <2>5. \A g \in Flushers : /\ Uncommitted(g)' = Uncommitted(g)
                            /\ \A i \in Uncommitted(g) : todo'[g][i] = todo[g][i]
    BY <2>2, <2>3, <2>4
  <2>6. InHand(s)' = InHand(s)
    BY <2>5 DEF InHand
  <2>7. QED
    BY <2>1, <2>6, StillBalanced
<1>6. QED
  BY <1>2, <1>3, <1>4, <1>5, MoveBalanced, TakeBalanced DEF Flush

LEMMA ConservedStep ==
    ASSUME IInv, Conserved, [Next]_vars
    PROVE  Conserved'
<1> SUFFICES ASSUME crashes' = 0, Announced', NEW s \in Subgraphs
             PROVE  Balanced(s)'
  BY DEF Conserved, Balanced
<1>1. IInv'
  BY StepInd
<1>2. /\ crashes = 0 /\ Announced /\ \A f \in Flushers : ~Crash(f)
      /\ \A f \in Flushers : Announce(f) => todo' = Rest(f)
  BY AnnouncedBefore
<1>3. Balanced(s)
  BY <1>2 DEF Conserved, Balanced
<1>4. CASE \E p \in Subgraphs : Push(p)
  BY <1>1, <1>3, <1>4, PushBalanced DEF IInv
<1>5. CASE \E f \in Flushers : Flush(f)
  BY <1>1, <1>2, <1>3, <1>5, FlushBalanced
<1>6. CASE LockExpires \/ UNCHANGED vars
  <2>1. UNCHANGED <<pushed, buffer, dlq, written, skipped, todo, solo, pc>>
    BY <1>6 DEF LockExpires, vars, graphVars, flushVars
  <2>2. InHand(s)' = InHand(s)
    BY <2>1, HandsStay
  <2>3. QED
    BY <1>3, <2>1, <2>2, StillBalanced
<1>7. QED
  BY <1>2, <1>4, <1>5, <1>6 DEF Next

LEMMA ConservedInit == Init => Conserved
<1> SUFFICES ASSUME Init, NEW s \in Subgraphs PROVE Balanced(s)
  BY DEF Conserved, Balanced
<1>1. InHand(s) = {}
  BY DEF Init, InHand, Uncommitted
<1>2. {i \in DOMAIN buffer : buffer[i] = s} = {}
  BY DEF Init
<1>3. Cardinality(InHand(s)) = 0 /\ Occurs(s, buffer) = 0
  BY <1>1, <1>2, FS_EmptySet DEF Occurs
<1>4. pushed[s] = 0 /\ written[s] = 0 /\ dlq[s] = 0 /\ skipped[s] = 0
  BY DEF Init
<1>5. QED
  BY <1>3, <1>4 DEF Balanced

\* A push is written once, announced, and parked only for its own fault: no flusher,
\* no round and no failed call changes the account, short of a crash or an XADD that
\* raises.
THEOREM PushesAreAccounted == Spec => []PushesAccounted
<1>1. Init => PushesAccounted
  BY ConservedInit DEF Init, PushesAccounted, EveryCommitAnnounced, Announced, OnlyCulpritsParked,
                       OnlyPoisonParked
<1>2. IInv /\ PushesAccounted /\ [Next]_vars => PushesAccounted'
  BY AnnouncedStep, CulpritsStep, ConservedStep DEF PushesAccounted
<1>3. QED
  BY <1>1, <1>2, Inductive, PTL DEF Spec

-----------------------------------------------------------------------------
(***************************************************************************)
(* The lock.  That there is at most one flush more than locks ended under  *)
(* one is not inductive: the key counts as one writer more, and a flush    *)
(* that finds it gone while another is at work shares the graph with it.   *)
(* Whoever shares it with nobody works on the newest version.              *)
(***************************************************************************)
KeyCount == IF lock THEN 1 ELSE 0

FewAtWork == Cardinality(AtWork) <= expiries + KeyCount
BesideShares == \A f, g \in AtWork : f # g => f \in shared
NewestUnlessShared ==
    \A f \in Flushers \ shared : pc[f] \in {"write", "announce"} => ver[f] = version

SharingInv == FewAtWork /\ BesideShares /\ NewestUnlessShared

\* The flushes under way are finitely many.
LEMMA AtWorkFinite == IsFiniteSet(AtWork) /\ Cardinality(AtWork) \in Nat
<1>1. AtWork \subseteq Flushers
  BY DEF AtWork
<1>2. QED
  BY <1>1, FS_Subset, FS_CardinalityType, WriterAssumption

\* A flush that goes on, with the lock and the company it has.
LEMMA GoesOn ==
    ASSUME IInv, SharingInv, NEW f \in Flushers, pc[f] # "idle",
           NEW place \in {"take", "commit", "write", "announce", "release"},
           pc' = [pc EXCEPT ![f] = place], UNCHANGED <<lock, expiries, shared>>,
           \/ UNCHANGED <<ver, version>> /\ (place = "write" => pc[f] = "write")
                /\ (place = "announce" => pc[f] = "write")
           \/ ver' = [ver EXCEPT ![f] = version']
    PROVE  SharingInv'
<1>1. /\ pc \in [Flushers -> {"idle", "take", "commit", "write", "announce", "release"}]
      /\ ver \in [Flushers -> 0..version]
  BY DEF IInv, TypeOK
<1>2. AtWork' = AtWork /\ f \in AtWork
  BY <1>1 DEF AtWork, At
<1>3. FewAtWork' /\ BesideShares'
  BY <1>2 DEF SharingInv, FewAtWork, BesideShares, KeyCount
<1>4. NewestUnlessShared'
  <2>1. SUFFICES ASSUME NEW g \in Flushers \ shared, pc'[g] \in {"write", "announce"}
                 PROVE  ver'[g] = version'
    BY DEF NewestUnlessShared
  <2>2. CASE g = f
    BY <1>1, <2>1, <2>2 DEF SharingInv, NewestUnlessShared
  <2>3. CASE g # f
    <3>1. pc'[g] = pc[g] /\ g \in AtWork
      BY <1>1, <2>1, <2>3 DEF AtWork, At
    <3>2. QED
      BY <1>2, <2>3, <3>1 DEF SharingInv, BesideShares
  <2>4. QED
    BY <2>2, <2>3
<1>5. QED
  BY <1>3, <1>4 DEF SharingInv

\* A flush that is over, or lost.
LEMMA Leaves ==
    ASSUME IInv, SharingInv, NEW f \in Flushers, Release(f) \/ Crash(f)
    PROVE  SharingInv'
<1>1. /\ pc \in [Flushers -> {"idle", "take", "commit", "write", "announce", "release"}]
      /\ ver \in [Flushers -> 0..version] /\ expiries \in Nat
  BY WriterAssumption DEF IInv, TypeOK
<1>2. /\ pc[f] # "idle" /\ pc' = [pc EXCEPT ![f] = "idle"] /\ shared' = shared \ {f}
      /\ UNCHANGED <<expiries, version>> /\ (lock' = FALSE \/ lock' = lock)
      /\ \A g \in Flushers \ {f} : ver'[g] = ver[g]
  BY <1>1 DEF Release, Crash, Forget, At, Goto, budget, graphVars
<1>3. AtWork' = AtWork \ {f} /\ f \in AtWork
  BY <1>1, <1>2 DEF AtWork, At
<1>4. Cardinality(AtWork') = Cardinality(AtWork) - 1
  BY <1>3, AtWorkFinite, FS_RemoveElement
<1>5. FewAtWork'
  <2>1. KeyCount \in 0..1 /\ KeyCount' \in 0..1
    BY DEF KeyCount
  <2>2. QED
    BY <1>1, <1>2, <1>4, <2>1, AtWorkFinite DEF SharingInv, FewAtWork
<1>6. BesideShares'
  BY <1>2, <1>3 DEF SharingInv, BesideShares
<1>7. NewestUnlessShared'
  BY <1>1, <1>2 DEF SharingInv, NewestUnlessShared
<1>8. QED
  BY <1>5, <1>6, <1>7 DEF SharingInv

\* A flush that finds no lock.
LEMMA Arrives ==
    ASSUME IInv, SharingInv, NEW f \in Flushers, Acquire(f)
    PROVE  SharingInv'
<1>1. /\ pc \in [Flushers -> {"idle", "take", "commit", "write", "announce", "release"}]
      /\ expiries \in Nat
  BY WriterAssumption DEF IInv, TypeOK
<1>2. /\ pc[f] = "idle" /\ pc' = [pc EXCEPT ![f] = "take"] /\ ~lock /\ lock' = TRUE
      /\ UNCHANGED <<expiries, ver, version>>
      /\ AtWork # {} => shared' = shared \cup AtWork \cup {f}
  BY DEF Acquire, At, Goto, budget, graphVars
<1>3. AtWork' = AtWork \cup {f} /\ f \notin AtWork
  BY <1>1, <1>2 DEF AtWork, At
<1>4. Cardinality(AtWork') = Cardinality(AtWork) + 1
  BY <1>3, AtWorkFinite, FS_AddElement
<1>5. FewAtWork'
  BY <1>1, <1>2, <1>4, AtWorkFinite DEF SharingInv, FewAtWork, KeyCount
<1>6. BesideShares'
  BY <1>2, <1>3 DEF BesideShares
<1>7. NewestUnlessShared'
  <2>1. \A g \in Flushers : pc'[g] \in {"write", "announce"} => g \in AtWork
    BY <1>1, <1>2 DEF AtWork, At
  <2>2. QED
    BY <1>2, <2>1 DEF NewestUnlessShared
<1>8. QED
  BY <1>5, <1>6, <1>7 DEF SharingInv

LEMMA SharingStep ==
    ASSUME IInv, SharingInv, [Next]_vars
    PROVE  SharingInv'
<1> USE DEF At, Goto, graphVars, flushVars, budget
<1>1. /\ pc \in [Flushers -> {"idle", "take", "commit", "write", "announce", "release"}]
      /\ expiries \in Nat /\ lock \in BOOLEAN
  BY WriterAssumption DEF IInv, TypeOK
<1>2. ASSUME UNCHANGED <<pc, lock, expiries, shared, ver, version>> PROVE SharingInv'
  BY <1>2 DEF SharingInv, FewAtWork, BesideShares, NewestUnlessShared, KeyCount, AtWork
<1>3. CASE LockExpires
  <2>1. /\ UNCHANGED <<pc, shared, ver, version>> /\ lock /\ lock' = FALSE
        /\ AtWork' = AtWork
        /\ (AtWork = {} /\ expiries' = expiries) \/ expiries' = expiries + 1
    BY <1>3 DEF LockExpires, AtWork
  <2>2. Cardinality(AtWork) <= expiries'
    <3>1. CASE AtWork = {}
      BY <1>1, <2>1, <3>1, FS_EmptySet
    <3>2. CASE expiries' = expiries + 1
      BY <2>1, <3>2 DEF SharingInv, FewAtWork, KeyCount
    <3>3. QED
      BY <2>1, <3>1, <3>2
  <2>3. expiries' \in Nat
    BY <1>1, <2>1
  <2>4. QED
    BY <2>1, <2>2, <2>3 DEF SharingInv, FewAtWork, BesideShares, NewestUnlessShared, KeyCount
<1>4. ASSUME NEW f \in Flushers,
             TakeRound(f) \/ Drained(f) \/ EndRound(f) \/ SetAside(f) \/ WriteFails(f)
               \/ Announce(f)
      PROVE  SharingInv'
  <2>1. /\ pc[f] # "idle" /\ UNCHANGED <<lock, expiries, shared, ver, version>>
        /\ \E p \in {"take", "commit", "release"} : pc' = [pc EXCEPT ![f] = p]
    BY <1>1, <1>4 DEF TakeRound, Drained, EndRound, SetAside, WriteFails, Raises, Fault,
                      Committable, Announce
  <2>2. QED
    BY <2>1, GoesOn
<1>5. ASSUME NEW f \in Flushers, NextVersion(f) PROVE SharingInv'
  <2>1. /\ pc[f] # "idle" /\ UNCHANGED <<lock, expiries, shared>>
        /\ ver' = [ver EXCEPT ![f] = version'] /\ pc' = [pc EXCEPT ![f] = "write"]
    BY <1>5 DEF NextVersion, Committable
  <2>2. QED
    BY <2>1, GoesOn
<1>6. ASSUME NEW f \in Flushers, WriteBatch(f) PROVE SharingInv'
  <2>1. /\ pc[f] = "write" /\ UNCHANGED <<lock, expiries, shared, ver, version>>
        /\ pc' = [pc EXCEPT ![f] = "announce"]
    BY <1>6 DEF WriteBatch
  <2>2. QED
    BY <2>1, GoesOn
<1>7. CASE \E s \in Subgraphs : Push(s)
  BY <1>2, <1>7 DEF Push
<1>8. CASE UNCHANGED vars
  BY <1>2, <1>8 DEF vars
<1>9. QED
  BY <1>3, <1>4, <1>5, <1>6, <1>7, <1>8, Arrives, Leaves DEF Next, Flush

LEMMA SharingInvariant == Spec => []SharingInv
<1>1. Init => SharingInv
  <2> SUFFICES ASSUME Init PROVE SharingInv
    OBVIOUS
  <2>1. AtWork = {}
    BY DEF Init, AtWork, At
  <2>2. QED
    BY <2>1, FS_EmptySet
    DEF Init, SharingInv, FewAtWork, BesideShares, NewestUnlessShared, KeyCount
<1>2. QED
  BY <1>1, SharingStep, Inductive, PTL DEF Spec

\* Any number of flushers, crashes, faults and locks that end under a flush: there is
\* one flush at work, and at most one more for each lock that ended so.
THEOREM OneWriter == Spec => []OneWriterPerLock
<1>1. IInv /\ SharingInv => OneWriterPerLock
  <2> SUFFICES ASSUME IInv, SharingInv PROVE OneWriterPerLock
    OBVIOUS
  <2>1. KeyCount \in 0..1 /\ expiries \in Nat
    BY WriterAssumption DEF KeyCount, IInv, TypeOK
  <2>2. QED
    BY <2>1, AtWorkFinite DEF SharingInv, FewAtWork, OneWriterPerLock
<1>2. QED
  BY <1>1, Inductive, SharingInvariant, PTL

\* Any number of flushers, crashes, faults and locks that end under a flush: an entity
\* goes back to an older version, and a version comes on the stream after a newer one,
\* only by a flush that has been at work beside another.
THEOREM VersionsGrow == Spec => VersionsOnlyGrow
<1>1. ASSUME IInv, SharingInv, [Next]_vars,
             \A f \in shared : pc[f] \in {"write", "announce"} => pc'[f] = pc[f]
      PROVE  /\ \A e \in Entities : entityVersion'[e] >= entityVersion[e]
             /\ \A i \in DOMAIN deltas' \ DOMAIN deltas :
                    \A j \in DOMAIN deltas : deltas[j] < deltas'[i]
  <2> USE DEF At, Goto, graphVars
  <2>1. /\ entityVersion \in [Entities -> 0..version] /\ version \in Nat
        /\ deltas \in Seq(1..version)
        /\ pc \in [Flushers -> {"idle", "take", "commit", "write", "announce", "release"}]
    BY <1>1 DEF IInv, TypeOK
  <2>2. CASE UNCHANGED <<entityVersion, deltas>>
    BY <2>1, <2>2
  <2>3. ASSUME NEW f \in Flushers, WriteBatch(f)
        PROVE  /\ deltas' = deltas
               /\ \A e \in Entities : entityVersion'[e] >= entityVersion[e]
    <3>1. pc[f] = "write" /\ pc'[f] = "announce" /\ deltas' = deltas
      BY <2>1, <2>3 DEF WriteBatch
    <3>2. ver[f] = version
      BY <1>1, <3>1 DEF SharingInv, NewestUnlessShared
    <3>3. \A e \in Entities : entityVersion'[e] \in {version, entityVersion[e]}
      BY <2>3, <3>2 DEF WriteBatch
    <3>4. ASSUME NEW e \in Entities PROVE entityVersion'[e] >= entityVersion[e]
      <4>1. entityVersion[e] \in Nat /\ entityVersion[e] <= version
        BY <2>1
      <4>2. QED
        BY <2>1, <3>3, <4>1
    <3>5. QED
      BY <3>1, <3>4
  <2>4. ASSUME NEW f \in Flushers, Announce(f), deltas' # deltas
        PROVE  /\ entityVersion' = entityVersion
               /\ \A i \in DOMAIN deltas' \ DOMAIN deltas :
                      \A j \in DOMAIN deltas : deltas[j] < deltas'[i]
    <3>1. /\ pc[f] = "announce" /\ pc'[f] # "announce" /\ deltas' = Append(deltas, ver[f])
          /\ entityVersion' = entityVersion
      BY <1>1, <2>1, <2>4, AnnounceIs DEF Announce
    <3>2. ver[f] = version /\ version \in 1..version /\ version \notin Range(deltas)
      BY <1>1, <3>1 DEF SharingInv, NewestUnlessShared, IInv, Numbered
    <3>3. \A j \in DOMAIN deltas : deltas[j] \in 1..version /\ deltas[j] # version
      BY <2>1, <3>2 DEF Range
    <3>4. \A j \in DOMAIN deltas : deltas[j] < version
      BY <2>1, <3>3
    <3>5. /\ DOMAIN deltas = 1..Len(deltas) /\ Len(deltas) \in Nat
          /\ DOMAIN deltas' = 1..(Len(deltas) + 1) /\ deltas'[Len(deltas) + 1] = version
      BY <2>1, <3>1, <3>2, Appended
    <3>6. \A i \in DOMAIN deltas' \ DOMAIN deltas : i = Len(deltas) + 1
      BY <3>5
    <3>7. QED
      BY <3>1, <3>4, <3>5, <3>6
  <2>5. \/ UNCHANGED <<entityVersion, deltas>>
        \/ \E f \in Flushers : WriteBatch(f) \/ (Announce(f) /\ UNCHANGED entityVersion)
    BY <1>1 DEF Next, Flush, Push, Acquire, TakeRound, Drained, EndRound, SetAside, NextVersion,
                WriteFails, Announce, Release, Crash, LockExpires, vars
  <2>6. QED
    BY <2>1, <2>2, <2>3, <2>4, <2>5
<1>2. IInv /\ SharingInv /\ [Next]_vars
        => [\/ \E f \in shared : pc[f] \in {"write", "announce"} /\ pc'[f] # pc[f]
            \/ /\ \A e \in Entities : entityVersion'[e] >= entityVersion[e]
               /\ \A i \in DOMAIN deltas' \ DOMAIN deltas :
                      \A j \in DOMAIN deltas : deltas[j] < deltas'[i]]_vars
  BY <1>1
<1>3. QED
  BY <1>2, Inductive, SharingInvariant, PTL DEF Spec, VersionsOnlyGrow

=============================================================================
