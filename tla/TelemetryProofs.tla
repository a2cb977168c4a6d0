-------------------------- MODULE TelemetryProofs ---------------------------
(***************************************************************************)
(* What holds of the stages of Telemetry for all values of the constants.  *)
(* Of the sink: type correctness, that only the stream's cap can lose a    *)
(* sample, and that a duplicate costs a failure or a restart each.  Then   *)
(* of the answer cache, that a stale answer stays only by a race and the   *)
(* cap holds; of the signatures, that a fault that shows itself again wins;*)
(* of the online detector and the fleet, that a run is waited out; and of  *)
(* the process watcher behind the plant, that an alert does not repeat the *)
(* one before it in the same excursion.                                    *)
(*                                                                         *)
(* Each section proves an inductive invariant of one module, and from it   *)
(* the property of its stage; the sink's are of HistorianSink by itself.   *)
(***************************************************************************)
EXTENDS Telemetry, FiniteSetTheorems, SequenceTheorems, WellFoundedInduction, TLAPS

\* A trimmed sample was stored or counts as gone.
TrimmedKnown == \A i \in Samples : i < oldest /\ stored[i] = 0 => i \in gone

\* What the current batch does not write has nothing to write, and a batch that
\* is about to be acknowledged has been written.
BatchKnown ==
    /\ \A i \in ids : i \in rows \/ i \in Malformed \/ i \in gone \/ stored[i] > 0
    /\ pc = "ack" => \A i \in rows : stored[i] > 0

\* What may still be written has been written at most once per mishap.
WritesPaid ==
    \A i \in Samples :
        /\ i > delivered => stored[i] = 0
        /\ i \in pending /\ ~(pc = "ack" /\ i \in ids) => stored[i] <= faults + crashes

Bookkeeping == TrimmedKnown /\ BatchKnown /\ WritesPaid

IInv == TypeOK /\ Bookkeeping /\ LostOnlyToCap /\ DuplicatesArePaid

\* FirstOf takes an initial segment.
LEMMA FirstIsSegment ==
    ASSUME NEW S \in SUBSET Samples, NEW d \in FirstOf(S), NEW i \in S, i <= d
    PROVE  i \in FirstOf(S)
<1> DEFINE Below(k) == {j \in S : j < k}
<1>1. Samples \subseteq Nat /\ IsFiniteSet(Samples)
  BY SinkAssumption, FS_Interval DEF Samples
<1>2. IsFiniteSet(S)
  BY <1>1, FS_Subset
<1>3. i \in Nat /\ d \in Nat /\ d \in S
  BY <1>1 DEF FirstOf
<1>4. IsFiniteSet(Below(d)) /\ IsFiniteSet(Below(i)) /\ Below(i) \subseteq Below(d)
  <2>1. \A j \in S : j \in Nat
    BY <1>1
  <2>2. \A j \in S : j < i => j < d
    BY <1>3, <2>1
  <2>3. Below(d) \subseteq S /\ Below(i) \subseteq S /\ Below(i) \subseteq Below(d)
    BY <2>2
  <2>4. QED BY <1>2, <2>3, FS_Subset
<1>5. Cardinality(Below(i)) <= Cardinality(Below(d))
  BY <1>4, FS_Subset
<1>6. Cardinality(Below(i)) \in Nat /\ Cardinality(Below(d)) \in Nat
  BY <1>4, FS_CardinalityType
<1>7. Cardinality(Below(d)) < Batch
  BY DEF FirstOf
<1>8. Cardinality(Below(i)) < Batch
  BY <1>5, <1>6, <1>7, SinkAssumption
<1>9. QED BY <1>8 DEF FirstOf

\* A delivery advances over its batch and over nothing that is still there.
LEMMA DeliverInd ==
    ASSUME TypeOK, Deliver
    PROVE  /\ delivered' \in 1..newest /\ delivered' > delivered
           /\ FirstOf(Undelivered) \subseteq (delivered + 1)..delivered'
           /\ pending' = pending \cup FirstOf(Undelivered)
           /\ \A i \in FirstOf(Undelivered) : i >= oldest
           /\ \A i \in Samples : i > delivered /\ i >= oldest /\ i <= delivered' =>
                  i \in FirstOf(Undelivered)
<1>1. Undelivered \subseteq Samples /\ FirstOf(Undelivered) \subseteq Undelivered
  BY DEF Undelivered, FirstOf
<1>2. /\ delivered' \in FirstOf(Undelivered)
      /\ \A i \in FirstOf(Undelivered) : i <= delivered'
      /\ pending' = pending \cup FirstOf(Undelivered)
  BY DEF Deliver
<1>3. delivered' \in Samples /\ delivered' > delivered /\ delivered' <= newest
  BY <1>1, <1>2 DEF Undelivered
<1>4. delivered' \in 1..newest
  BY <1>3, SinkAssumption DEF Samples, TypeOK
<1>5. \A i \in FirstOf(Undelivered) : i \in Nat /\ i > delivered /\ i >= oldest
  BY <1>1, SinkAssumption DEF Undelivered, Samples
<1>6. FirstOf(Undelivered) \subseteq (delivered + 1)..delivered'
  <2>1. delivered \in Nat /\ newest \in Nat
    BY SinkAssumption DEF TypeOK
  <2>2. delivered' \in Nat
    BY <1>4, <2>1
  <2>3. \A i \in FirstOf(Undelivered) : i \in Nat /\ i > delivered /\ i <= delivered'
    BY <1>2, <1>5
  <2>4. QED BY <2>1, <2>2, <2>3
<1>7. ASSUME NEW i \in Samples, i > delivered, i >= oldest, i <= delivered'
      PROVE  i \in FirstOf(Undelivered)
  <2>1. i <= newest
    BY <1>4, <1>7, SinkAssumption DEF Samples, TypeOK
  <2>2. i \in Undelivered
    BY <1>7, <2>1 DEF Undelivered
  <2>3. QED BY <1>1, <1>2, <1>7, <2>2, FirstIsSegment
<1>8. QED BY <1>2, <1>3, <1>4, <1>5, <1>6, <1>7

\* Writing the rows of a batch that was not written before.
LEMMA StoreInd ==
    ASSUME TypeOK, Store
    PROVE  /\ stored' \in [Samples -> Nat]
           /\ \A i \in Samples : i \in rows => stored'[i] = stored[i] + 1
           /\ \A i \in Samples : i \notin rows => stored'[i] = stored[i]
  BY DEF TypeOK, Store

LEMMA FaultInd == TypeOK /\ Fault => faults' \in 0..MaxFaults /\ faults' = faults + 1
  BY SinkAssumption DEF TypeOK, Fault

LEMMA InitInd == Init => IInv
<1> SUFFICES ASSUME Init PROVE IInv
  OBVIOUS
<1> USE SinkAssumption DEF Init, Samples
<1>1. TypeOK
  BY DEF TypeOK
<1>2. Bookkeeping
  BY DEF Bookkeeping, TrimmedKnown, BatchKnown, WritesPaid
<1>3. LostOnlyToCap /\ DuplicatesArePaid
  BY DEF LostOnlyToCap, DuplicatesArePaid
<1>4. QED BY <1>1, <1>2, <1>3 DEF IInv

\* What the cap of the stream leaves is never beyond its end.
LEMMA CapArithmetic ==
    ASSUME NEW n \in Nat, NEW o \in Nat, NEW m \in Nat, m >= 1, n + 2 - o >= m
    PROVE  o <= n + 1
  OBVIOUS

LEMMA PublishInd == IInv /\ Publish => IInv'
<1> SUFFICES ASSUME IInv, Publish PROVE IInv'
  OBVIOUS
<1> USE SinkAssumption DEF IInv, Publish, streamVars, sinkVars, Samples
<1>1. TypeOK'
  <2>1. newest \in Nat /\ newest' \in 0..MaxSamples /\ newest' = newest + 1
    BY DEF TypeOK
  <2>2. oldest' \in 1..(newest' + 1)
    <3>1. oldest \in 1..(newest + 1)
      BY DEF TypeOK
    <3>2. CASE oldest' = oldest
      BY <2>1, <3>1, <3>2
    <3>3. CASE newest + 2 - oldest' >= MaxLen
      <4>1. oldest' \in 1..MaxSamples
        OBVIOUS
      <4>2. oldest' \in Nat /\ MaxLen >= 1
        BY <4>1
      <4>3. oldest' <= newest + 1
        BY <2>1, <3>3, <4>2, CapArithmetic
      <4>4. QED BY <2>1, <4>1, <4>3
    <3>4. QED BY <3>2, <3>3
  <2>3. delivered' \in 0..newest' /\ delivered' = delivered
    BY <2>1 DEF TypeOK
  <2>4. gone' \subseteq Samples
    BY DEF TypeOK
  <2>5. QED BY <2>1, <2>2, <2>3, <2>4 DEF TypeOK
<1>2. TrimmedKnown'
  BY DEF TypeOK, TrimmedKnown
<1>3. BatchKnown' /\ WritesPaid'
  BY DEF TypeOK, Bookkeeping, BatchKnown, WritesPaid
<1>4. LostOnlyToCap' /\ DuplicatesArePaid'
  BY DEF TypeOK, LostOnlyToCap, DuplicatesArePaid
<1>5. QED BY <1>1, <1>2, <1>3, <1>4 DEF Bookkeeping

\* A batch the group delivers leaves all but the batch's own facts in place.
LEMMA DeliveredInd ==
    ASSUME IInv, Deliver, pc = "read",
           UNCHANGED <<streamVars, stored>>,
           faults' \in Nat, crashes' \in Nat,
           faults' >= faults, crashes' >= crashes, pc' # "ack"
    PROVE  /\ delivered' \in 0..newest' /\ pending' \subseteq 1..delivered'
           /\ TrimmedKnown' /\ WritesPaid' /\ LostOnlyToCap' /\ DuplicatesArePaid'
<1> USE SinkAssumption, DeliverInd DEF IInv, streamVars
<1>1. delivered' \in 0..newest' /\ pending' \subseteq 1..delivered'
  <2>1. /\ delivered \in Nat /\ newest \in Nat /\ newest' = newest
        /\ delivered' \in 1..newest /\ delivered' > delivered
        /\ pending \subseteq 1..delivered
    BY DEF TypeOK
  <2>2. delivered' \in 0..newest' /\ 1..delivered \subseteq 1..delivered'
    BY <2>1
  <2>3. FirstOf(Undelivered) \subseteq 1..delivered'
    BY <2>1
  <2>4. QED BY <2>1, <2>2, <2>3
<1>2. TrimmedKnown'
  BY DEF Bookkeeping, TrimmedKnown
<1>3. WritesPaid'
  <2> SUFFICES ASSUME NEW i \in Samples
               PROVE  /\ i > delivered' => stored[i] = 0
                      /\ i \in pending' => stored[i] <= faults' + crashes'
    BY DEF WritesPaid
  <2>1. i \in Nat /\ stored[i] \in Nat
    BY SMTT(30) DEF Samples, TypeOK
  <2>2. i > delivered' => stored[i] = 0
    BY <2>1 DEF TypeOK, Bookkeeping, WritesPaid
  <2>3. CASE i \in pending
    BY <2>1, <2>3 DEF TypeOK, Bookkeeping, WritesPaid
  <2>4. CASE i \in FirstOf(Undelivered)
    BY <2>1, <2>4 DEF TypeOK, Bookkeeping, WritesPaid
  <2>5. QED BY <2>2, <2>3, <2>4
<1>4. LostOnlyToCap'
  <2> SUFFICES ASSUME NEW i \in Samples \ (Malformed \cup gone),
                      i <= delivered', i \notin pending'
               PROVE  stored[i] > 0
    BY DEF LostOnlyToCap
  <2>1. i \in Nat /\ i \notin pending /\ stored[i] \in Nat
    BY DEF Samples, TypeOK
  <2>2. CASE i <= delivered
    BY <2>1, <2>2 DEF LostOnlyToCap
  <2>3. CASE i > delivered
    <3>1. i < oldest
      BY <2>1, <2>3 DEF TypeOK
    <3>2. QED BY <2>1, <3>1 DEF Bookkeeping, TrimmedKnown
  <2>4. QED BY <2>1, <2>2, <2>3 DEF TypeOK
<1>5. DuplicatesArePaid'
  BY DEF TypeOK, DuplicatesArePaid
<1>6. QED BY <1>1, <1>2, <1>3, <1>4, <1>5

LEMMA ReadLiveInd == IInv /\ ReadLive => IInv'
<1> SUFFICES ASSUME IInv, ReadLive PROVE IInv'
  OBVIOUS
<1> USE SinkAssumption DEF IInv, ReadLive, streamVars
<1>1. /\ delivered' \in 0..newest' /\ pending' \subseteq 1..delivered'
      /\ TrimmedKnown' /\ WritesPaid' /\ LostOnlyToCap' /\ DuplicatesArePaid'
  BY DeliveredInd DEF TypeOK
<1>2. TypeOK'
  BY <1>1, DeliverInd DEF TypeOK, Parsed
<1>3. BatchKnown'
  BY DeliverInd DEF BatchKnown, Parsed
<1>4. QED BY <1>1, <1>2, <1>3 DEF Bookkeeping

LEMMA ReadPendingInd == IInv /\ ReadPending => IInv'
<1> SUFFICES ASSUME IInv, ReadPending PROVE IInv'
  OBVIOUS
<1> USE SinkAssumption DEF IInv, ReadPending, streamVars
<1>1. FirstOf(pending) \subseteq pending /\ pending \subseteq Samples
  BY DEF FirstOf, TypeOK, Samples
<1>2. TypeOK'
  BY <1>1 DEF TypeOK, Parsed
<1>3. BatchKnown'
  <2> SUFFICES ASSUME NEW i \in ids', i \notin rows'
               PROVE  i \in Malformed \/ i \in gone \/ stored[i] > 0
    BY DEF BatchKnown
  <2>1. i \in Samples /\ i \in Nat /\ oldest \in Nat /\ stored[i] \in Nat
    <3>1. i \in pending
      BY <1>1
    <3>2. i \in Samples /\ oldest \in Nat /\ newest \in Nat
      BY <1>1, <3>1 DEF TypeOK
    <3>3. QED BY <3>2 DEF TypeOK, Samples
  <2>2. ~(i >= oldest) \/ i \in Malformed
    BY DEF Parsed
  <2>3. i < oldest \/ i \in Malformed
    BY <2>1, <2>2
  <2>4. QED BY <2>1, <2>3 DEF Bookkeeping, TrimmedKnown
<1>4. TrimmedKnown' /\ WritesPaid'
  BY DEF Bookkeeping, TrimmedKnown, WritesPaid
<1>5. LostOnlyToCap' /\ DuplicatesArePaid'
  BY DEF LostOnlyToCap, DuplicatesArePaid
<1>6. QED BY <1>2, <1>3, <1>4, <1>5 DEF Bookkeeping

\* What was stored once more has been paid for by the failure or the restart after it.
LEMMA OneMorePaid ==
    ASSUME NEW n \in Nat, NEW f \in Nat, NEW c \in Nat, NEW f1 \in Nat, NEW c1 \in Nat,
           n <= f + c, f1 + c1 >= f + c + 1
    PROVE  n + 1 <= f1 + c1 /\ n + 1 <= 1 + f1 + c1
  OBVIOUS

\* Writing the batch keeps everything but the state of the batch itself.
LEMMA StoredInd ==
    ASSUME IInv, Store, pc = "insert",
           UNCHANGED <<streamVars, delivered, pending>>,
           faults' \in Nat, crashes' \in Nat,
           faults' >= faults, crashes' >= crashes,
           \/ pc' = "ack" /\ ids' = ids
           \/ faults' + crashes' >= faults + crashes + 1
    PROVE  TrimmedKnown' /\ WritesPaid' /\ LostOnlyToCap' /\ DuplicatesArePaid'
<1> USE SinkAssumption, StoreInd DEF IInv, streamVars
<1>0. /\ rows \subseteq ids /\ ids \subseteq pending
      /\ \A i \in Samples : i \in Nat /\ stored[i] \in Nat
      /\ delivered \in Nat /\ faults \in Nat /\ crashes \in Nat
  <2>1. delivered \in Nat /\ faults \in Nat /\ crashes \in Nat
    BY DEF TypeOK
  <2>2. \A i \in Samples : i \in Nat /\ stored[i] \in Nat
    BY DEF TypeOK, Samples
  <2>3. QED BY <2>1, <2>2 DEF TypeOK
<1>1. TrimmedKnown' /\ LostOnlyToCap'
  BY <1>0 DEF Bookkeeping, TrimmedKnown, LostOnlyToCap
<1>2. ASSUME NEW i \in Samples
      PROVE  /\ i > delivered => stored'[i] = 0
             /\ i \in pending /\ ~(pc' = "ack" /\ i \in ids') =>
                    stored'[i] <= faults' + crashes'
             /\ stored'[i] <= 1 + faults' + crashes'
  <2>1. CASE i \in rows
    <3>1. stored[i] <= faults + crashes /\ ~(i > delivered)
      BY <1>0, <2>1 DEF Bookkeeping, WritesPaid, TypeOK
    <3>2. stored'[i] = stored[i] + 1 /\ i \in ids
      BY <1>0, <2>1
    <3>3. stored'[i] <= 1 + faults + crashes
      BY <1>0, <3>1, <3>2
    <3>4. CASE pc' = "ack" /\ ids' = ids
      BY <1>0, <3>1, <3>2, <3>3, <3>4
    <3>5. CASE faults' + crashes' >= faults + crashes + 1
      <4>1. stored'[i] <= faults' + crashes' /\ stored'[i] <= 1 + faults' + crashes'
        BY <1>0, <3>1, <3>2, <3>5, OneMorePaid
      <4>2. QED BY <3>1, <4>1
    <3>6. QED BY <3>4, <3>5
  <2>2. CASE i \notin rows
    <3>1. stored'[i] = stored[i] /\ stored[i] <= 1 + faults + crashes
      BY <2>2 DEF DuplicatesArePaid
    <3>2. i > delivered => stored[i] = 0
      BY DEF Bookkeeping, WritesPaid
    <3>3. i \in pending => stored[i] <= faults + crashes
      BY DEF Bookkeeping, WritesPaid
    <3>4. QED BY <1>0, <3>1, <3>2, <3>3
  <2>3. QED BY <2>1, <2>2
<1>3. QED BY <1>1, <1>2 DEF WritesPaid, DuplicatesArePaid

LEMMA InsertInd == IInv /\ Insert => IInv'
<1> SUFFICES ASSUME IInv, Insert PROVE IInv'
  OBVIOUS
<1> USE SinkAssumption DEF IInv, Insert, streamVars
<1>1. TrimmedKnown' /\ WritesPaid' /\ LostOnlyToCap' /\ DuplicatesArePaid'
  BY StoredInd DEF TypeOK
<1>2. TypeOK'
  BY StoreInd DEF TypeOK
<1>3. BatchKnown'
  <2>1. \A i \in ids : i \in Samples /\ stored[i] \in Nat
    BY DEF TypeOK, Samples
  <2>2. rows \subseteq ids
    BY DEF TypeOK
  <2>3. QED BY <2>1, <2>2, StoreInd DEF Bookkeeping, BatchKnown
<1>4. QED BY <1>1, <1>2, <1>3 DEF Bookkeeping

\* An acknowledged batch has been written, as far as there was anything to write.
LEMMA AckedInd ==
    ASSUME IInv, pc = "ack", pending' = pending \ ids,
           UNCHANGED <<streamVars, delivered, stored>>,
           faults' \in Nat, faults' >= faults, crashes' = crashes, pc' = "read"
    PROVE  TrimmedKnown' /\ WritesPaid' /\ LostOnlyToCap' /\ DuplicatesArePaid'
<1> USE SinkAssumption DEF IInv, streamVars
<1>0. /\ \A i \in Samples : stored[i] \in Nat
      /\ faults \in Nat /\ crashes \in Nat
  BY DEF TypeOK
<1>1. TrimmedKnown' /\ DuplicatesArePaid'
  BY <1>0 DEF Bookkeeping, TrimmedKnown, DuplicatesArePaid
<1>2. WritesPaid'
  BY <1>0 DEF Bookkeeping, WritesPaid
<1>3. LostOnlyToCap'
  BY DEF Bookkeeping, BatchKnown, LostOnlyToCap
<1>4. QED BY <1>1, <1>2, <1>3

LEMMA AckInd == IInv /\ Ack => IInv'
<1> SUFFICES ASSUME IInv, Ack PROVE IInv'
  OBVIOUS
<1> USE SinkAssumption DEF IInv, Ack, streamVars
<1>1. TrimmedKnown' /\ WritesPaid' /\ LostOnlyToCap' /\ DuplicatesArePaid'
  BY AckedInd DEF TypeOK
<1>2. TypeOK' /\ BatchKnown'
  BY DEF TypeOK, BatchKnown
<1>3. QED BY <1>1, <1>2 DEF Bookkeeping

\* Forgetting the batch, with one mishap more.
LEMMA ForgottenInd ==
    ASSUME IInv, UNCHANGED <<streamVars, delivered, pending, stored>>,
           faults' \in Nat, crashes' \in Nat,
           1 + faults + crashes = faults' + crashes', pc' = "read"
    PROVE  TrimmedKnown' /\ WritesPaid' /\ LostOnlyToCap' /\ DuplicatesArePaid'
<1> USE SinkAssumption DEF IInv, streamVars
<1>0. /\ \A i \in Samples : stored[i] \in Nat
      /\ faults \in Nat /\ crashes \in Nat
  BY DEF TypeOK
<1>1. TrimmedKnown' /\ LostOnlyToCap'
  BY DEF Bookkeeping, TrimmedKnown, LostOnlyToCap
<1>2. ASSUME NEW i \in Samples
      PROVE  /\ i > delivered => stored[i] = 0
             /\ stored[i] <= faults' + crashes'
  <2> stored[i] \in Nat
    BY <1>0
  <2>1. stored[i] <= 1 + faults + crashes /\ (i > delivered => stored[i] = 0)
    BY DEF Bookkeeping, WritesPaid, DuplicatesArePaid
  <2>2. QED BY <2>1
<1>3. WritesPaid'
  BY <1>2 DEF WritesPaid
<1>4. DuplicatesArePaid'
  BY <1>0, <1>2 DEF DuplicatesArePaid
<1>5. QED BY <1>1, <1>3, <1>4

LEMMA RaisesInd == IInv /\ Raises => IInv'
<1> SUFFICES ASSUME IInv, Raises PROVE IInv'
  OBVIOUS
<1> USE SinkAssumption DEF IInv
<1>0. /\ faults' \in 0..MaxFaults /\ faults' = faults + 1
      /\ faults \in Nat /\ crashes \in Nat /\ faults' \in Nat
      /\ UNCHANGED <<streamVars, crashes>>
      /\ pc' = "read" /\ cursor' = "0" /\ ids' = {} /\ rows' = {}
  BY FaultInd DEF Raises, TypeOK
<1>1. BatchKnown'
  BY <1>0 DEF BatchKnown
<1>2. CASE UNCHANGED <<delivered, pending, stored>>
  <2>1. TrimmedKnown' /\ WritesPaid' /\ LostOnlyToCap' /\ DuplicatesArePaid'
    BY <1>0, <1>2, ForgottenInd
  <2>2. TypeOK'
    BY <1>0, <1>2 DEF TypeOK, streamVars
  <2>3. QED BY <1>1, <2>1, <2>2 DEF Bookkeeping
<1>3. CASE pc = "read" /\ cursor = ">" /\ Deliver /\ UNCHANGED stored
  <2>1. /\ delivered' \in 0..newest' /\ pending' \subseteq 1..delivered'
        /\ TrimmedKnown' /\ WritesPaid' /\ LostOnlyToCap' /\ DuplicatesArePaid'
    BY <1>0, <1>3, DeliveredInd
  <2>2. TypeOK'
    BY <1>0, <1>3, <2>1 DEF TypeOK, streamVars
  <2>3. QED BY <1>1, <2>1, <2>2 DEF Bookkeeping
<1>4. CASE pc = "insert" /\ Store /\ UNCHANGED <<delivered, pending>>
  <2>1. TrimmedKnown' /\ WritesPaid' /\ LostOnlyToCap' /\ DuplicatesArePaid'
    BY <1>0, <1>4, StoredInd
  <2>2. TypeOK'
    BY <1>0, <1>4, StoreInd DEF TypeOK, streamVars
  <2>3. QED BY <1>1, <2>1, <2>2 DEF Bookkeeping
<1>5. CASE pc = "ack" /\ pending' = pending \ ids /\ UNCHANGED <<delivered, stored>>
  <2>1. TrimmedKnown' /\ WritesPaid' /\ LostOnlyToCap' /\ DuplicatesArePaid'
    BY <1>0, <1>5, AckedInd
  <2>2. TypeOK'
    BY <1>0, <1>5 DEF TypeOK, streamVars
  <2>3. QED BY <1>1, <2>1, <2>2 DEF Bookkeeping
<1>6. QED BY <1>2, <1>3, <1>4, <1>5 DEF Raises

LEMMA CrashInd == IInv /\ Crash => IInv'
<1> SUFFICES ASSUME IInv, Crash PROVE IInv'
  OBVIOUS
<1> USE SinkAssumption DEF IInv, Crash
<1>1. TrimmedKnown' /\ WritesPaid' /\ LostOnlyToCap' /\ DuplicatesArePaid'
  BY ForgottenInd DEF TypeOK
<1>2. TypeOK' /\ BatchKnown'
  BY DEF TypeOK, BatchKnown, streamVars
<1>3. QED BY <1>1, <1>2 DEF Bookkeeping

LEMMA RecoveredInd == IInv /\ Recovered => IInv'
<1> SUFFICES ASSUME IInv, Recovered PROVE IInv'
  OBVIOUS
<1> USE DEF IInv, Recovered, streamVars
<1>1. TypeOK'
  BY DEF TypeOK
<1>2. Bookkeeping'
  BY DEF Bookkeeping, TrimmedKnown, BatchKnown, WritesPaid
<1>3. LostOnlyToCap' /\ DuplicatesArePaid'
  BY DEF LostOnlyToCap, DuplicatesArePaid
<1>4. QED BY <1>1, <1>2, <1>3

LEMMA StutterInd == IInv /\ UNCHANGED vars => IInv'
  BY DEF IInv, vars, TypeOK, Bookkeeping, TrimmedKnown, BatchKnown, WritesPaid,
         LostOnlyToCap, DuplicatesArePaid

LEMMA InductiveInvariant == Spec => []IInv
<1>1. IInv /\ [Next]_vars => IInv'
  BY PublishInd, ReadLiveInd, ReadPendingInd, RecoveredInd, InsertInd, AckInd,
     RaisesInd, CrashInd, StutterInd DEF Next, Sink
<1>2. QED BY <1>1, InitInd, PTL DEF Spec

\* The variables keep their types, and the batch in hand is always pending.
THEOREM TypeCorrect == Spec => []TypeOK
<1>1. IInv => TypeOK
  BY DEF IInv
<1>2. QED BY <1>1, InductiveInvariant, PTL

\* Whatever fails or restarts in whatever order, a sample is lost only when the cap
\* of the stream removed it before it was stored (run, _drain_once, insert_batch).
THEOREM OnlyTheCapLoses == Spec => []LostOnlyToCap
<1>1. IInv => LostOnlyToCap
  BY DEF IInv
<1>2. QED BY <1>1, InductiveInvariant, PTL

\* No sample is stored more often than there were failures and restarts, and once.
THEOREM DuplicatesBounded == Spec => []DuplicatesArePaid
<1>1. IInv => DuplicatesArePaid
  BY DEF IInv
<1>2. QED BY <1>1, InductiveInvariant, PTL

-----------------------------------------------------------------------------
(* The stages *)

\* The stage stays, what the signatures compare as well, and a step is one of the stage's
\* module or leaves that alone.
LEMMA StageSteps ==
    ASSUME [TelemetryNext]_telemetryVars
    PROVE  /\ stage' = stage /\ UNCHANGED signaturesVars
           /\ stage = "alarms" => [Alarm!Next]_Alarm!vars
           /\ stage = "detector" => [Detector!Next]_Detector!vars
           /\ stage = "cache" => [Cache!Next]_Cache!vars
           /\ stage = "fleet" => [Fleet!Next]_Fleet!vars
<1>1. CASE TelemetryNext
  <2>1. Elsewhere /\ stage # "signatures"
    BY <1>1 DEF TelemetryNext
  <2>2. stage' = stage /\ UNCHANGED signaturesVars
    BY <2>1 DEF Elsewhere, Still
  <2>3. QED
    BY <1>1, <2>2 DEF TelemetryNext
<1>2. CASE UNCHANGED telemetryVars
  <2>1. /\ UNCHANGED <<stage, open, hand, restarts, errors, form, library, todo, offset, at>>
        /\ UNCHANGED alarmsVars
        /\ UNCHANGED <<detectorVars, signaturesVars, cacheVars, fleetVars>>
    BY <1>2 DEF telemetryVars, diagnosisCacheVars
  <2>2. UNCHANGED Detector!vars
    BY <2>1 DEF Detector!vars, detectorVars
  <2>3. UNCHANGED <<Cache!vars, Fleet!vars>>
    BY <2>1 DEF Cache!vars, Fleet!vars, cacheVars, fleetVars
  <2>4. UNCHANGED Alarm!vars
    BY <2>1 DEF Alarm!vars, Alarm!plantOnly, Alarm!watcherOnly, alarmsVars
  <2>5. QED
    BY <2>1, <2>2, <2>3, <2>4
<1>3. QED
  BY <1>1, <1>2

-----------------------------------------------------------------------------
(* Positions *)

\* The least of some positions: the shortest of the intervals that end at one.
LEMMA LeastPosition ==
  ASSUME NEW n \in Nat, NEW places \in SUBSET (1..n), places # {}
  PROVE  \E k \in places : \A m \in places : k <= m
<1>1. IsFiniteSet(1..n)
  BY FS_Interval
<1>2. IsWellFoundedOn(StrictSubsetOrdering(1..n), SUBSET (1..n))
  BY <1>1, FS_StrictSubsetOrderingWellFounded, FS_FiniteSubsetsOfFinite
<1> DEFINE spans == {1..k : k \in places}
<1>3. spans \subseteq SUBSET (1..n) /\ spans # {}
  <2>1. \A k \in places : 1..k \in SUBSET (1..n)
    OBVIOUS
  <2>2. QED
    BY <2>1
<1>4. PICK s \in spans : \A r \in spans : <<r, s>> \notin StrictSubsetOrdering(1..n)
  <2> HIDE DEF spans
  <2>1. QED
    BY <1>2, <1>3, WFMin
<1>5. PICK k \in places : s = 1..k
  BY <1>4
<1>6. ASSUME NEW m \in places, m < k PROVE FALSE
  <2>1. 1..m \in spans /\ 1..m \subseteq s /\ 1..m # s /\ 1..m \in SUBSET (1..n) /\ s \in SUBSET (1..n)
    BY <1>5, <1>6
  <2>2. <<1..m, s>> \in StrictSubsetOrdering(1..n)
    BY <2>1 DEF StrictSubsetOrdering
  <2>3. QED
    BY <1>4, <2>1, <2>2
<1>7. QED
  BY <1>5, <1>6

-----------------------------------------------------------------------------
(* The answer cache *)

Writing == {"rank", "count", "pop", "evict"}
Putting == {"put"} \cup Writing

\* What the clients share.
CacheShared ==
    /\ graph \in Seq(SUBSET Nodes) /\ offset \in Nat
    /\ entries = [q \in Questions |-> entries[q]]
    /\ lru \in Seq(Questions)
    /\ read \in [Cache!Clients -> Nat]
    /\ doomed \subseteq Questions /\ todo \subseteq Questions
    /\ overtaken \in Nat /\ mishaps \in Nat

\* What each has of its own.
CacheOwn(c) ==
    /\ c = Agents => at[c] \in {"idle", "drop", "unrank", "speculate"} \cup Putting
    /\ c \in Askers => at[c] \in {"idle", "look", "touch", "prepare"} \cup Putting
    /\ at[c] \in {"look", "touch", "prepare"} \cup Putting => about[c] \in Questions
    /\ at[c] \in {"evict", "unrank"} => victim[c] \in Questions

CacheTypes ==
    /\ CacheShared
    /\ at = [c \in Cache!Clients |-> at[c]]
    /\ about = [c \in Cache!Clients |-> about[c]]
    /\ victim = [c \in Cache!Clients |-> victim[c]]
    /\ \A c \in Cache!Clients : CacheOwn(c)

\* A step of one client leaves the others where they were.
Moved(c) ==
    /\ at' = [d \in Cache!Clients |-> at'[d]]
    /\ about' = [d \in Cache!Clients |-> about'[d]]
    /\ victim' = [d \in Cache!Clients |-> victim'[d]]
    /\ \A d \in Cache!Clients \ {c} : at'[d] = at[d] /\ about'[d] = about[d] /\ victim'[d] = victim[d]

\* A removal leaves the last uses of every other entry.
LEMMA UnrankedKeeps ==
  ASSUME NEW q, lru \in Seq(Questions)
  PROVE  /\ Cache!Unranked(q) \in Seq(Questions)
         /\ \A i \in 1..Len(lru) : lru[i] # q =>
               \E j \in 1..Len(Cache!Unranked(q)) : Cache!Unranked(q)[j] = lru[i]
<1>1. CASE ~ \E i \in 1..Len(lru) : lru[i] = q
  BY <1>1 DEF Cache!Unranked, Cache!RemoveFirst
<1>2. CASE \E i \in 1..Len(lru) : lru[i] = q
  <2> DEFINE places == {k \in 1..Len(lru) : lru[k] = q}
  <2>1. Cache!Unranked(q) = Cache!RemoveAt(lru, Cache!Min(places))
    BY <1>2 DEF Cache!Unranked, Cache!RemoveFirst, Cache!SelectInSeq
  <2>2. \E k \in places : \A m \in places : k <= m
    <3>1. places \in SUBSET (1..Len(lru)) /\ places # {} /\ Len(lru) \in Nat
      BY <1>2
    <3> HIDE DEF places
    <3>2. QED
      BY <3>1, LeastPosition, Zenon
  <2>3. Cache!Min(places) \in places
    BY <2>2 DEF Cache!Min
  <2>4. PICK k \in 1..Len(lru) : lru[k] = q /\ Cache!Unranked(q) = SubSeq(lru, 1, k - 1) \o SubSeq(lru, k + 1, Len(lru))
    BY <2>1, <2>3 DEF Cache!RemoveAt
  <2> DEFINE a == SubSeq(lru, 1, k - 1)
             b == SubSeq(lru, k + 1, Len(lru))
  <2>5. /\ a \in Seq(Questions) /\ Len(a) = k - 1 /\ \A i \in 1..(k - 1) : a[i] = lru[i]
        /\ b \in Seq(Questions) /\ Len(b) = Len(lru) - k
        /\ \A i \in 1..(Len(lru) - k) : b[i] = lru[i + k]
    OBVIOUS
  <2> HIDE DEF a, b
  <2>6. /\ a \o b \in Seq(Questions) /\ Len(a \o b) = Len(a) + Len(b)
        /\ \A i \in 1..Len(a) : (a \o b)[i] = a[i]
        /\ \A i \in 1..Len(b) : (a \o b)[i + Len(a)] = b[i]
    <3>1. /\ a \o b \in Seq(Questions) /\ Len(a \o b) = Len(a) + Len(b)
          /\ \A i \in 1 .. Len(a) + Len(b) : (a \o b)[i] = IF i <= Len(a) THEN a[i] ELSE b[i - Len(a)]
      BY <2>5, ConcatProperties
    <3>2. QED
      BY <2>5, <3>1
  <2>7. ASSUME NEW i \in 1..Len(lru), lru[i] # q
        PROVE  \E j \in 1..Len(a \o b) : (a \o b)[j] = lru[i]
    <3>1. CASE i < k
      BY <2>5, <2>6, <3>1
    <3>2. CASE i > k
      <4>1. i - k \in 1..Len(b) /\ b[i - k] = lru[i]
        BY <2>5, <3>2
      <4>2. (a \o b)[i - k + Len(a)] = lru[i] /\ i - k + Len(a) \in 1..Len(a \o b)
        BY <2>5, <2>6, <4>1
      <4>3. QED
        BY <4>2
    <3>3. QED
      BY <2>4, <2>7, <3>1, <3>2
  <2>8. QED
    BY <2>4, <2>6, <2>7 DEF a, b
<1>3. QED
  BY <1>1, <1>2

LEMMA CacheTypesInit == Cache!CacheAssumption /\ Cache!Init => CacheTypes
<1> SUFFICES ASSUME Cache!CacheAssumption, Cache!Init PROVE CacheTypes
  OBVIOUS
<1>1. CacheShared
  BY DEF Cache!Init, CacheShared
<1>2. \A c \in Cache!Clients : at[c] = "idle" /\ CacheOwn(c)
  BY DEF Cache!Init, CacheOwn, Putting, Writing
<1>3. at = [c \in Cache!Clients |-> at[c]] /\ about = [c \in Cache!Clients |-> about[c]] /\ victim = about
  BY DEF Cache!Init
<1>4. QED
  BY <1>1, <1>2, <1>3 DEF CacheTypes

LEMMA TypesStep ==
  ASSUME CacheTypes, CacheShared', NEW c \in Cache!Clients, Moved(c), CacheOwn(c)'
  PROVE  CacheTypes'
<1>1. \A d \in Cache!Clients : CacheOwn(d)'
  BY DEF CacheOwn, Moved, CacheTypes
<1>2. QED
  BY <1>1 DEF CacheTypes, Moved

LEMMA Movement ==
  ASSUME CacheTypes, NEW c \in Cache!Clients, NEW p, Cache!Goto(c, p),
         \/ UNCHANGED about
         \/ \E q : about' = [about EXCEPT ![c] = q],
         \/ UNCHANGED victim
         \/ \E q : victim' = [victim EXCEPT ![c] = q]
  PROVE  Moved(c) /\ at'[c] = p
<1>1. /\ at' = [d \in Cache!Clients |-> at'[d]] /\ at'[c] = p
      /\ \A d \in Cache!Clients \ {c} : at'[d] = at[d]
  BY DEF CacheTypes, Cache!Goto
<1>2. /\ about' = [d \in Cache!Clients |-> about'[d]]
      /\ \A d \in Cache!Clients \ {c} : about'[d] = about[d]
  BY DEF CacheTypes
<1>3. /\ victim' = [d \in Cache!Clients |-> victim'[d]]
      /\ \A d \in Cache!Clients \ {c} : victim'[d] = victim[d]
  BY DEF CacheTypes
<1>4. QED
  BY <1>1, <1>2, <1>3 DEF Moved

LEMMA Placed ==
  ASSUME CacheTypes, NEW c \in Cache!Clients, NEW q
  PROVE  /\ about' = [about EXCEPT ![c] = q] => about'[c] = q
         /\ victim' = [victim EXCEPT ![c] = q] => victim'[c] = q
  BY DEF CacheTypes

LEMMA RestTypes ==
  ASSUME CacheTypes, NEW c \in Cache!Clients, Cache!Rest(c)
  PROVE  Moved(c) /\ at'[c] = "idle" /\ CacheOwn(c)' /\ read' \in [Cache!Clients -> Nat]
         /\ \A d \in Cache!Clients : d # c => read'[d] = read[d]
<1>1. Moved(c) /\ at'[c] = "idle"
  BY Movement DEF Cache!Rest
<1>2. CacheOwn(c)'
  BY <1>1 DEF CacheOwn, Putting, Writing
<1>3. read' \in [Cache!Clients -> Nat] /\ \A d \in Cache!Clients : d # c => read'[d] = read[d]
  BY DEF Cache!Rest, CacheTypes, CacheShared
<1>4. QED
  BY <1>1, <1>2, <1>3

\* The requests' own steps keep the types.
LEMMA AskerTypes ==
  ASSUME Cache!CacheAssumption, CacheTypes, NEW a \in Askers,
         \/ \E q \in Questions : Cache!Ask(a, q)
         \/ Cache!Look(a) \/ Cache!Touch(a) \/ Cache!Prepare(a) \/ Cache!AnswerFails(a)
  PROVE  CacheTypes' /\ Moved(a)
<1>0. a \in Cache!Clients /\ a # Agents
  BY DEF Cache!Clients, Cache!CacheAssumption
<1>a. CacheOwn(a) /\ CacheShared
  BY <1>0 DEF CacheTypes
<1> USE DEF Cache!runtime, Cache!cacheVars
<1>1. ASSUME NEW q \in Questions, Cache!Ask(a, q) PROVE CacheTypes' /\ Moved(a)
  <2>1. Moved(a) /\ at'[a] = "look"
    BY <1>0, <1>1, Movement DEF Cache!Ask
  <2>2. about'[a] = q
    BY <1>0, <1>1, Placed DEF Cache!Ask
  <2>3. CacheOwn(a)'
    BY <1>0, <2>1, <2>2 DEF CacheOwn, Putting, Writing
  <2>4. CacheShared'
    BY <1>a, <1>1 DEF Cache!Ask, CacheShared
  <2>5. QED
    BY <1>0, <2>1, <2>3, <2>4, TypesStep
<1>2. CASE Cache!Look(a)
  <2>1. CacheShared'
    BY <1>a, <1>2 DEF Cache!Look, CacheShared
  <2>2. CASE Cache!Goto(a, "prepare") /\ UNCHANGED about
    <3>1. Moved(a) /\ at'[a] = "prepare" /\ about'[a] = about[a]
      BY <1>0, <1>2, <2>2, Movement DEF Cache!Look
    <3>2. CacheOwn(a)'
      BY <1>0, <1>a, <1>2, <3>1 DEF Cache!Look, CacheOwn, Putting, Writing
    <3>3. QED
      BY <1>0, <2>1, <3>1, <3>2, TypesStep
  <2>3. CASE (\E h \in Cache!Cached : about' = [about EXCEPT ![a] = h]) /\ Cache!Goto(a, "touch")
    <3>1. PICK h \in Questions : about' = [about EXCEPT ![a] = h]
      BY <2>3 DEF Cache!Cached
    <3>2. Moved(a) /\ at'[a] = "touch"
      BY <1>0, <1>2, <2>3, <3>1, Movement DEF Cache!Look
    <3>3. about'[a] = h
      BY <1>0, <3>1, Placed
    <3>4. CacheOwn(a)'
      BY <1>0, <3>2, <3>3 DEF CacheOwn, Putting, Writing
    <3>5. QED
      BY <1>0, <2>1, <3>2, <3>4, TypesStep
  <2>4. QED
    BY <1>2, <2>2, <2>3 DEF Cache!Look
<1>3. CASE Cache!Touch(a)
  <2>1. Cache!Rest(a) /\ lru' = Append(Cache!Unranked(about[a]), about[a]) /\ at[a] = "touch"
    BY <1>3 DEF Cache!Touch
  <2>2. about[a] \in Questions
    BY <1>0, <1>a, <2>1 DEF CacheOwn
  <2>3. lru' \in Seq(Questions)
    BY <1>a, <2>1, <2>2, UnrankedKeeps DEF CacheShared
  <2>4. Moved(a) /\ CacheOwn(a)' /\ read' \in [Cache!Clients -> Nat]
    BY <1>0, <2>1, RestTypes
  <2>5. CacheShared'
    BY <1>a, <1>3, <2>3, <2>4 DEF Cache!Touch, CacheShared
  <2>6. QED
    BY <1>0, <2>4, <2>5, TypesStep
<1>4. CASE Cache!Prepare(a)
  <2>1. Moved(a) /\ at'[a] = "put" /\ about'[a] = about[a]
    BY <1>0, <1>4, Movement DEF Cache!Prepare
  <2>2. CacheOwn(a)'
    BY <1>0, <1>a, <1>4, <2>1 DEF Cache!Prepare, CacheOwn, Putting, Writing
  <2>3. Len(graph) \in Nat /\ read' = [read EXCEPT ![a] = Len(graph)]
    BY <1>4, <1>a DEF Cache!Prepare, Cache!Version, CacheShared
  <2>4. CacheShared'
    BY <1>a, <1>4, <2>3 DEF Cache!Prepare, CacheShared
  <2>5. QED
    BY <1>0, <2>1, <2>2, <2>4, TypesStep
<1>5. CASE Cache!AnswerFails(a)
  <2>1. Moved(a) /\ CacheOwn(a)' /\ read' \in [Cache!Clients -> Nat]
    BY <1>0, <1>5, RestTypes DEF Cache!AnswerFails
  <2>2. CacheShared'
    BY <1>a, <1>5, <2>1 DEF Cache!AnswerFails, CacheShared
  <2>3. QED
    BY <1>0, <2>1, <2>2, TypesStep
<1>6. QED
  BY <1>1, <1>2, <1>3, <1>4, <1>5

\* A put returns: a request rests, the runtime goes back to its questions.
LEMMA ReturnTypes ==
  ASSUME Cache!CacheAssumption, CacheTypes, NEW c \in Cache!Clients, Cache!Return(c)
  PROVE  /\ Moved(c) /\ at'[c] \in {"idle", "speculate"} /\ CacheOwn(c)'
         /\ read' \in [Cache!Clients -> Nat]
         /\ c = Agents => UNCHANGED read /\ at'[c] = "speculate"
         /\ \A d \in Cache!Clients : d # c => read'[d] = read[d]
<1>1. CASE c = Agents
  <2>1. Cache!Goto(c, "speculate") /\ UNCHANGED <<about, read, victim>>
    BY <1>1 DEF Cache!Return, Cache!hand
  <2>2. Moved(c) /\ at'[c] = "speculate"
    BY <2>1, Movement
  <2>3. c \notin Askers /\ CacheOwn(c)'
    BY <1>1, <2>2 DEF CacheOwn, Putting, Writing, Cache!CacheAssumption
  <2>4. QED
    BY <1>1, <2>1, <2>2, <2>3 DEF CacheTypes, CacheShared
<1>2. CASE c # Agents
  <2>1. Cache!Rest(c)
    BY <1>2 DEF Cache!Return
  <2>2. QED
    BY <1>2, <2>1, RestTypes
<1>3. QED
  BY <1>1, <1>2

LEMMA PutTypes ==
  ASSUME Cache!CacheAssumption, CacheTypes, NEW c \in Cache!Clients, Cache!PutStep(c)
  PROVE  CacheTypes' /\ Moved(c)
<1>0. CacheOwn(c) /\ CacheShared
  BY DEF CacheTypes
<1> USE DEF Cache!runtime, Cache!cacheVars, Cache!hand
<1>1. CASE Cache!Put(c)
  <2>1. Moved(c) /\ at'[c] = "rank" /\ about'[c] = about[c]
    BY <1>1, Movement DEF Cache!Put
  <2>2. CacheOwn(c)'
    BY <1>0, <1>1, <2>1 DEF Cache!Put, CacheOwn, Putting, Writing
  <2>3. entries' = [q \in Questions |-> entries'[q]]
    BY <1>0, <1>1 DEF Cache!Put, CacheShared
  <2>4. CacheShared'
    BY <1>0, <1>1, <2>3 DEF Cache!Put, CacheShared
  <2>5. QED
    BY <2>1, <2>2, <2>4, TypesStep
<1>2. CASE Cache!Rank(c)
  <2>1. Moved(c) /\ at'[c] = "count" /\ about'[c] = about[c]
    BY <1>2, Movement DEF Cache!Rank
  <2>2. about[c] \in Questions
    BY <1>0, <1>2 DEF Cache!Rank, CacheOwn, Putting, Writing
  <2>3. CacheOwn(c)'
    BY <1>0, <1>2, <2>1, <2>2 DEF CacheOwn, Putting, Writing
  <2>4. lru' \in Seq(Questions)
    BY <1>0, <1>2, <2>2, UnrankedKeeps DEF Cache!Rank, CacheShared
  <2>5. CacheShared'
    BY <1>0, <1>2, <2>4 DEF Cache!Rank, CacheShared
  <2>6. QED
    BY <2>1, <2>3, <2>5, TypesStep
<1>3. CASE Cache!Count(c)
  <2>1. CASE Cache!Goto(c, "pop") /\ UNCHANGED <<about, read, victim>>
    <3>1. Moved(c) /\ at'[c] = "pop" /\ about'[c] = about[c]
      BY <2>1, Movement
    <3>2. CacheOwn(c)'
      BY <1>0, <1>3, <3>1 DEF Cache!Count, CacheOwn, Putting, Writing
    <3>3. CacheShared'
      BY <1>0, <1>3, <2>1 DEF Cache!Count, CacheShared
    <3>4. QED
      BY <3>1, <3>2, <3>3, TypesStep
  <2>2. CASE Cache!Return(c)
    <3>1. Moved(c) /\ CacheOwn(c)' /\ read' \in [Cache!Clients -> Nat]
      BY <2>2, ReturnTypes
    <3>2. CacheShared'
      BY <1>0, <1>3, <3>1 DEF Cache!Count, CacheShared
    <3>3. QED
      BY <3>1, <3>2, TypesStep
  <2>3. QED
    BY <1>3, <2>1, <2>2 DEF Cache!Count
<1>4. CASE Cache!Pop(c)
  <2>1. CASE lru = <<>>
    <3>1. Cache!Return(c) /\ UNCHANGED lru
      BY <1>4, <2>1 DEF Cache!Pop
    <3>2. Moved(c) /\ CacheOwn(c)' /\ read' \in [Cache!Clients -> Nat]
      BY <3>1, ReturnTypes
    <3>3. CacheShared'
      BY <1>0, <1>4, <3>1, <3>2 DEF Cache!Pop, CacheShared
    <3>4. QED
      BY <3>2, <3>3, TypesStep
  <2>2. CASE lru # <<>>
    <3>1. /\ victim' = [victim EXCEPT ![c] = Head(lru)] /\ lru' = Tail(lru)
          /\ Cache!Goto(c, "evict") /\ UNCHANGED <<about, read>> /\ at[c] = "pop"
      BY <1>4, <2>2 DEF Cache!Pop
    <3>2. Moved(c) /\ at'[c] = "evict" /\ about'[c] = about[c]
      BY <3>1, Movement
    <3>3. victim'[c] = Head(lru)
      BY <3>1, Placed
    <3>4. Head(lru) \in Questions /\ lru' \in Seq(Questions)
      BY <1>0, <2>2, <3>1 DEF CacheShared
    <3>5. CacheOwn(c)'
      BY <1>0, <3>1, <3>2, <3>3, <3>4 DEF CacheOwn, Putting, Writing
    <3>6. CacheShared'
      BY <1>0, <1>4, <3>1, <3>4 DEF Cache!Pop, CacheShared
    <3>7. QED
      BY <3>2, <3>5, <3>6, TypesStep
  <2>3. QED
    BY <2>1, <2>2
<1>5. CASE Cache!Evict(c)
  <2>1. Moved(c) /\ at'[c] = "count" /\ about'[c] = about[c]
    BY <1>5, Movement DEF Cache!Evict
  <2>2. CacheOwn(c)'
    BY <1>0, <1>5, <2>1 DEF Cache!Evict, CacheOwn, Putting, Writing
  <2>3. entries' = [q \in Questions |-> entries'[q]]
    BY <1>0, <1>5 DEF Cache!Evict, CacheShared
  <2>4. CacheShared'
    BY <1>0, <1>5, <2>3 DEF Cache!Evict, CacheShared
  <2>5. QED
    BY <2>1, <2>2, <2>4, TypesStep
<1>6. QED
  BY <1>1, <1>2, <1>3, <1>4, <1>5 DEF Cache!PutStep

LEMMA SweepTypes ==
  ASSUME Cache!CacheAssumption, CacheTypes,
         Cache!Sweep \/ Cache!Drop \/ Cache!Unrank \/ Cache!Investigate \/ Cache!Speculate \/ Cache!Handled
  PROVE  CacheTypes' /\ Moved(Agents)
<1>0. CacheOwn(Agents) /\ CacheShared /\ Agents \in Cache!Clients /\ Agents \notin Askers
  BY DEF CacheTypes, Cache!Clients, Cache!CacheAssumption
<1> USE DEF Cache!runtime, Cache!cacheVars, Cache!hand
<1>1. CASE Cache!Sweep
  <2>1. Moved(Agents) /\ at'[Agents] = "drop"
    BY <1>0, <1>1, Movement DEF Cache!Sweep
  <2>2. CacheOwn(Agents)'
    BY <1>0, <2>1 DEF CacheOwn, Putting, Writing
  <2>3. doomed' \subseteq Questions
    BY <1>1 DEF Cache!Sweep, Cache!Outdated, Cache!Cached
  <2>4. CacheShared'
    BY <1>0, <1>1, <2>3 DEF Cache!Sweep, CacheShared
  <2>5. QED
    BY <1>0, <2>1, <2>2, <2>4, TypesStep
<1>2. CASE Cache!Drop
  <2>1. PICK q \in doomed : /\ entries' = [entries EXCEPT ![q] = NoEntry]
                            /\ doomed' = doomed \ {q}
                            /\ victim' = [victim EXCEPT ![Agents] = q]
    BY <1>2 DEF Cache!Drop
  <2>2. Cache!Goto(Agents, "unrank") /\ UNCHANGED <<graph, offset, todo, lru, about, read, overtaken, mishaps>>
    BY <1>2 DEF Cache!Drop
  <2>3. Moved(Agents) /\ at'[Agents] = "unrank"
    BY <1>0, <2>1, <2>2, Movement
  <2>4. victim'[Agents] = q /\ q \in Questions
    BY <1>0, <2>1, Placed DEF CacheShared
  <2>5. CacheOwn(Agents)'
    BY <1>0, <2>3, <2>4 DEF CacheOwn, Putting, Writing
  <2>6. entries' = [p \in Questions |-> entries'[p]]
    BY <1>0, <2>1 DEF CacheShared
  <2>7. CacheShared'
    BY <1>0, <2>1, <2>2, <2>6 DEF CacheShared
  <2>8. QED
    BY <1>0, <2>3, <2>5, <2>7, TypesStep
<1>3. CASE Cache!Unrank
  <2>1. Moved(Agents) /\ at'[Agents] = "drop"
    BY <1>0, <1>3, Movement DEF Cache!Unrank
  <2>2. CacheOwn(Agents)'
    BY <1>0, <2>1 DEF CacheOwn, Putting, Writing
  <2>3. lru' \in Seq(Questions) /\ overtaken' \in Nat
    BY <1>0, <1>3, UnrankedKeeps DEF Cache!Unrank, CacheShared
  <2>4. CacheShared'
    BY <1>0, <1>3, <2>3 DEF Cache!Unrank, CacheShared
  <2>5. QED
    BY <1>0, <2>1, <2>2, <2>4, TypesStep
<1>4. CASE Cache!Investigate
  <2>1. Moved(Agents) /\ at'[Agents] = "speculate"
    BY <1>0, <1>4, Movement DEF Cache!Investigate
  <2>2. CacheOwn(Agents)'
    BY <1>0, <2>1 DEF CacheOwn, Putting, Writing
  <2>3. read' \in [Cache!Clients -> Nat] /\ todo' \subseteq Questions
    BY <1>0, <1>4 DEF Cache!Investigate, Cache!Version, CacheShared, Cache!CacheAssumption
  <2>4. CacheShared'
    BY <1>0, <1>4, <2>3 DEF Cache!Investigate, CacheShared
  <2>5. QED
    BY <1>0, <2>1, <2>2, <2>4, TypesStep
<1>5. CASE Cache!Speculate
  <2>1. PICK q \in todo : about' = [about EXCEPT ![Agents] = q] /\ todo' = todo \ {q}
    BY <1>5 DEF Cache!Speculate
  <2>2. Moved(Agents) /\ at'[Agents] = "put"
    BY <1>0, <1>5, <2>1, Movement DEF Cache!Speculate
  <2>3. about'[Agents] = q /\ q \in Questions
    BY <1>0, <2>1, Placed DEF CacheShared
  <2>4. CacheOwn(Agents)'
    BY <1>0, <2>2, <2>3 DEF CacheOwn, Putting, Writing
  <2>5. CacheShared'
    BY <1>0, <1>5, <2>1 DEF Cache!Speculate, CacheShared
  <2>6. QED
    BY <1>0, <2>2, <2>4, <2>5, TypesStep
<1>6. CASE Cache!Handled
  <2>1. Moved(Agents) /\ CacheOwn(Agents)' /\ read' \in [Cache!Clients -> Nat]
    BY <1>0, <1>6, RestTypes DEF Cache!Handled
  <2>2. CacheShared'
    BY <1>0, <1>6, <2>1 DEF Cache!Handled, CacheShared
  <2>3. QED
    BY <1>0, <2>1, <2>2, TypesStep
<1>7. QED
  BY <1>1, <1>2, <1>3, <1>4, <1>5, <1>6

LEMMA CacheTypesKeep ==
  ASSUME Cache!CacheAssumption, CacheTypes, [Cache!Next]_Cache!vars
  PROVE  CacheTypes'
<1> USE DEF Cache!runtime, Cache!cacheVars, Cache!hand
<1>1. CASE Cache!Commit
  <2>1. UNCHANGED <<at, about, victim>>
    BY <1>1 DEF Cache!Commit
  <2>2. graph' \in Seq(SUBSET Nodes)
    BY <1>1 DEF Cache!Commit, CacheTypes, CacheShared
  <2>3. CacheShared'
    BY <1>1, <2>2 DEF Cache!Commit, CacheTypes, CacheShared
  <2>4. QED
    BY <2>1, <2>3 DEF CacheTypes, CacheOwn
<1>2. ASSUME NEW c \in Cache!Clients, Cache!Crash(c) PROVE CacheTypes'
  <2>1. Moved(c) /\ CacheOwn(c)' /\ read' \in [Cache!Clients -> Nat]
    BY <1>2, RestTypes DEF Cache!Crash
  <2>2. doomed' \subseteq Questions /\ todo' \subseteq Questions
    BY <1>2 DEF Cache!Crash, CacheTypes, CacheShared
  <2>3. CacheShared'
    BY <1>2, <2>1, <2>2 DEF Cache!Crash, CacheTypes, CacheShared
  <2>4. QED
    BY <2>1, <2>3, TypesStep
<1>3. CASE UNCHANGED Cache!vars
  <2>1. UNCHANGED <<graph, offset, entries, lru, at, about, read, victim, doomed, todo, overtaken, mishaps>>
    BY <1>3 DEF Cache!vars
  <2>2. CacheShared'
    BY <2>1 DEF CacheShared, CacheTypes
  <2>3. QED
    BY <2>1, <2>2 DEF CacheTypes, CacheOwn
<1>4. CASE Cache!Runtime
  <2>1. Agents \in Cache!Clients
    BY DEF Cache!Clients
  <2>2. QED
    BY <1>4, <2>1, SweepTypes, PutTypes DEF Cache!Runtime
<1>5. ASSUME NEW a \in Askers,
             \/ \E q \in Questions : Cache!Ask(a, q)
             \/ Cache!Look(a) \/ Cache!Touch(a) \/ Cache!Prepare(a) \/ Cache!AnswerFails(a) \/ Cache!PutStep(a)
      PROVE  CacheTypes'
  <2>1. a \in Cache!Clients
    BY DEF Cache!Clients
  <2>2. QED
    BY <1>5, <2>1, AskerTypes, PutTypes
<1>6. QED
  BY <1>1, <1>2, <1>3, <1>4, <1>5 DEF Cache!Next

-----------------------------------------------------------------------------
(* No sweep overlooks an answer *)

Answering == {"speculate"} \cup Putting

\* Whom the delta in hand outdates is doomed, or came after the look through the cache.
Condemned ==
    \A q \in Questions : Cache!Stale(q, offset + 1) => q \in doomed \/ offset + 1 <= entries[q].swept

SweepInv ==
    /\ offset <= Len(graph)
    /\ at[Agents] # "idle" => offset < Len(graph) /\ Condemned
    /\ \A q \in Cache!Cached : entries[q].read \in Nat /\ entries[q].swept \in Nat
    /\ Cache!StaleOnlyByRace
    /\ at[Agents] \in Answering => doomed = {} /\ read[Agents] > offset

LEMMA SweepInit == Cache!CacheAssumption /\ Cache!Init => SweepInv
<1> SUFFICES ASSUME Cache!CacheAssumption, Cache!Init PROVE SweepInv
  OBVIOUS
<1>1. offset = 0 /\ graph = <<>> /\ Len(graph) = 0 /\ Cache!Cached = {} /\ at[Agents] = "idle"
  BY DEF Cache!Init, Cache!Cached, Cache!Clients
<1>2. QED
  BY <1>1 DEF SweepInv, Cache!StaleOnlyByRace, Cache!Stale, Answering, Putting, Writing

\* A step that at most removes answers, and spares none the runtime has condemned.
LEMMA RemovalsKeep ==
  ASSUME CacheTypes, SweepInv, UNCHANGED <<graph, offset>>,
         \A q \in Questions : entries'[q] = entries[q] \/ entries'[q] = NoEntry,
         \/ at'[Agents] = "idle"
         \/ /\ at[Agents] # "idle"
            /\ \A q \in doomed : q \in doomed' \/ entries'[q] = NoEntry
            /\ at'[Agents] \in Answering => doomed' = {} /\ read'[Agents] > offset
  PROVE  SweepInv'
<1>1. \A q \in Cache!Cached' : q \in Cache!Cached /\ entries'[q] = entries[q]
  BY DEF Cache!Cached
<1>2. \A q \in Questions : \A n : Cache!Stale(q, n)' => Cache!Stale(q, n) /\ entries'[q] = entries[q]
  BY <1>1 DEF Cache!Stale
<1>3. Cache!StaleOnlyByRace'
  BY <1>2 DEF SweepInv, Cache!StaleOnlyByRace, Cache!Version
<1>4. \A q \in Cache!Cached' : entries'[q].read \in Nat /\ entries'[q].swept \in Nat
  BY <1>1 DEF SweepInv
<1>5. CASE at'[Agents] = "idle"
  BY <1>3, <1>4, <1>5 DEF SweepInv, Answering, Putting, Writing
<1>6. CASE /\ at[Agents] # "idle"
           /\ \A q \in doomed : q \in doomed' \/ entries'[q] = NoEntry
           /\ at'[Agents] \in Answering => doomed' = {} /\ read'[Agents] > offset
  <2>1. ASSUME NEW q \in Questions, Cache!Stale(q, offset + 1)'
        PROVE  q \in doomed' \/ offset + 1 <= entries'[q].swept
    <3>1. Cache!Stale(q, offset + 1) /\ entries'[q] = entries[q] /\ entries'[q] # NoEntry
      BY <1>2, <2>1 DEF Cache!Stale, Cache!Cached
    <3>2. QED
      BY <1>6, <3>1 DEF SweepInv, Condemned
  <2>2. Condemned'
    BY <2>1 DEF Condemned, Cache!Stale
  <2>3. QED
    BY <1>3, <1>4, <1>6, <2>2 DEF SweepInv
<1>7. QED
  BY <1>5, <1>6

LEMMA CommitKeepsSweeps ==
  ASSUME CacheTypes, SweepInv, Cache!Commit
  PROVE  SweepInv'
<1>1. /\ Len(graph') = Len(graph) + 1 /\ Len(graph) \in Nat /\ offset \in Nat
      /\ \A n \in 1..Len(graph) : graph'[n] = graph[n]
      /\ UNCHANGED <<offset, entries, at, doomed, read>>
  BY DEF Cache!Commit, CacheTypes, CacheShared, Cache!runtime, Cache!cacheVars, Cache!hand
<1>2. Cache!Cached' = Cache!Cached
  BY <1>1 DEF Cache!Cached
<1>3. \A q \in Questions : \A n \in 1..Len(graph) : Cache!Stale(q, n)' => Cache!Stale(q, n)
  BY <1>1, <1>2 DEF Cache!Stale
<1>4. Cache!StaleOnlyByRace'
  <2>1. ASSUME NEW q \in Questions, NEW n \in 1..Len(graph'), Cache!Stale(q, n)'
        PROVE  n > offset' \/ n <= entries'[q].swept
    <3>1. CASE n \in 1..Len(graph)
      BY <1>1, <1>3, <2>1, <3>1 DEF SweepInv, Cache!StaleOnlyByRace, Cache!Version
    <3>2. CASE n \notin 1..Len(graph)
      BY <1>1, <2>1, <3>2 DEF SweepInv
    <3>3. QED
      BY <3>1, <3>2
  <2>2. QED
    BY <2>1 DEF Cache!StaleOnlyByRace, Cache!Version
<1>5. at[Agents] # "idle" => Condemned'
  <2>1. ASSUME at[Agents] # "idle", NEW q \in Questions, Cache!Stale(q, offset + 1)'
        PROVE  q \in doomed \/ offset + 1 <= entries[q].swept
    <3>1. offset + 1 \in 1..Len(graph)
      BY <1>1, <2>1 DEF SweepInv
    <3>2. Cache!Stale(q, offset + 1)
      BY <1>1, <1>2, <2>1, <3>1 DEF Cache!Stale
    <3>3. QED
      BY <2>1, <3>2 DEF SweepInv, Condemned
  <2>2. QED
    BY <1>1, <2>1 DEF Condemned, Cache!Stale
<1>6. QED
  BY <1>1, <1>2, <1>4, <1>5 DEF SweepInv

LEMMA PutKeepsSweeps ==
  ASSUME Cache!CacheAssumption, CacheTypes, SweepInv, NEW c \in Cache!Clients, Cache!Put(c)
  PROVE  SweepInv'
<1>a. CacheShared /\ CacheOwn(c)
  BY DEF CacheTypes
<1>b. about[c] \in Questions
  BY <1>a DEF CacheOwn, Cache!Put, Putting
<1>0. /\ offset \in Nat /\ read[c] \in Nat /\ read[Agents] \in Nat
      /\ entries = [q \in Questions |-> entries[q]]
      /\ Len(graph) \in Nat
  BY <1>a DEF CacheShared, Cache!Clients
<1>1. UNCHANGED <<graph, offset, doomed, read>>
  BY DEF Cache!Put, Cache!runtime, Cache!hand
<1>c. PICK new \in Questions : new = about[c]
  BY <1>b
<1>d. PICK sweeps \in Nat : sweeps = IF c = Agents THEN 0 ELSE Cache!Swept
  BY <1>0 DEF Cache!Swept
<1>2. /\ entries'[new] = [cited |-> Cache!CitedBy(c, new), read |-> read[c], swept |-> sweeps]
      /\ \A q \in Questions : q # new => entries'[q] = entries[q]
  BY <1>0, <1>c, <1>d DEF Cache!Put
<1>3. entries'[new].read = read[c] /\ entries'[new].swept = sweeps
  BY <1>2
<1>4. sweeps \in Nat /\ (c # Agents => sweeps >= offset /\ (at[Agents] # "idle" => sweeps = offset + 1))
  BY <1>0, <1>d DEF Cache!Swept
<1>5. c = Agents => at[Agents] = "put" /\ read[c] > offset
  BY DEF Cache!Put, SweepInv, Answering, Putting
<1>7. \A q \in Questions : q # new => (q \in Cache!Cached' <=> q \in Cache!Cached)
  BY <1>2 DEF Cache!Cached
<1>8. \A q \in Questions : \A n : q # new /\ Cache!Stale(q, n)' => Cache!Stale(q, n)
  BY <1>1, <1>2, <1>7 DEF Cache!Stale
<1>9. \A q \in Cache!Cached' : entries'[q].read \in Nat /\ entries'[q].swept \in Nat
  <2>1. TAKE q \in Cache!Cached'
  <2>2. q \in Questions
    BY DEF Cache!Cached
  <2>3. CASE q = new
    BY <1>0, <1>3, <1>4, <2>3
  <2>4. CASE q # new
    BY <1>2, <1>7, <2>2, <2>4 DEF SweepInv
  <2>5. QED
    BY <2>3, <2>4
<1>10. \A n \in Nat : Cache!Stale(new, n)' => n > read[c]
  BY <1>3 DEF Cache!Stale
<1>11. Cache!StaleOnlyByRace'
  <2>1. ASSUME NEW q \in Questions, NEW n \in 1..Len(graph'), Cache!Stale(q, n)'
        PROVE  n > offset' \/ n <= entries'[q].swept
    <3>1. CASE q = new
      BY <1>0, <1>1, <1>3, <1>4, <1>5, <1>10, <2>1, <3>1
    <3>2. CASE q # new
      BY <1>1, <1>2, <1>8, <2>1, <3>2 DEF SweepInv, Cache!StaleOnlyByRace, Cache!Version
    <3>3. QED
      BY <3>1, <3>2
  <2>2. QED
    BY <2>1 DEF Cache!StaleOnlyByRace, Cache!Version
<1>12. ASSUME at[Agents] # "idle" PROVE Condemned'
  <2>1. ASSUME NEW q \in Questions, Cache!Stale(q, offset + 1)'
        PROVE  q \in doomed \/ offset + 1 <= entries'[q].swept
    <3>1. CASE q = new
      <4>1. offset + 1 > read[c]
        BY <1>1, <1>3, <2>1, <3>1 DEF Cache!Stale
      <4>2. QED
        BY <1>0, <1>3, <1>4, <1>5, <1>12, <3>1, <4>1
    <3>2. CASE q # new
      <4>1. Cache!Stale(q, offset + 1)
        BY <1>1, <1>2, <1>7, <2>1, <3>2 DEF Cache!Stale
      <4>2. QED
        BY <1>2, <1>12, <3>2, <4>1 DEF SweepInv, Condemned
    <3>3. QED
      BY <3>1, <3>2
  <2>2. QED
    BY <1>1, <2>1 DEF Condemned, Cache!Stale
<1>13. Moved(c) /\ at'[c] = "rank"
  BY Movement DEF Cache!Put, Cache!hand
<1>14. /\ at'[Agents] # "idle" => at[Agents] # "idle"
       /\ at'[Agents] \in Answering => at[Agents] \in Answering
  <2>1. CASE c = Agents
    BY <1>5, <2>1 DEF Answering, Putting
  <2>2. CASE c # Agents
    BY <1>13, <2>2 DEF Moved, Cache!Clients
  <2>3. QED
    BY <2>1, <2>2
<1>15. QED
  BY <1>1, <1>9, <1>11, <1>12, <1>14 DEF SweepInv

\* The delta is handled: of what it outdates, nothing is left that came before the sweep.
LEMMA HandledKeepsSweeps ==
  ASSUME Cache!CacheAssumption, CacheTypes, SweepInv, Cache!Handled
  PROVE  SweepInv'
<1>0. Agents \in Cache!Clients /\ offset \in Nat /\ Len(graph) \in Nat
  BY DEF Cache!Clients, CacheTypes, CacheShared
<1>1. /\ offset' = offset + 1 /\ UNCHANGED <<graph, entries, doomed>> /\ at'[Agents] = "idle"
  BY <1>0, RestTypes DEF Cache!Handled, Cache!cacheVars
<1>2. at[Agents] # "idle" /\ doomed = {} /\ offset < Len(graph) /\ Condemned
  BY DEF Cache!Handled, Cache!BetweenTriggers, SweepInv, Answering
<1>3. Cache!Cached' = Cache!Cached
  BY <1>1 DEF Cache!Cached
<1>4. \A q \in Questions : \A n : Cache!Stale(q, n)' => Cache!Stale(q, n)
  BY <1>1, <1>3 DEF Cache!Stale
<1>5. Cache!StaleOnlyByRace'
  <2>1. ASSUME NEW q \in Questions, NEW n \in 1..Len(graph), Cache!Stale(q, n)
        PROVE  n > offset + 1 \/ n <= entries[q].swept
    <3>1. n > offset \/ n <= entries[q].swept
      BY <2>1 DEF SweepInv, Cache!StaleOnlyByRace, Cache!Version
    <3>2. n = offset + 1 => n <= entries[q].swept
      BY <1>2, <2>1 DEF Condemned
    <3>3. QED
      BY <1>0, <3>1, <3>2
  <2>2. QED
    BY <1>1, <1>4, <2>1 DEF Cache!StaleOnlyByRace, Cache!Version
<1>6. QED
  BY <1>0, <1>1, <1>2, <1>3, <1>5 DEF SweepInv, Answering, Putting, Writing

\* The look through the cache condemns every answer the delta outdates.
LEMMA SweepKeepsSweeps ==
  ASSUME Cache!CacheAssumption, CacheTypes, SweepInv, Cache!Sweep
  PROVE  SweepInv'
<1>0. Agents \in Cache!Clients /\ offset \in Nat /\ Len(graph) \in Nat
  BY DEF Cache!Clients, CacheTypes, CacheShared
<1>1. /\ offset < Len(graph) /\ doomed' = Cache!Outdated(offset + 1)
      /\ UNCHANGED <<offset, graph, entries, read>> /\ at'[Agents] = "drop"
  BY <1>0, Movement DEF Cache!Sweep, Cache!cacheVars, Cache!hand, Cache!Version
<1>2. Cache!Cached' = Cache!Cached
  BY <1>1 DEF Cache!Cached
<1>3. \A q \in Questions : \A n : Cache!Stale(q, n)' => Cache!Stale(q, n)
  BY <1>1, <1>2 DEF Cache!Stale
<1>4. Cache!StaleOnlyByRace'
  BY <1>1, <1>3 DEF SweepInv, Cache!StaleOnlyByRace, Cache!Version
<1>5. Condemned'
  BY <1>1, <1>2 DEF Condemned, Cache!Stale, Cache!Outdated
<1>6. QED
  BY <1>0, <1>1, <1>2, <1>4, <1>5 DEF SweepInv, Answering, Putting, Writing

LEMMA OtherSweeps ==
  ASSUME Cache!CacheAssumption, CacheTypes, SweepInv,
         Cache!Drop \/ Cache!Unrank \/ Cache!Investigate \/ Cache!Speculate
  PROVE  SweepInv'
<1>0. Agents \in Cache!Clients /\ CacheShared
  BY DEF Cache!Clients, CacheTypes
<1> USE DEF Cache!runtime, Cache!cacheVars, Cache!hand
<1>1. CASE Cache!Drop
  <2>1. /\ at[Agents] = "drop" /\ at'[Agents] = "unrank" /\ UNCHANGED <<graph, offset>>
        /\ \E q \in doomed : entries' = [entries EXCEPT ![q] = NoEntry] /\ doomed' = doomed \ {q}
    <3>1. /\ at[Agents] = "drop" /\ UNCHANGED <<graph, offset>> /\ Cache!Goto(Agents, "unrank") /\ UNCHANGED about
          /\ \E q \in doomed : entries' = [entries EXCEPT ![q] = NoEntry] /\ doomed' = doomed \ {q}
          /\ \E q : victim' = [victim EXCEPT ![Agents] = q]
      BY <1>1 DEF Cache!Drop
    <3>2. QED
      BY <1>0, <3>1, Movement
  <2>2. /\ \A q \in Questions : entries'[q] = entries[q] \/ entries'[q] = NoEntry
        /\ \A q \in doomed : q \in doomed' \/ entries'[q] = NoEntry
    BY <1>0, <2>1 DEF CacheShared
  <2>3. QED
    BY <2>1, <2>2, RemovalsKeep DEF Answering, Putting, Writing
<1>2. CASE Cache!Unrank
  <2>1. at[Agents] = "unrank" /\ at'[Agents] = "drop" /\ UNCHANGED <<graph, offset, entries, doomed>>
    BY <1>0, <1>2, Movement DEF Cache!Unrank
  <2>2. QED
    BY <2>1, RemovalsKeep DEF Answering, Putting, Writing
<1>3. CASE Cache!Investigate
  <2>1. /\ at'[Agents] = "speculate" /\ UNCHANGED <<graph, offset, entries, doomed>>
        /\ read'[Agents] = Len(graph)
    BY <1>0, <1>3, Movement DEF Cache!Investigate, Cache!Version, CacheShared
  <2>2. at[Agents] # "idle" /\ doomed = {} /\ offset < Len(graph)
    BY <1>3 DEF Cache!Investigate, Cache!BetweenTriggers, SweepInv, Answering
  <2>3. Len(graph) > offset
    BY <1>0, <2>2 DEF CacheShared
  <2>4. QED
    BY <2>1, <2>2, <2>3, RemovalsKeep
<1>4. CASE Cache!Speculate
  <2>1. /\ at[Agents] = "speculate" /\ UNCHANGED <<graph, offset, entries, doomed, read>>
    BY <1>4 DEF Cache!Speculate
  <2>2. doomed = {} /\ read[Agents] > offset
    BY <2>1 DEF SweepInv, Answering
  <2>3. QED
    BY <2>1, <2>2, RemovalsKeep
<1>5. QED
  BY <1>1, <1>2, <1>3, <1>4

\* The writing of an answer, once it is put, and a request before it puts one.
LEMMA WritingKeepsSweeps ==
  ASSUME Cache!CacheAssumption, CacheTypes, SweepInv, NEW c \in Cache!Clients,
         \/ Cache!Rank(c) \/ Cache!Count(c) \/ Cache!Pop(c) \/ Cache!Evict(c)
         \/ c \in Askers /\ \/ \E q \in Questions : Cache!Ask(c, q)
                            \/ Cache!Look(c) \/ Cache!Touch(c) \/ Cache!Prepare(c) \/ Cache!AnswerFails(c)
  PROVE  SweepInv'
<1> USE DEF Cache!runtime, Cache!cacheVars, Cache!hand
<1>0. Agents \in Cache!Clients /\ CacheShared /\ Agents \notin Askers
  BY DEF Cache!Clients, CacheTypes, Cache!CacheAssumption
<1>1. UNCHANGED <<graph, offset, doomed>>
  BY DEF Cache!Rank, Cache!Count, Cache!Pop, Cache!Evict, Cache!Ask, Cache!Look, Cache!Touch,
         Cache!Prepare, Cache!AnswerFails
<1>2. \A q \in Questions : entries'[q] = entries[q] \/ entries'[q] = NoEntry
  <2>1. UNCHANGED entries \/ \E v : entries' = [entries EXCEPT ![v] = NoEntry]
    BY DEF Cache!Rank, Cache!Count, Cache!Pop, Cache!Evict, Cache!Ask, Cache!Look, Cache!Touch,
           Cache!Prepare, Cache!AnswerFails
  <2>2. QED
    BY <1>0, <2>1 DEF CacheShared
<1>3. Moved(c)
  BY PutTypes, AskerTypes DEF Cache!PutStep
<1>4. CASE c # Agents
  <2>1. at'[Agents] = at[Agents]
    BY <1>0, <1>3, <1>4 DEF Moved
  <2>2. read'[Agents] = read[Agents]
    <3>1. ASSUME Cache!Rest(c) PROVE read'[Agents] = read[Agents]
      BY <1>0, <1>4, <3>1, RestTypes
    <3>2. UNCHANGED read \/ Cache!Rest(c) \/ \E n : read' = [read EXCEPT ![c] = n]
      BY <1>4 DEF Cache!Rank, Cache!Count, Cache!Pop, Cache!Evict, Cache!Ask, Cache!Look, Cache!Touch,
           Cache!Prepare, Cache!AnswerFails, Cache!Return
    <3>3. QED
      BY <1>0, <1>4, <3>1, <3>2 DEF CacheShared
  <2>3. QED
    <3>1. CASE at[Agents] = "idle"
      BY <1>1, <1>2, <2>1, <3>1, RemovalsKeep
    <3>2. CASE at[Agents] # "idle"
      <4>1. at'[Agents] \in Answering => doomed' = {} /\ read'[Agents] > offset
        BY <1>1, <2>1, <2>2 DEF SweepInv
      <4>2. QED
        BY <1>1, <1>2, <3>2, <4>1, RemovalsKeep
    <3>3. QED
      BY <3>1, <3>2
<1>5. CASE c = Agents
  <2>1. at[Agents] \in Answering /\ at[Agents] # "idle" /\ UNCHANGED read
    BY <1>0, <1>5 DEF Cache!Rank, Cache!Count, Cache!Pop, Cache!Evict, Cache!Return, Answering, Putting, Writing
  <2>2. doomed = {} /\ read[Agents] > offset
    BY <2>1 DEF SweepInv
  <2>3. QED
    BY <1>1, <1>2, <2>1, <2>2, RemovalsKeep
<1>6. QED
  BY <1>4, <1>5

LEMMA CrashKeepsSweeps ==
  ASSUME Cache!CacheAssumption, CacheTypes, SweepInv, NEW c \in Cache!Clients, Cache!Crash(c)
  PROVE  SweepInv'
<1>0. Agents \in Cache!Clients /\ UNCHANGED <<graph, offset, entries>>
  BY DEF Cache!Clients, Cache!Crash, Cache!cacheVars
<1>1. Moved(c) /\ at'[c] = "idle" /\ \A d \in Cache!Clients : d # c => read'[d] = read[d]
  BY RestTypes DEF Cache!Crash
<1>2. CASE c = Agents
  BY <1>0, <1>1, <1>2, RemovalsKeep
<1>3. CASE c # Agents
  <2>1. at'[Agents] = at[Agents] /\ read'[Agents] = read[Agents] /\ UNCHANGED doomed
    BY <1>0, <1>1, <1>3 DEF Moved, Cache!Crash
  <2>2. at'[Agents] \in Answering => doomed' = {} /\ read'[Agents] > offset
    BY <2>1 DEF SweepInv
  <2>3. QED
    BY <1>0, <2>1, <2>2, RemovalsKeep
<1>4. QED
  BY <1>2, <1>3

LEMMA SweepKeep ==
  ASSUME Cache!CacheAssumption, CacheTypes, SweepInv, [Cache!Next]_Cache!vars
  PROVE  SweepInv'
<1>0. Agents \in Cache!Clients /\ Askers \subseteq Cache!Clients
  BY DEF Cache!Clients
<1>1. CASE UNCHANGED Cache!vars
  BY <1>1 DEF Cache!vars, SweepInv, Condemned, Cache!StaleOnlyByRace, Cache!Stale, Cache!Cached, Cache!Version
<1>2. CASE Cache!Runtime
  BY <1>0, <1>2, SweepKeepsSweeps, HandledKeepsSweeps, OtherSweeps, PutKeepsSweeps, WritingKeepsSweeps
     DEF Cache!Runtime, Cache!PutStep
<1>3. ASSUME NEW a \in Askers,
             \/ \E q \in Questions : Cache!Ask(a, q)
             \/ Cache!Look(a) \/ Cache!Touch(a) \/ Cache!Prepare(a) \/ Cache!AnswerFails(a) \/ Cache!PutStep(a)
      PROVE  SweepInv'
  BY <1>0, <1>3, PutKeepsSweeps, WritingKeepsSweeps DEF Cache!PutStep
<1>4. QED
  BY <1>1, <1>2, <1>3, CommitKeepsSweeps, CrashKeepsSweeps DEF Cache!Next

-----------------------------------------------------------------------------
(* The cap, and what it is exceeded by *)

Ranked == {lru[i] : i \in 1..Len(lru)}

\* A pop will find this answer, or it is about to be ranked, or about to go.
Holds(c, q) ==
    \/ at[c] = "rank" /\ about[c] = q
    \/ at[c] = "evict" /\ victim[c] = q
Covered(q) == q \in Ranked \/ \E c \in Cache!Clients : Holds(c, q)
Orphans == {q \in Cache!Cached : ~ Covered(q)}

InFlight == {c \in Cache!Clients : at[c] \in Writing}

CapInv ==
    /\ IsFiniteSet(Cache!Cached) /\ IsFiniteSet(InFlight)
    /\ Cardinality(Cache!Cached) <= MaxEntries + Cardinality(InFlight) + overtaken + mishaps
    /\ Cardinality(Orphans) <= overtaken + mishaps

LEMMA CapInit == Cache!CacheAssumption /\ Cache!Init => CapInv
<1> SUFFICES ASSUME Cache!CacheAssumption, Cache!Init PROVE CapInv
  OBVIOUS
<1>1. Cache!Cached = {} /\ overtaken = 0 /\ mishaps = 0 /\ \A c \in Cache!Clients : at[c] = "idle"
  BY DEF Cache!Init, Cache!Cached
<1>2. InFlight = {} /\ Orphans = {}
  BY <1>1 DEF InFlight, Orphans, Writing
<1>3. QED
  BY <1>1, <1>2, FS_EmptySet DEF CapInv, Cache!CacheAssumption

\* A use puts an answer last and leaves the others ranked.
LEMMA Reranked ==
  ASSUME lru \in Seq(Questions), NEW q \in Questions, lru' = Append(Cache!Unranked(q), q)
  PROVE  Ranked \subseteq Ranked' /\ q \in Ranked'
<1> DEFINE rest == Cache!Unranked(q)
<1>1. /\ rest \in Seq(Questions)
      /\ \A i \in 1..Len(lru) : lru[i] # q => \E j \in 1..Len(rest) : rest[j] = lru[i]
  BY UnrankedKeeps
<1> HIDE DEF rest
<1>2. /\ Len(lru') = Len(rest) + 1 /\ Len(rest) \in Nat /\ lru'[Len(rest) + 1] = q
      /\ \A j \in 1..Len(rest) : lru'[j] = rest[j]
  <2>1. lru' = Append(rest, q)
    BY DEF rest
  <2>2. QED
    BY <1>1, <2>1
<1>3. q \in Ranked'
  BY <1>2 DEF Ranked
<1>4. ASSUME NEW i \in 1..Len(lru) PROVE lru[i] \in Ranked'
  <2>1. CASE lru[i] = q
    BY <1>3, <2>1
  <2>2. CASE lru[i] # q
    <3>1. PICK j \in 1..Len(rest) : rest[j] = lru[i]
      BY <1>1, <2>2
    <3>2. j \in 1..Len(lru') /\ lru'[j] = lru[i]
      BY <1>2, <3>1
    <3>3. QED
      BY <3>2 DEF Ranked
  <2>3. QED
    BY <2>1, <2>2
<1>5. QED
  BY <1>3, <1>4 DEF Ranked

\* A step of c orphans none but the lost.
LEMMA OrphansOf ==
  ASSUME NEW c \in Cache!Clients, Moved(c), NEW lost,
         \A q \in Cache!Cached' \ lost :
             /\ q \in Cache!Cached \/ Covered(q)'
             /\ q \in Ranked => Covered(q)'
             /\ Holds(c, q) => Covered(q)'
  PROVE  Orphans' \subseteq Orphans \cup lost
<1>1. ASSUME NEW q \in Orphans', q \notin lost PROVE q \in Orphans
  <2>1. q \in Cache!Cached' /\ ~ Covered(q)'
    BY DEF Orphans
  <2>2. q \in Cache!Cached /\ q \notin Ranked /\ ~ Holds(c, q)
    BY <1>1, <2>1
  <2>3. ASSUME NEW d \in Cache!Clients, Holds(d, q) PROVE FALSE
    <3>1. d # c
      BY <2>2, <2>3
    <3>2. Holds(d, q)'
      BY <2>3, <3>1 DEF Moved, Holds
    <3>3. Covered(q)'
      BY <3>2 DEF Covered
    <3>4. QED
      BY <2>1, <3>3
  <2>4. QED
    BY <2>2, <2>3 DEF Orphans, Covered
<1>2. QED
  BY <1>1

LEMMA FlightOf ==
  ASSUME NEW c \in Cache!Clients, Moved(c)
  PROVE  /\ (at[c] \in Writing <=> at'[c] \in Writing) => InFlight' = InFlight
         /\ at[c] \notin Writing /\ at'[c] \in Writing => InFlight' = InFlight \cup {c} /\ c \notin InFlight
         /\ at[c] \in Writing /\ at'[c] \notin Writing => InFlight' = InFlight \ {c} /\ c \in InFlight
  BY DEF Moved, InFlight

\* With no answer more, none orphaned and as many at work, the cap stands as it did.
LEMMA CapStands ==
  ASSUME Cache!CacheAssumption, CapInv, CacheTypes, UNCHANGED <<overtaken, mishaps>>,
         Cache!Cached' \subseteq Cache!Cached, InFlight' = InFlight, Orphans' \subseteq Orphans
  PROVE  CapInv'
<1>1. IsFiniteSet(Orphans) /\ Cardinality(Orphans) \in Nat
  BY FS_Subset, FS_CardinalityType DEF CapInv, Orphans
<1>2. Cardinality(Orphans') <= Cardinality(Orphans) /\ Cardinality(Orphans') \in Nat
  BY <1>1, FS_Subset, FS_CardinalityType
<1>3. /\ IsFiniteSet(Cache!Cached') /\ Cardinality(Cache!Cached') <= Cardinality(Cache!Cached)
      /\ Cardinality(Cache!Cached') \in Nat /\ Cardinality(Cache!Cached) \in Nat
  BY FS_Subset, FS_CardinalityType DEF CapInv
<1>4. Cardinality(InFlight) \in Nat /\ overtaken \in Nat /\ mishaps \in Nat
  BY FS_CardinalityType DEF CapInv, CacheTypes, CacheShared
<1>5. IsFiniteSet(InFlight) /\ MaxEntries \in Nat
  BY DEF CapInv, Cache!CacheAssumption
<1>6. Cardinality(Cache!Cached') <= MaxEntries + Cardinality(InFlight) + overtaken + mishaps
  BY <1>3, <1>4, <1>5 DEF CapInv
<1>7. Cardinality(Orphans') <= overtaken + mishaps
  BY <1>1, <1>2, <1>4 DEF CapInv
<1>8. QED
  BY <1>3, <1>5, <1>6, <1>7 DEF CapInv

\* With nothing ranked, every answer is an orphan or in the hands of a client at work; the one
\* that found nothing to pop holds none.
LEMMA NothingRanked ==
  ASSUME CapInv, CacheTypes, lru = <<>>, NEW c \in Cache!Clients, at[c] = "pop"
  PROVE  Cardinality(Cache!Cached) + 1 <= Cardinality(InFlight) + overtaken + mishaps
<1> DEFINE busy == {d \in Cache!Clients : at[d] \in {"rank", "evict"}}
           held == [d \in busy |-> IF at[d] = "rank" THEN about[d] ELSE victim[d]]
           things == {held[d] : d \in busy}
<1>1. busy \subseteq InFlight \ {c} /\ c \in InFlight /\ IsFiniteSet(InFlight)
  BY DEF InFlight, Writing, CapInv
<1>2. IsFiniteSet(InFlight \ {c}) /\ Cardinality(InFlight \ {c}) = Cardinality(InFlight) - 1
      /\ Cardinality(InFlight) \in Nat /\ Cardinality(InFlight \ {c}) \in Nat
  BY <1>1, FS_RemoveElement, FS_CardinalityType
<1>3. IsFiniteSet(busy) /\ Cardinality(busy) <= Cardinality(InFlight) - 1 /\ Cardinality(busy) \in Nat
  BY <1>1, <1>2, FS_Subset, FS_CardinalityType
<1>4. held \in Surjection(busy, things)
  BY DEF Surjection
<1>5. Cache!Cached \subseteq Orphans \cup things
  <2>1. ASSUME NEW q \in Cache!Cached, q \notin Orphans PROVE q \in things
    <3>1. q \notin Ranked
      BY DEF Ranked
    <3>2. PICK d \in Cache!Clients : Holds(d, q)
      BY <2>1, <3>1 DEF Orphans, Covered
    <3>3. d \in busy /\ held[d] = q
      BY <3>2 DEF Holds
    <3>4. QED
      BY <3>3
  <2>2. QED
    BY <2>1
<1> HIDE DEF busy, held, things
<1>6. IsFiniteSet(things) /\ Cardinality(things) <= Cardinality(busy) /\ Cardinality(things) \in Nat
  BY <1>3, <1>4, FS_Surjection, FS_CardinalityType
<1>7. IsFiniteSet(Orphans) /\ Cardinality(Orphans) \in Nat /\ Cardinality(Orphans) <= overtaken + mishaps
  BY FS_Subset, FS_CardinalityType DEF CapInv, Orphans
<1>8. /\ IsFiniteSet(Orphans \cup things) /\ IsFiniteSet(Orphans \cap things)
      /\ Cardinality(Orphans \cup things) = Cardinality(Orphans) + Cardinality(things) - Cardinality(Orphans \cap things)
  BY <1>6, <1>7, FS_Union, FS_Intersection
<1>9. Cardinality(Orphans \cap things) \in Nat /\ Cardinality(Orphans \cup things) \in Nat
  BY <1>8, FS_CardinalityType
<1>10. Cardinality(Cache!Cached) <= Cardinality(Orphans \cup things) /\ Cardinality(Cache!Cached) \in Nat
  BY <1>5, <1>8, FS_Subset, FS_CardinalityType DEF CapInv
<1>11. overtaken \in Nat /\ mishaps \in Nat
  BY DEF CacheTypes, CacheShared
<1>12. QED
  BY <1>2, <1>3, <1>6, <1>7, <1>8, <1>9, <1>10, <1>11, SMTT(20)

\* A request before it has an answer.
LEMMA AskerKeepsCap ==
  ASSUME Cache!CacheAssumption, CacheTypes, CapInv, NEW a \in Askers,
         \/ \E q \in Questions : Cache!Ask(a, q)
         \/ Cache!Look(a) \/ Cache!Touch(a) \/ Cache!Prepare(a) \/ Cache!AnswerFails(a)
  PROVE  CapInv'
<1>0. a \in Cache!Clients /\ CacheOwn(a) /\ CacheShared
  BY DEF Cache!Clients, CacheTypes
<1>1. UNCHANGED <<entries, overtaken, mishaps>> /\ at[a] \notin Writing
  BY DEF Cache!Ask, Cache!Look, Cache!Touch, Cache!Prepare, Cache!AnswerFails, Cache!cacheVars, Writing
<1>2. Moved(a)
  BY AskerTypes
<1>3. at'[a] \notin Writing
  <2>1. ASSUME Cache!Rest(a) PROVE at'[a] \notin Writing
    BY <1>0, <2>1, RestTypes DEF Writing
  <2>2. Cache!Rest(a) \/ \E p \in {"look", "touch", "prepare", "put"} : Cache!Goto(a, p)
    BY DEF Cache!Ask, Cache!Look, Cache!Touch, Cache!Prepare, Cache!AnswerFails
  <2>3. QED
    BY <1>0, <2>1, <2>2 DEF Cache!Goto, CacheTypes, Writing
<1>4. Ranked \subseteq Ranked'
  <2>1. CASE UNCHANGED lru
    BY <2>1 DEF Ranked
  <2>2. CASE Cache!Touch(a)
    BY <1>0, <2>2, Reranked DEF Cache!Touch, CacheOwn, CacheShared
  <2>3. QED
    BY <2>1, <2>2 DEF Cache!Ask, Cache!Look, Cache!Prepare, Cache!AnswerFails, Cache!cacheVars
<1>5. Cache!Cached' = Cache!Cached
  BY <1>1 DEF Cache!Cached
<1>6. \A q \in Cache!Cached' \ {} : /\ q \in Cache!Cached \/ Covered(q)'
                                    /\ q \in Ranked => Covered(q)'
                                    /\ Holds(a, q) => Covered(q)'
  BY <1>1, <1>4, <1>5 DEF Covered, Holds, Writing
<1>7. Orphans' \subseteq Orphans \cup {}
  BY <1>0, <1>2, <1>6, OrphansOf
<1>8. InFlight' = InFlight
  BY <1>0, <1>1, <1>2, <1>3, FlightOf
<1>9. QED
  BY <1>1, <1>5, <1>7, <1>8, CapStands

LEMMA PutKeepsCap ==
  ASSUME Cache!CacheAssumption, CacheTypes, CapInv, NEW c \in Cache!Clients, Cache!Put(c)
  PROVE  CapInv'
<1>1. /\ at[c] = "put" /\ UNCHANGED <<lru, about, overtaken, mishaps>>
      /\ Moved(c) /\ at'[c] = "rank"
  BY Movement DEF Cache!Put, Cache!hand
<1>a. PICK new : new = about[c]
  OBVIOUS
<1>2. Cache!Cached' \subseteq Cache!Cached \cup {new}
  BY <1>a DEF Cache!Put, Cache!Cached, CacheTypes, CacheShared
<1>3. Covered(new)'
  BY <1>a, <1>1 DEF Covered, Holds
<1>4. \A q \in Cache!Cached' \ {} : /\ q \in Cache!Cached \/ Covered(q)'
                                    /\ q \in Ranked => Covered(q)'
                                    /\ Holds(c, q) => Covered(q)'
  BY <1>1, <1>2, <1>3 DEF Covered, Holds, Ranked
<1>5. Orphans' \subseteq Orphans \cup {}
  BY <1>1, <1>4, OrphansOf
<1>6. InFlight' = InFlight \cup {c} /\ c \notin InFlight
  BY <1>1, FlightOf DEF Writing
<1>b. IsFiniteSet(Cache!Cached) /\ Cardinality(Cache!Cached) \in Nat
  BY FS_CardinalityType DEF CapInv
<1>7. /\ IsFiniteSet(Cache!Cached \cup {new})
      /\ Cardinality(Cache!Cached \cup {new}) <= Cardinality(Cache!Cached) + 1
      /\ Cardinality(Cache!Cached) \in Nat /\ Cardinality(Cache!Cached \cup {new}) \in Nat
  <2>1. /\ IsFiniteSet(Cache!Cached \cup {new})
        /\ Cardinality(Cache!Cached \cup {new}) = IF new \in Cache!Cached THEN Cardinality(Cache!Cached)
                                                  ELSE Cardinality(Cache!Cached) + 1
    BY <1>b, FS_AddElement
  <2>2. QED
    BY <1>b, <2>1
<1>8. IsFiniteSet(Cache!Cached') /\ Cardinality(Cache!Cached') <= Cardinality(Cache!Cached) + 1
      /\ Cardinality(Cache!Cached') \in Nat
  BY <1>2, <1>7, FS_Subset, FS_CardinalityType
<1>9. IsFiniteSet(InFlight') /\ Cardinality(InFlight') = Cardinality(InFlight) + 1 /\ Cardinality(InFlight) \in Nat
  BY <1>6, FS_AddElement, FS_CardinalityType DEF CapInv
<1>10. Cardinality(Orphans') <= Cardinality(Orphans) /\ Cardinality(Orphans') \in Nat /\ Cardinality(Orphans) \in Nat
  BY <1>5, FS_Subset, FS_CardinalityType DEF CapInv, Orphans
<1>11. overtaken \in Nat /\ mishaps \in Nat /\ MaxEntries \in Nat
  BY DEF CacheTypes, CacheShared, Cache!CacheAssumption
<1>12. Cardinality(Cache!Cached') <= MaxEntries + Cardinality(InFlight') + overtaken + mishaps
  BY <1>7, <1>8, <1>9, <1>11 DEF CapInv
<1>13. Cardinality(Orphans') <= overtaken + mishaps
  BY <1>10, <1>11 DEF CapInv
<1>14. QED
  BY <1>1, <1>8, <1>9, <1>12, <1>13 DEF CapInv

\* Ranked, popped or evicted, an answer stays within reach; a client that goes on stays at work.
LEMMA WorkKeepsCap ==
  ASSUME Cache!CacheAssumption, CacheTypes, CapInv, NEW c \in Cache!Clients,
         \/ Cache!Rank(c) \/ Cache!Evict(c)
         \/ Cache!Count(c) /\ Cache!Goto(c, "pop") /\ UNCHANGED Cache!hand
         \/ Cache!Pop(c) /\ lru # <<>>
  PROVE  CapInv'
<1>0. CacheOwn(c) /\ CacheShared
  BY DEF CacheTypes
<1>1. UNCHANGED <<overtaken, mishaps>> /\ Moved(c) /\ at[c] \in Writing /\ at'[c] \in Writing
  <2>1. UNCHANGED <<overtaken, mishaps>> /\ at[c] \in Writing
    BY DEF Cache!Rank, Cache!Evict, Cache!Count, Cache!Pop, Writing
  <2>2. \E p \in Writing : Cache!Goto(c, p)
    BY DEF Cache!Rank, Cache!Evict, Cache!Count, Cache!Pop, Writing
  <2>3. Moved(c)
    BY PutTypes DEF Cache!PutStep
  <2>4. QED
    BY <2>1, <2>2, <2>3 DEF Cache!Goto, CacheTypes
<1>2. InFlight' = InFlight
  BY <1>1, FlightOf
<1>3. ASSUME Cache!Cached' \subseteq Cache!Cached,
             \A q \in Cache!Cached' : /\ q \in Ranked => Covered(q)'
                                      /\ Holds(c, q) => Covered(q)'
      PROVE  CapInv'
  <2>1. \A q \in Cache!Cached' \ {} : /\ q \in Cache!Cached \/ Covered(q)'
                                      /\ q \in Ranked => Covered(q)'
                                      /\ Holds(c, q) => Covered(q)'
    BY <1>3
  <2>2. Orphans' \subseteq Orphans \cup {}
    BY <1>1, <2>1, OrphansOf
  <2>3. QED
    BY <1>1, <1>2, <1>3, <2>2, CapStands
<1>4. CASE Cache!Rank(c)
  <2>1. about[c] \in Questions /\ UNCHANGED entries /\ at[c] = "rank"
    BY <1>0, <1>4 DEF Cache!Rank, CacheOwn, Putting, Writing
  <2>2. Ranked \subseteq Ranked' /\ about[c] \in Ranked'
    BY <1>0, <1>4, <2>1, Reranked DEF Cache!Rank, CacheShared
  <2>3. QED
    BY <1>3, <2>1, <2>2 DEF Cache!Cached, Covered, Holds
<1>5. CASE Cache!Evict(c)
  <2>1. at[c] = "evict" /\ UNCHANGED lru /\ entries' = [entries EXCEPT ![victim[c]] = NoEntry]
    BY <1>5 DEF Cache!Evict
  <2>2. Cache!Cached' = Cache!Cached \ {victim[c]}
    BY <1>0, <2>1 DEF Cache!Cached, CacheShared
  <2>3. Ranked' = Ranked
    BY <2>1 DEF Ranked
  <2>4. QED
    BY <1>3, <2>1, <2>2, <2>3 DEF Covered, Holds
<1>6. CASE Cache!Count(c)
  <2>1. at[c] = "count" /\ UNCHANGED <<lru, entries>>
    BY <1>6 DEF Cache!Count, Cache!cacheVars
  <2>2. Ranked' = Ranked /\ Cache!Cached' = Cache!Cached
    BY <2>1 DEF Ranked, Cache!Cached
  <2>3. QED
    BY <1>3, <2>1, <2>2 DEF Covered, Holds
<1>7. CASE Cache!Pop(c) /\ lru # <<>>
  <2>1. /\ at[c] = "pop" /\ UNCHANGED entries /\ lru' = Tail(lru) /\ Cache!Goto(c, "evict")
        /\ victim' = [victim EXCEPT ![c] = Head(lru)]
    BY <1>7 DEF Cache!Pop
  <2>2. at'[c] = "evict" /\ victim'[c] = Head(lru)
    BY <2>1, Placed DEF Cache!Goto, CacheTypes
  <2>4. ASSUME NEW q \in Ranked PROVE Covered(q)'
    <3>1. PICK i \in 1..Len(lru) : q = lru[i]
      BY <2>4 DEF Ranked
    <3>2. CASE i = 1
      <4>1. q = Head(lru)
        BY <1>0, <1>7, <3>1, <3>2 DEF CacheShared
      <4>2. QED
        BY <2>2, <4>1 DEF Covered, Holds
    <3>3. CASE i # 1
      <4>1. i - 1 \in 1..Len(lru') /\ lru'[i - 1] = q
        BY <1>0, <1>7, <2>1, <3>1, <3>3 DEF CacheShared
      <4>2. QED
        BY <4>1 DEF Covered, Ranked
    <3>4. QED
      BY <3>2, <3>3
  <2>5. Cache!Cached' = Cache!Cached
    BY <2>1 DEF Cache!Cached
  <2>6. QED
    BY <1>3, <2>1, <2>4, <2>5 DEF Holds
<1>8. QED
  BY <1>4, <1>5, <1>6, <1>7

LEMMA CacheCounts == ASSUME NEW S PROVE Cache!Cardinality(S) = Cardinality(S)
  BY Zenon DEF Cache!Cardinality, Cardinality

\* Whoever returns has found room, or nothing to pop.
LEMMA ReturnKeepsCap ==
  ASSUME Cache!CacheAssumption, CacheTypes, CapInv, NEW c \in Cache!Clients, Cache!Return(c),
         Cache!Count(c) \/ Cache!Pop(c),
         at[c] = "count" => Cardinality(Cache!Cached) <= MaxEntries,
         at[c] = "pop" => lru = <<>>
  PROVE  CapInv'
<1>1. UNCHANGED <<entries, overtaken, mishaps>> /\ at[c] \in {"count", "pop"}
  BY DEF Cache!Count, Cache!Pop, Cache!cacheVars
<1>2. UNCHANGED lru
  BY <1>1 DEF Cache!Count, Cache!Pop, Cache!cacheVars
<1>3. Moved(c) /\ at'[c] \notin Writing
  BY ReturnTypes DEF Writing
<1>4. InFlight' = InFlight \ {c} /\ c \in InFlight
  BY <1>1, <1>3, FlightOf DEF Writing
<1>5. Ranked' = Ranked /\ Cache!Cached' = Cache!Cached
  BY <1>1, <1>2 DEF Ranked, Cache!Cached
<1>6. \A q \in Cache!Cached' \ {} : /\ q \in Cache!Cached \/ Covered(q)'
                                    /\ q \in Ranked => Covered(q)'
                                    /\ Holds(c, q) => Covered(q)'
  BY <1>1, <1>5 DEF Covered, Holds
<1>7. Orphans' \subseteq Orphans \cup {}
  BY <1>3, <1>6, OrphansOf
<1>8. Cardinality(Orphans') <= Cardinality(Orphans) /\ Cardinality(Orphans') \in Nat /\ Cardinality(Orphans) \in Nat
  BY <1>7, FS_Subset, FS_CardinalityType DEF CapInv, Orphans
<1>9. /\ IsFiniteSet(InFlight') /\ Cardinality(InFlight') = Cardinality(InFlight) - 1
      /\ Cardinality(InFlight) \in Nat /\ Cardinality(InFlight') \in Nat
  BY <1>4, FS_RemoveElement, FS_CardinalityType DEF CapInv
<1>10. overtaken \in Nat /\ mishaps \in Nat /\ MaxEntries \in Nat /\ Cardinality(Cache!Cached) \in Nat
  BY FS_CardinalityType DEF CacheTypes, CacheShared, Cache!CacheAssumption, CapInv
<1>11. Cardinality(Cache!Cached) <= MaxEntries + Cardinality(InFlight') + overtaken + mishaps
  <2>1. CASE at[c] = "count"
    BY <1>9, <1>10, <2>1
  <2>2. CASE at[c] = "pop"
    <3>1. Cardinality(Cache!Cached) + 1 <= Cardinality(InFlight) + overtaken + mishaps
      BY <2>2, NothingRanked
    <3>2. QED
      BY <1>9, <1>10, <3>1, SMTT(20)
  <2>3. QED
    BY <1>1, <2>1, <2>2
<1>12. Cardinality(Orphans') <= overtaken + mishaps
  BY <1>8, <1>10 DEF CapInv
<1>13. IsFiniteSet(Cache!Cached)
  BY DEF CapInv
<1>14. QED
  BY <1>1, <1>5, <1>9, <1>11, <1>12, <1>13 DEF CapInv

LEMMA PutStepKeepsCap ==
  ASSUME Cache!CacheAssumption, CacheTypes, CapInv, NEW c \in Cache!Clients, Cache!PutStep(c)
  PROVE  CapInv'
<1>1. CASE Cache!Put(c)
  BY <1>1, PutKeepsCap
<1>2. CASE Cache!Rank(c) \/ Cache!Evict(c)
  BY <1>2, WorkKeepsCap
<1>3. CASE Cache!Count(c)
  <2>1. at[c] = "count" /\ IF Cardinality(Cache!Cached) > MaxEntries
                           THEN Cache!Goto(c, "pop") /\ UNCHANGED Cache!hand ELSE Cache!Return(c)
    BY <1>3, CacheCounts DEF Cache!Count
  <2>2. CASE Cardinality(Cache!Cached) > MaxEntries
    BY <1>3, <2>1, <2>2, WorkKeepsCap
  <2>3. CASE ~ Cardinality(Cache!Cached) > MaxEntries
    <3>1. Cardinality(Cache!Cached) <= MaxEntries
      BY <2>3, FS_CardinalityType DEF CapInv, Cache!CacheAssumption
    <3>2. QED
      BY <1>3, <2>1, <2>3, <3>1, ReturnKeepsCap
  <2>4. QED
    BY <2>2, <2>3
<1>4. CASE Cache!Pop(c)
  <2>1. CASE lru = <<>>
    <3>1. at[c] = "pop" /\ Cache!Return(c)
      BY <1>4, <2>1 DEF Cache!Pop
    <3>2. QED
      BY <1>4, <2>1, <3>1, ReturnKeepsCap
  <2>2. CASE lru # <<>>
    BY <1>4, <2>2, WorkKeepsCap
  <2>3. QED
    BY <2>1, <2>2
<1>5. QED
  BY <1>1, <1>2, <1>3, <1>4 DEF Cache!PutStep

\* Of the runtime's other steps only the ZREM of an invalidation can orphan an answer: the one
\* put again since its HDEL.
LEMMA RuntimeKeepsCap ==
  ASSUME Cache!CacheAssumption, CacheTypes, CapInv,
         Cache!Sweep \/ Cache!Drop \/ Cache!Unrank \/ Cache!Investigate \/ Cache!Speculate \/ Cache!Handled
  PROVE  CapInv'
<1> USE DEF Cache!runtime, Cache!cacheVars, Cache!hand
<1>0. Agents \in Cache!Clients /\ CacheOwn(Agents) /\ CacheShared
  BY DEF Cache!Clients, CacheTypes
<1>1. Moved(Agents)
  BY SweepTypes
<1>2. at[Agents] \notin Writing /\ UNCHANGED mishaps
  BY DEF Cache!Sweep, Cache!Drop, Cache!Unrank, Cache!Investigate, Cache!Speculate, Cache!Handled,
         Cache!BetweenTriggers, Writing
<1>3. at'[Agents] \notin Writing
  <2>1. ASSUME Cache!Rest(Agents) PROVE at'[Agents] \notin Writing
    BY <1>0, <2>1, RestTypes DEF Writing
  <2>2. Cache!Rest(Agents) \/ \E p \in {"drop", "unrank", "speculate", "put"} : Cache!Goto(Agents, p)
    BY DEF Cache!Sweep, Cache!Drop, Cache!Unrank, Cache!Investigate, Cache!Speculate, Cache!Handled
  <2>3. QED
    BY <1>0, <2>1, <2>2 DEF Cache!Goto, CacheTypes, Writing
<1>4. InFlight' = InFlight
  BY <1>0, <1>1, <1>2, <1>3, FlightOf
<1>5. Cache!Cached' \subseteq Cache!Cached
  <2>1. CASE Cache!Drop
    BY <1>0, <2>1 DEF Cache!Drop, Cache!Cached, CacheShared
  <2>2. CASE ~ Cache!Drop
    BY <2>2 DEF Cache!Sweep, Cache!Unrank, Cache!Investigate, Cache!Speculate, Cache!Handled, Cache!Cached
  <2>3. QED
    BY <2>1, <2>2
<1>6. ASSUME ~ Cache!Unrank PROVE CapInv'
  <2>1. UNCHANGED <<lru, overtaken>>
    BY <1>6 DEF Cache!Sweep, Cache!Drop, Cache!Investigate, Cache!Speculate, Cache!Handled
  <2>2. Ranked' = Ranked
    BY <2>1 DEF Ranked
  <2>3. \A q \in Cache!Cached' \ {} : /\ q \in Cache!Cached \/ Covered(q)'
                                      /\ q \in Ranked => Covered(q)'
                                      /\ Holds(Agents, q) => Covered(q)'
    BY <1>2, <1>5, <2>2 DEF Covered, Holds, Writing
  <2>4. Orphans' \subseteq Orphans \cup {}
    BY <1>0, <1>1, <2>3, OrphansOf
  <2>5. QED
    BY <1>2, <1>4, <1>5, <2>1, <2>4, CapStands
<1>7. ASSUME Cache!Unrank PROVE CapInv'
  <2>1. PICK drop : drop = victim[Agents]
    OBVIOUS
  <2>2. /\ UNCHANGED entries /\ lru' = Cache!Unranked(drop)
        /\ overtaken' = IF drop \in Cache!Cached THEN overtaken + 1 ELSE overtaken
    BY <1>7, <2>1 DEF Cache!Unrank
  <2>3. \A q \in Ranked : q # drop => q \in Ranked'
    <3>1. \A i \in 1..Len(lru) : lru[i] # drop => \E j \in 1..Len(lru') : lru'[j] = lru[i]
      BY <1>0, <2>2, UnrankedKeeps DEF CacheShared
    <3>2. QED
      BY <3>1 DEF Ranked
  <2>4. \A q \in Cache!Cached' \ {drop} : /\ q \in Cache!Cached \/ Covered(q)'
                                          /\ q \in Ranked => Covered(q)'
                                          /\ Holds(Agents, q) => Covered(q)'
    BY <1>2, <1>5, <2>3 DEF Covered, Holds, Writing
  <2>5. Orphans' \subseteq Orphans \cup {drop}
    BY <1>0, <1>1, <2>4, OrphansOf
  <2>6. Cache!Cached' = Cache!Cached
    BY <2>2 DEF Cache!Cached
  <2>7. CASE drop \notin Cache!Cached
    <3>1. Orphans' \subseteq Orphans
      BY <2>5, <2>6, <2>7 DEF Orphans
    <3>2. QED
      BY <1>2, <1>4, <1>5, <2>2, <2>7, <3>1, CapStands
  <2>8. CASE drop \in Cache!Cached
    <3>1. IsFiniteSet(Orphans) /\ Cardinality(Orphans) \in Nat
      BY FS_Subset, FS_CardinalityType DEF CapInv, Orphans
    <3>2. /\ IsFiniteSet(Orphans \cup {drop})
          /\ Cardinality(Orphans \cup {drop}) = IF drop \in Orphans THEN Cardinality(Orphans) ELSE Cardinality(Orphans) + 1
      BY <3>1, FS_AddElement
    <3>3. Cardinality(Orphans \cup {drop}) <= Cardinality(Orphans) + 1 /\ Cardinality(Orphans \cup {drop}) \in Nat
      BY <3>1, <3>2
    <3>4. Cardinality(Orphans') <= Cardinality(Orphans \cup {drop}) /\ Cardinality(Orphans') \in Nat
      BY <2>5, <3>2, FS_Subset, FS_CardinalityType
    <3>5. /\ overtaken' = overtaken + 1 /\ overtaken \in Nat /\ mishaps \in Nat /\ MaxEntries \in Nat
          /\ Cardinality(Cache!Cached) \in Nat /\ Cardinality(InFlight) \in Nat
      BY <1>0, <2>2, <2>8, FS_CardinalityType DEF CacheShared, Cache!CacheAssumption, CapInv
    <3>6. Cardinality(Orphans') <= overtaken' + mishaps'
      BY <1>2, <3>1, <3>3, <3>4, <3>5 DEF CapInv
    <3>7. Cardinality(Cache!Cached') <= MaxEntries + Cardinality(InFlight') + overtaken' + mishaps'
      BY <1>2, <1>4, <2>6, <3>5 DEF CapInv
    <3>8. IsFiniteSet(Cache!Cached') /\ IsFiniteSet(InFlight')
      BY <1>4, <2>6 DEF CapInv
    <3>9. QED
      BY <3>6, <3>7, <3>8 DEF CapInv
  <2>9. QED
    BY <2>7, <2>8
<1>8. QED
  BY <1>6, <1>7

\* A crash takes what a client held, and that alone.
LEMMA CrashKeepsCap ==
  ASSUME Cache!CacheAssumption, CacheTypes, CapInv, NEW c \in Cache!Clients, Cache!Crash(c)
  PROVE  CapInv'
<1>1. UNCHANGED <<entries, lru, overtaken>> /\ mishaps' = mishaps + 1
  BY DEF Cache!Crash, Cache!cacheVars
<1>2. Moved(c) /\ at'[c] = "idle"
  BY RestTypes DEF Cache!Crash
<1>3. Cache!Cached' = Cache!Cached /\ Ranked' = Ranked
  BY <1>1 DEF Cache!Cached, Ranked
<1>4. PICK drop : drop = IF at[c] = "rank" THEN about[c] ELSE victim[c]
  OBVIOUS
<1>5. \A q \in Cache!Cached' \ {drop} : /\ q \in Cache!Cached \/ Covered(q)'
                                        /\ q \in Ranked => Covered(q)'
                                        /\ Holds(c, q) => Covered(q)'
  BY <1>3, <1>4 DEF Covered, Holds
<1>6. Orphans' \subseteq Orphans \cup {drop}
  BY <1>2, <1>5, OrphansOf
<1>7. IsFiniteSet(Orphans) /\ Cardinality(Orphans) \in Nat
  BY FS_Subset, FS_CardinalityType DEF CapInv, Orphans
<1>8. /\ IsFiniteSet(Orphans \cup {drop})
      /\ Cardinality(Orphans \cup {drop}) = IF drop \in Orphans THEN Cardinality(Orphans) ELSE Cardinality(Orphans) + 1
  BY <1>7, FS_AddElement
<1>9. Cardinality(Orphans \cup {drop}) <= Cardinality(Orphans) + 1 /\ Cardinality(Orphans \cup {drop}) \in Nat
  BY <1>7, <1>8
<1>10. Cardinality(Orphans') <= Cardinality(Orphans \cup {drop}) /\ Cardinality(Orphans') \in Nat
  BY <1>6, <1>8, FS_Subset, FS_CardinalityType
<1>11. /\ overtaken \in Nat /\ mishaps \in Nat /\ MaxEntries \in Nat
       /\ Cardinality(Cache!Cached) \in Nat /\ Cardinality(InFlight) \in Nat
  BY FS_CardinalityType DEF CacheTypes, CacheShared, Cache!CacheAssumption, CapInv
<1>12. Cardinality(Orphans') <= overtaken' + mishaps'
  BY <1>1, <1>7, <1>9, <1>10, <1>11 DEF CapInv
<1>13. IsFiniteSet(InFlight') /\ Cardinality(InFlight) <= Cardinality(InFlight') + 1 /\ Cardinality(InFlight') \in Nat
  <2>1. CASE at[c] \in Writing
    <3>1. InFlight' = InFlight \ {c} /\ c \in InFlight
      BY <1>2, <2>1, FlightOf DEF Writing
    <3>2. IsFiniteSet(InFlight') /\ Cardinality(InFlight') = Cardinality(InFlight) - 1 /\ Cardinality(InFlight') \in Nat
      BY <3>1, FS_RemoveElement, FS_CardinalityType DEF CapInv
    <3>3. QED
      BY <1>11, <3>2
  <2>2. CASE at[c] \notin Writing
    <3>1. InFlight' = InFlight
      BY <1>2, <2>2, FlightOf DEF Writing
    <3>2. QED
      BY <1>11, <3>1 DEF CapInv
  <2>3. QED
    BY <2>1, <2>2
<1>14. Cardinality(Cache!Cached') <= MaxEntries + Cardinality(InFlight') + overtaken' + mishaps'
  BY <1>1, <1>3, <1>11, <1>13 DEF CapInv
<1>15. IsFiniteSet(Cache!Cached')
  BY <1>3 DEF CapInv
<1>16. QED
  BY <1>12, <1>13, <1>14, <1>15 DEF CapInv

LEMMA CapKeep ==
  ASSUME Cache!CacheAssumption, CacheTypes, CapInv, [Cache!Next]_Cache!vars
  PROVE  CapInv'
<1>0. Agents \in Cache!Clients /\ Askers \subseteq Cache!Clients
  BY DEF Cache!Clients
<1>1. ASSUME UNCHANGED <<entries, lru, at, about, victim, overtaken, mishaps>> PROVE CapInv'
  BY <1>1 DEF CapInv, Cache!Cached, InFlight, Orphans, Covered, Holds, Ranked
<1>2. CASE UNCHANGED Cache!vars
  BY <1>1, <1>2 DEF Cache!vars
<1>3. CASE Cache!Commit
  BY <1>1, <1>3 DEF Cache!Commit, Cache!cacheVars, Cache!hand
<1>4. CASE Cache!Runtime
  BY <1>0, <1>4, RuntimeKeepsCap, PutStepKeepsCap DEF Cache!Runtime
<1>5. ASSUME NEW a \in Askers,
             \/ \E q \in Questions : Cache!Ask(a, q)
             \/ Cache!Look(a) \/ Cache!Touch(a) \/ Cache!Prepare(a) \/ Cache!AnswerFails(a) \/ Cache!PutStep(a)
      PROVE  CapInv'
  BY <1>0, <1>5, AskerKeepsCap, PutStepKeepsCap
<1>6. QED
  BY <1>2, <1>3, <1>4, <1>5, CrashKeepsCap DEF Cache!Next

\* A stale answer in the cache is condemned, or was read before the change and put after the
\* sweep for it; and with nobody at work the cap is exceeded only by one answer for every put
\* that a crash or a late ZREM cut short.
THEOREM CacheIsSound == TelemetrySpec => []CacheSound
<1> DEFINE Inv == stage = "cache" => CacheTypes /\ SweepInv /\ CapInv
<1>1. TelemetryInit => Inv
  BY CacheTypesInit, SweepInit, CapInit, TelemetryAssumption DEF TelemetryInit
<1>2. Inv /\ [TelemetryNext]_telemetryVars => Inv'
  BY StageSteps, CacheTypesKeep, SweepKeep, CapKeep, TelemetryAssumption
<1>3. Inv => CacheSound
  <2> SUFFICES ASSUME CacheTypes, SweepInv, CapInv PROVE Cache!StaleOnlyByRace /\ Cache!CapKept
    BY DEF CacheSound
  <2>1. ASSUME \A c \in Cache!Clients : at[c] \notin Cache!Putting
        PROVE  Cache!Cardinality(Cache!Cached) <= MaxEntries + overtaken + mishaps
    <3>1. InFlight = {}
      BY <2>1 DEF InFlight, Writing, Cache!Putting
    <3>2. Cardinality(InFlight) = 0
      BY <3>1, FS_EmptySet
    <3>3. Cardinality(Cache!Cached) <= MaxEntries + overtaken + mishaps
      BY <3>2, TelemetryAssumption DEF CapInv, CacheTypes, CacheShared, Cache!CacheAssumption
    <3>4. QED
      BY <3>3, CacheCounts
  <2>2. QED
    BY <2>1 DEF SweepInv, Cache!CapKept
<1>4. QED
  BY <1>1, <1>2, <1>3, PTL DEF TelemetrySpec

-----------------------------------------------------------------------------
(* The signatures: a fault that shows itself again is put first *)

\* A signature puts its tags in an order, each of them by how many are before it.
IsCascade(q) ==
    /\ IsFiniteSet(DOMAIN q) /\ DOMAIN q \subseteq Names
    /\ \A t \in DOMAIN q :
          /\ q[t].rank \in Nat
          /\ q[t].rank = Cardinality({s \in DOMAIN q : q[s].rank < q[t].rank})
    /\ \A s, t \in DOMAIN q : s # t => q[s].rank # q[t].rank

LEMMA TagsCount == ASSUME NEW S PROVE Signatures!Cardinality(S) = Cardinality(S)
  BY Zenon DEF Signatures!Cardinality, Cardinality

LEMMA LargestOf ==
    ASSUME NEW n \in Nat \ {0}, NEW f, \A i \in 1..n : f[i] \in Int
    PROVE  \E i \in 1..n : \A j \in 1..n : f[i] >= f[j]
<1> DEFINE Tops(k, i) == \A j \in 1..k : f[i] >= f[j]
           topless == {k \in 1..n : ~ \E i \in 1..k : Tops(k, i)}
<1>1. CASE topless = {}
  <2>1. n \notin topless /\ n \in 1..n
    <3>1. n \in 1..n
      OBVIOUS
    <3>2. QED
      BY <1>1, <3>1
  <2>2. QED
    BY <2>1
<1>2. CASE topless # {}
  <2>1. topless \in SUBSET (1..n)
    OBVIOUS
  <2>2. PICK k \in topless : \A m \in topless : k <= m
    <3> HIDE DEF topless
    <3>1. QED
      BY <1>2, <2>1, LeastPosition
  <2>3. k # 1
    <3>1. Tops(1, 1)
      OBVIOUS
    <3>2. QED
      BY <3>1
  <2>4. k - 1 \in 1..n /\ k \in 1..n /\ k - 1 < k
    BY <2>3
  <2>5. k - 1 \notin topless
    <3> HIDE DEF topless
    <3>1. QED
      BY <2>2, <2>4
  <2>6. PICK i \in 1..(k - 1) : Tops(k - 1, i)
    BY <2>4, <2>5
  <2>7. f[i] \in Int /\ f[k] \in Int /\ i \in 1..k /\ k \in 1..k
    BY <2>4
  <2>8. Tops(k, i) \/ Tops(k, k)
    BY <2>4, <2>6, <2>7
  <2>9. QED
    BY <2>2, <2>7, <2>8
<1>3. QED
  BY <1>1, <1>2

LEMMA SizeIsNat == ASSUME NEW z \in Int PROVE Signatures!Size(z) \in Nat
  BY DEF Signatures!Size

LEMMA PeakIsInt ==
    ASSUME NEW readings \in Seq(Int), readings # <<>>
    PROVE  Signatures!Peak(readings) \in Int
<1> DEFINE n == Len(readings)
           sizes == [i \in 1..n |-> Signatures!Size(readings[i])]
<1>1. n \in Nat \ {0} /\ DOMAIN readings = 1..n /\ \A i \in 1..n : readings[i] \in Int
  BY EmptySeq
<1>2. \A i \in 1..n : sizes[i] \in Int
  BY <1>1, SizeIsNat
<1>3. PICK i \in 1..n : \A j \in 1..n : sizes[i] >= sizes[j]
  <2> HIDE DEF n, sizes
  <2>1. QED
    BY <1>1, <1>2, LargestOf
<1> DEFINE all == {Signatures!Size(readings[j]) : j \in DOMAIN readings}
           largest == Signatures!Max(all)
           places == {j \in DOMAIN readings : Signatures!Size(readings[j]) = largest}
<1>4. \E x \in all : \A y \in all : x >= y
  <2>1. sizes[i] \in all /\ \A y \in all : sizes[i] >= y
    BY <1>1, <1>3
  <2>2. QED
    BY <2>1
<1>5. largest \in all
  BY <1>4 DEF Signatures!Max
<1>6. places # {} /\ places \in SUBSET (1..n)
  BY <1>1, <1>5
<1>7. \E k \in places : \A m \in places : k <= m
  <2> HIDE DEF places, n
  <2>1. QED
    BY <1>1, <1>6, LeastPosition
<1>8. Signatures!Min(places) \in places
  <2> HIDE DEF places
  <2>1. QED
    BY <1>7 DEF Signatures!Min
<1>9. Signatures!Min(places) \in 1..n
  <2> HIDE DEF places
  <2>1. QED
    BY <1>6, <1>8
<1>10. Signatures!Peak(readings) = readings[Signatures!Min(places)]
  BY DEF Signatures!Peak
<1>11. QED
  <2> HIDE DEF places, n
  <2>1. QED
    BY <1>1, <1>9, <1>10

LEMMA DeviationOf ==
    ASSUME NEW readings \in Seq(Int), Signatures!Deviates(readings)
    PROVE  /\ Signatures!Deviation(readings).offset \in Int
           /\ Signatures!Deviation(readings).magnitude \in Int
<1> DEFINE breaches == Signatures!Breaches(readings)
           n == Len(readings)
<1>1. n \in Nat /\ DOMAIN readings = 1..n /\ breaches \in SUBSET (1..n) /\ n \div 5 \in Nat
  BY DEF Signatures!Breaches
<1>2. breaches # {}
  <2>1. Signatures!Max({1, n \div 5}) >= 1
    <3> DEFINE share == n \div 5
    <3>1. share \in Nat
      BY <1>1
    <3> HIDE DEF share
    <3>2. \E x \in {1, share} : \A y \in {1, share} : x >= y
      BY <3>1
    <3>3. Signatures!Max({1, share}) \in {1, share} /\ \A y \in {1, share} : Signatures!Max({1, share}) >= y
      BY <3>2 DEF Signatures!Max
    <3>4. QED
      BY <3>3 DEF share
  <2>2. Cardinality(breaches) >= Signatures!Max({1, n \div 5})
    BY TagsCount DEF Signatures!Deviates
  <2>3. Cardinality({}) = 0
    BY FS_EmptySet
  <2>4. SUFFICES ASSUME breaches = {} PROVE FALSE
    OBVIOUS
  <2>5. 0 >= Signatures!Max({1, n \div 5})
    BY <2>2, <2>3, <2>4
  <2>6. Signatures!Max({1, n \div 5}) \in Int
    <3> DEFINE share == n \div 5
    <3>1. share \in Nat
      BY <1>1
    <3> HIDE DEF share
    <3>2. \E x \in {1, share} : \A y \in {1, share} : x >= y
      BY <3>1
    <3>3. Signatures!Max({1, share}) \in {1, share}
      BY <3>2 DEF Signatures!Max
    <3>4. Signatures!Max({1, share}) \in Int
      BY <3>1, <3>3
    <3>5. QED
      BY <3>4 DEF share
  <2>7. QED
    BY <2>1, <2>5, <2>6
<1>3. \E k \in breaches : \A m \in breaches : k <= m
  <2> HIDE DEF breaches, n
  <2>1. QED
    BY <1>1, <1>2, LeastPosition
<1>4. Signatures!Min(breaches) \in breaches
  <2> HIDE DEF breaches
  <2>1. QED
    BY <1>3 DEF Signatures!Min
<1>5. Signatures!Min(breaches) \in Int
  <2>1. breaches \in SUBSET (1..n)
    BY <1>1
  <2> HIDE DEF breaches, n
  <2>2. Signatures!Min(breaches) \in 1..n
    BY <1>4, <2>1
  <2>3. QED
    BY <2>2
<1>6. readings # <<>>
  BY <1>1, <1>2
<1>7. Signatures!Peak(readings) \in Int
  BY <1>6, PeakIsInt
<1>8. QED
  BY <1>5, <1>7, SizeIsNat DEF Signatures!Deviation

\* The order in which the tags of a window moved is strict and total.
LEMMA MovesOrdered ==
    ASSUME NamesOrdered, NEW moved \in SUBSET Names, NEW dev,
           \A t \in moved : dev[t].offset \in Int /\ dev[t].magnitude \in Int
    PROVE  /\ \A s \in moved : ~ Signatures!MovedBefore(dev, s, s)
           /\ \A s, t \in moved :
                 s # t => Signatures!MovedBefore(dev, s, t) \/ Signatures!MovedBefore(dev, t, s)
           /\ \A s, t, u \in moved :
                 Signatures!MovedBefore(dev, s, t) /\ Signatures!MovedBefore(dev, t, u)
                    => Signatures!MovedBefore(dev, s, u)
<1>1. ASSUME NEW s \in moved PROVE ~ Signatures!MovedBefore(dev, s, s)
  BY DEF Signatures!MovedBefore, NamesOrdered
<1>2. ASSUME NEW s \in moved, NEW t \in moved, s # t
      PROVE  Signatures!MovedBefore(dev, s, t) \/ Signatures!MovedBefore(dev, t, s)
  BY <1>2 DEF Signatures!MovedBefore, NamesOrdered
<1>3. ASSUME NEW s \in moved, NEW t \in moved, NEW u \in moved,
             Signatures!MovedBefore(dev, s, t), Signatures!MovedBefore(dev, t, u)
      PROVE  Signatures!MovedBefore(dev, s, u)
  BY <1>3 DEF Signatures!MovedBefore, NamesOrdered
<1>4. QED
  BY <1>1, <1>2, <1>3

LEMMA CascadeOf ==
    ASSUME NamesOrdered, NEW series, IsWindow(series) PROVE IsCascade(Signatures!Extract(series))
<1> DEFINE moved == {t \in DOMAIN series : Signatures!Deviates(series[t])}
           dev == [t \in moved |-> Signatures!Deviation(series[t])]
           Before2(s, t) == Signatures!MovedBefore(dev, s, t)
           ahead == [t \in moved |-> {s \in moved : Before2(s, t)}]
           q == Signatures!Extract(series)
<1>1. IsFiniteSet(moved) /\ moved \in SUBSET Names
  BY FS_Subset DEF IsWindow
<1>2. \A t \in moved : dev[t].offset \in Int /\ dev[t].magnitude \in Int
  BY DeviationOf DEF IsWindow
<1>3. /\ \A s \in moved : ~ Before2(s, s)
      /\ \A s, t \in moved : s # t => Before2(s, t) \/ Before2(t, s)
      /\ \A s, t, u \in moved : Before2(s, t) /\ Before2(t, u) => Before2(s, u)
  <2> HIDE DEF moved, dev
  <2>1. QED
    BY <1>1, <1>2, MovesOrdered
<1>4. DOMAIN q = moved /\ \A t \in moved : q[t].rank = Cardinality(ahead[t])
  BY TagsCount DEF Signatures!Extract
<1> HIDE DEF q, dev, moved, Before2
<1>5. \A t \in moved : ahead[t] \in SUBSET moved /\ IsFiniteSet(ahead[t]) /\ Cardinality(ahead[t]) \in Nat
  BY <1>1, FS_Subset, FS_CardinalityType
<1>6. ASSUME NEW s \in moved, NEW t \in moved, Before2(s, t) PROVE q[s].rank < q[t].rank
  <2>1. ahead[s] \in SUBSET ahead[t] /\ s \in ahead[t] /\ s \notin ahead[s]
    BY <1>3, <1>6
  <2>2. IsFiniteSet(ahead[t]) /\ Cardinality(ahead[s]) \in Nat /\ Cardinality(ahead[t]) \in Nat
    BY <1>5
  <2> HIDE DEF ahead
  <2>3. Cardinality(ahead[s]) <= Cardinality(ahead[t]) /\ Cardinality(ahead[s]) # Cardinality(ahead[t])
    BY <2>1, <2>2, FS_Subset
  <2>4. QED
    BY <1>4, <2>2, <2>3
<1>7. ASSUME NEW s \in moved, NEW t \in moved PROVE q[s].rank < q[t].rank <=> Before2(s, t)
  <2>1. q[s].rank \in Nat /\ q[t].rank \in Nat
    BY <1>4, <1>5
  <2>2. QED
    BY <1>3, <1>6, <2>1
<1>8. ASSUME NEW t \in moved
      PROVE  q[t].rank \in Nat /\ q[t].rank = Cardinality({s \in moved : q[s].rank < q[t].rank})
  <2>1. ahead[t] = {s \in moved : q[s].rank < q[t].rank}
    BY <1>7
  <2>2. QED
    BY <1>4, <1>5, <2>1
<1>9. ASSUME NEW s \in moved, NEW t \in moved, s # t PROVE q[s].rank # q[t].rank
  BY <1>3, <1>7, <1>8, <1>9
<1>10. QED
  BY <1>1, <1>4, <1>8, <1>9 DEF IsCascade, q

LEMMA OrderShare ==
    ASSUME NEW q, NEW c, IsCascade(q), IsCascade(c)
    PROVE  LET order == Signatures!RankAgreement(q, c)
           IN  order[1] \in Nat /\ order[2] \in Nat \ {0} /\ order[1] <= order[2]
<1> DEFINE agreed == Signatures!Agreed(q, c)
           pairs == {p \in agreed \X agreed : Before(p[1], p[2])}
           in_order == Signatures!Concordant(q, c, pairs)
<1>1. IsFiniteSet(agreed)
  BY FS_Subset DEF Signatures!Agreed, IsCascade
<1>2. IsFiniteSet(pairs)
  <2> HIDE DEF agreed
  <2>1. IsFiniteSet(agreed \X agreed)
    BY <1>1, FS_Product
  <2>2. QED
    BY <2>1, FS_Subset
<1>3. in_order \in SUBSET pairs
  BY DEF Signatures!Concordant
<1>4. Cardinality(in_order) \in Nat /\ Cardinality(pairs) \in Nat /\ Cardinality(in_order) <= Cardinality(pairs)
  <2> HIDE DEF in_order, pairs
  <2>1. QED
    BY <1>2, <1>3, FS_Subset, FS_CardinalityType
<1>5. pairs # {} => Cardinality(pairs) # 0
  <2> HIDE DEF pairs
  <2>1. QED
    BY <1>2, FS_EmptySet
<1>6. Signatures!RankAgreement(q, c) =
         IF pairs = {} THEN <<1, 1>> ELSE <<Cardinality(in_order), Cardinality(pairs)>>
  BY TagsCount, Zenon DEF Signatures!RankAgreement
<1> HIDE DEF pairs, in_order
<1>7. QED
  BY <1>4, <1>5, <1>6

\* A fraction of at most one, of at most all of the tags, is less than one: unless both are all.
LEMMA ShareOfAll ==
    ASSUME NEW shared \in Nat, NEW all \in Nat, NEW above \in Nat, NEW below \in Nat,
           0 < shared, shared <= all, 0 < below, above <= below,
           shared # all \/ above # below
    PROVE  shared * (below + above) < all * 2 * below
<1>1. shared * (below + above) <= shared * (below + below)
  BY SMT
<1>2. shared * (below + below) <= all * (below + below)
  BY SMT
<1>3. all * (below + below) = all * 2 * below
  BY SMT
<1>4. CASE shared # all
  <2>1. shared * (below + below) < all * (below + below)
    BY <1>4, SMT
  <2>2. QED
    BY <1>1, <1>3, <2>1, SMT
<1>5. CASE above # below
  <2>1. shared * (below + above) < shared * (below + below)
    BY <1>5, SMT
  <2>2. QED
    BY <1>2, <1>3, <2>1, SMT
<1>6. QED
  BY <1>4, <1>5

LEMMA SameOrderSameRanks ==
    ASSUME NamesOrdered, NEW q, NEW c, IsCascade(q), IsCascade(c), DOMAIN q = DOMAIN c,
           \A s, t \in DOMAIN q :
              Before(s, t) => ((q[s].rank > q[t].rank) = (c[s].rank > c[t].rank))
    PROVE  \A t \in DOMAIN q : q[t].rank = c[t].rank
<1>1. ASSUME NEW s \in DOMAIN q, NEW t \in DOMAIN q
      PROVE  q[s].rank < q[t].rank <=> c[s].rank < c[t].rank
  <2>1. /\ q[s].rank \in Nat /\ q[t].rank \in Nat /\ c[s].rank \in Nat /\ c[t].rank \in Nat
        /\ s # t => q[s].rank # q[t].rank /\ c[s].rank # c[t].rank
    BY DEF IsCascade
  <2>2. s = t \/ Before(s, t) \/ Before(t, s)
    BY DEF NamesOrdered, IsCascade
  <2>3. CASE s = t
    BY <2>1, <2>3
  <2>4. CASE Before(s, t)
    <3>1. (q[s].rank > q[t].rank) = (c[s].rank > c[t].rank)
      BY <2>4
    <3>2. s # t
      BY <2>4 DEF NamesOrdered, IsCascade
    <3>3. QED
      BY <2>1, <3>1, <3>2
  <2>5. CASE Before(t, s)
    <3>1. (q[t].rank > q[s].rank) = (c[t].rank > c[s].rank)
      BY <2>5
    <3>2. s # t
      BY <2>5 DEF NamesOrdered, IsCascade
    <3>3. QED
      BY <2>1, <3>1, <3>2
  <2>6. QED
    BY <2>2, <2>3, <2>4, <2>5
<1>2. ASSUME NEW t \in DOMAIN q PROVE q[t].rank = c[t].rank
  <2>1. {s \in DOMAIN q : q[s].rank < q[t].rank} = {s \in DOMAIN c : c[s].rank < c[t].rank}
    BY <1>1
  <2>2. QED
    BY <2>1 DEF IsCascade
<1>3. QED
  BY <1>2

\* In full agreement on the order only if every pair is in the same.
LEMMA FullShare ==
    ASSUME NEW q, NEW c, IsCascade(q), IsCascade(c),
           Signatures!RankAgreement(q, c)[1] = Signatures!RankAgreement(q, c)[2],
           NEW s \in Signatures!Agreed(q, c), NEW t \in Signatures!Agreed(q, c), Before(s, t)
    PROVE  (q[s].rank > q[t].rank) = (c[s].rank > c[t].rank)
<1> DEFINE agreed == Signatures!Agreed(q, c)
           pairs == {p \in agreed \X agreed : Before(p[1], p[2])}
           in_order == Signatures!Concordant(q, c, pairs)
<1>1. IsFiniteSet(agreed)
  BY FS_Subset DEF Signatures!Agreed, IsCascade
<1>2. IsFiniteSet(pairs)
  <2> HIDE DEF agreed
  <2>1. IsFiniteSet(agreed \X agreed)
    BY <1>1, FS_Product
  <2>2. QED
    BY <2>1, FS_Subset
<1>3. in_order \in SUBSET pairs
  BY DEF Signatures!Concordant
<1>4. Signatures!RankAgreement(q, c) =
         IF pairs = {} THEN <<1, 1>> ELSE <<Cardinality(in_order), Cardinality(pairs)>>
  BY TagsCount, Zenon DEF Signatures!RankAgreement
<1>5. <<s, t>> \in pairs
  OBVIOUS
<1>6. in_order = pairs
  <2> HIDE DEF pairs, in_order
  <2>1. Cardinality(in_order) = Cardinality(pairs)
    BY <1>4, <1>5
  <2>2. QED
    BY <1>2, <1>3, <2>1, FS_Subset
<1>7. <<s, t>> \in in_order
  BY <1>5, <1>6
<1>8. QED
  BY <1>7 DEF Signatures!Concordant

LEMMA ScoreOfItself ==
    ASSUME NEW q, IsCascade(q), DOMAIN q # {}
    PROVE  LET score == Signatures!Score(q, q) IN score[1] = score[2] /\ score[1] \in Nat \ {0}
<1> DEFINE n == Cardinality(DOMAIN q)
           agreed == Signatures!Agreed(q, q)
           pairs == {p \in agreed \X agreed : Before(p[1], p[2])}
           order == Signatures!RankAgreement(q, q)
<1>1. n \in Nat \ {0}
  BY FS_CardinalityType, FS_EmptySet DEF IsCascade
<1>2. agreed = DOMAIN q
  BY DEF Signatures!Agreed
<1>3. Signatures!Overlap(q, q) = n
  <2>1. (DOMAIN q \cap DOMAIN q) \ agreed = {}
    BY <1>2
  <2>2. Signatures!Overlap(q, q) = Cardinality(agreed) - Cardinality({})
    BY <2>1, TagsCount DEF Signatures!Overlap
  <2> HIDE DEF agreed
  <2>3. QED
    BY <1>1, <1>2, <2>2, FS_EmptySet
<1>4. order[1] \in Nat /\ order[2] \in Nat \ {0}
  BY OrderShare
<1>5. order[1] = order[2]
  <2>1. Signatures!Concordant(q, q, pairs) = pairs
    BY DEF Signatures!Concordant
  <2>2. order = IF pairs = {} THEN <<1, 1>>
                ELSE <<Cardinality(Signatures!Concordant(q, q, pairs)), Cardinality(pairs)>>
    BY TagsCount, Zenon DEF Signatures!RankAgreement
  <2> HIDE DEF pairs, order
  <2>3. QED
    BY <2>1, <2>2
<1>6. Signatures!Cardinality(DOMAIN q \cup DOMAIN q) = n /\ q # <<>>
  <2>1. DOMAIN q \cup DOMAIN q = DOMAIN q /\ DOMAIN <<>> = {}
    OBVIOUS
  <2>2. QED
    BY <2>1, TagsCount
<1>7. Signatures!Score(q, q) = <<n * (order[2] + order[1]), n * 2 * order[2]>>
  <2> HIDE DEF n, order
  <2>1. ~ (Signatures!Overlap(q, q) <= 0)
    BY <1>1, <1>3
  <2>2. QED
    BY <1>3, <1>6, <2>1 DEF Signatures!Score, order
<1> HIDE DEF n, order
<1>8. QED
  BY <1>1, <1>4, <1>5, <1>7

LEMMA ScoreOfAnother ==
    ASSUME NamesOrdered, NEW q, NEW c, IsCascade(q), IsCascade(c), DOMAIN q # {},
           ~ Signatures!SameCascade(q, c)
    PROVE  LET score == Signatures!Score(q, c)
           IN  score[1] \in Nat /\ score[2] \in Nat /\ score[1] < score[2]
<1> DEFINE agreed == Signatures!Agreed(q, c)
           contrary == (DOMAIN q \cap DOMAIN c) \ agreed
           all == DOMAIN q \cup DOMAIN c
           order == Signatures!RankAgreement(q, c)
           overlap == Cardinality(agreed) - Cardinality(contrary)
<1>1. IsFiniteSet(all) /\ agreed \in SUBSET all /\ contrary \in SUBSET all
  BY FS_Union DEF IsCascade, Signatures!Agreed
<1>2. /\ Cardinality(all) \in Nat /\ Cardinality(agreed) \in Nat /\ Cardinality(contrary) \in Nat
      /\ Cardinality(agreed) <= Cardinality(all)
      /\ Cardinality(agreed) = Cardinality(all) => agreed = all
  <2> HIDE DEF all, agreed, contrary
  <2>1. QED
    BY <1>1, FS_Subset, FS_CardinalityType
<1>3. order[1] \in Nat /\ order[2] \in Nat \ {0} /\ order[1] <= order[2]
  BY OrderShare
<1>4. Signatures!Overlap(q, c) = overlap
  BY TagsCount, Zenon DEF Signatures!Overlap
<1>5. Signatures!Score(q, c) = IF q = <<>> \/ c = <<>> \/ overlap <= 0 THEN <<0, 1>>
         ELSE <<overlap * (order[2] + order[1]), Cardinality(all) * 2 * order[2]>>
  BY <1>4, TagsCount, Zenon DEF Signatures!Score
<1>6. agreed = all => \A t \in DOMAIN q : q[t].direction = c[t].direction
  BY DEF Signatures!Agreed
<1>7. agreed = all => DOMAIN q = DOMAIN c
  BY DEF Signatures!Agreed
<1>8. agreed = all => order[1] # order[2]
  <2> SUFFICES ASSUME agreed = all, order[1] = order[2] PROVE FALSE
    OBVIOUS
  <2>1. \A s, t \in DOMAIN q :
           Before(s, t) => ((q[s].rank > q[t].rank) = (c[s].rank > c[t].rank))
    BY FullShare
  <2>2. \A t \in DOMAIN q : q[t].rank = c[t].rank
    BY <1>7, <2>1, SameOrderSameRanks
  <2>3. QED
    BY <1>6, <1>7, <2>2 DEF Signatures!SameCascade
<1> HIDE DEF agreed, contrary, all, order
<1>9. overlap \in Int /\ overlap <= Cardinality(all)
      /\ (overlap = Cardinality(all) => agreed = all)
  BY <1>2
<1>10. CASE q = <<>> \/ c = <<>> \/ overlap <= 0
  BY <1>5, <1>10
<1>11. CASE ~ (q = <<>> \/ c = <<>> \/ overlap <= 0)
  <2>1. Signatures!Score(q, c) =
           <<overlap * (order[2] + order[1]), Cardinality(all) * 2 * order[2]>>
    BY <1>5, <1>11
  <2>2. overlap \in Nat /\ 0 < overlap
    BY <1>9, <1>11
  <2>3. overlap # Cardinality(all) \/ order[1] # order[2]
    BY <1>8, <1>9
  <2>4. overlap * (order[2] + order[1]) < Cardinality(all) * 2 * order[2]
    <3> HIDE DEF overlap
    <3>1. QED
      BY <1>2, <1>3, <1>9, <2>2, <2>3, ShareOfAll
  <2>5. overlap * (order[2] + order[1]) \in Nat /\ Cardinality(all) * 2 * order[2] \in Nat
    <3> HIDE DEF overlap
    <3>1. QED
      BY <1>2, <1>3, <2>2
  <2>6. QED
    BY <2>1, <2>4, <2>5
<1>12. QED
  BY <1>10, <1>11

\* Whatever two windows of telemetry say, of any tags and of any length: a signature has
\* the full score with itself (match_signature), and every signature that differs from it
\* in its tags, in a direction or in the order of two of them has less.
LEMMA ItselfIsBest ==
    ASSUME NamesOrdered, NEW series, IsWindow(series), NEW other, IsWindow(other)
    PROVE  Signatures!ReplayWins(series, other)
<1> DEFINE q == Signatures!Extract(series)
           c == Signatures!Extract(other)
<1>1. IsCascade(q) /\ IsCascade(c)
  BY CascadeOf
<1> HIDE DEF q, c
<1> DEFINE itself == Signatures!Score(q, q)
           another == Signatures!Score(q, c)
<1>2. ASSUME DOMAIN q # {} PROVE itself[1] = itself[2] /\ itself[1] \in Nat \ {0}
  BY <1>1, <1>2, ScoreOfItself
<1>3. ASSUME DOMAIN q # {}, ~ Signatures!SameCascade(q, c) PROVE Signatures!Exceeds(itself, another)
  <2>1. another[1] \in Nat /\ another[2] \in Nat /\ another[1] < another[2]
    BY <1>1, <1>3, ScoreOfAnother
  <2>2. itself[1] = itself[2] /\ itself[1] \in Nat \ {0}
    BY <1>2, <1>3
  <2> HIDE DEF itself, another
  <2>3. another[1] * itself[2] < itself[1] * another[2]
    BY <2>1, <2>2, SMT
  <2>4. QED
    BY <2>1, <2>2, <2>3 DEF Signatures!Exceeds
<1>4. QED
  BY <1>2, <1>3, Zenon DEF Signatures!ReplayWins, q, c

\* Whatever two windows were recorded and the plant shows, the fault that shows itself
\* again is put before every other (extract_signature, match_signature).
THEOREM ReplaysWin == TelemetrySpec => []ReplayWins
<1> DEFINE Inv == stage = "signatures" => live \in Windows /\ recorded \in Windows
<1>1. TelemetryInit => Inv
  BY DEF TelemetryInit
<1>2. Inv /\ [TelemetryNext]_telemetryVars => Inv'
  BY StageSteps DEF signaturesVars
<1>3. Inv => ReplayWins
  BY ItselfIsBest, TelemetryAssumption DEF ReplayWins
<1>4. QED
  BY <1>1, <1>2, <1>3, PTL DEF TelemetrySpec

-----------------------------------------------------------------------------
(* The online detector: an event needs a whole run of abnormal seconds *)

\* Nothing sums to nothing: the least set for which a recursion over the finite subsets
\* gave something else would contain no element at all.
LEMMA NoEnergy ==
    ASSUME NEW tags, IsFiniteSet(tags), NEW z, \A t \in tags : z[t] = 0
    PROVE  Detector!Energy(z, tags) = 0
<1> DEFINE Pick(s) == CHOOSE x \in s : TRUE
           Step(iter, s) == IF s = {} THEN 0
                            ELSE iter[s \ {Pick(s)}] + z[Pick(s)] * z[Pick(s)]
           Solves(iter) == iter = [s \in SUBSET tags |-> Step(iter, s)]
           sum == CHOOSE iter : Solves(iter)
<1>1. Detector!Energy(z, tags) = sum[tags]
  BY DEF Detector!Energy, Detector!FoldSet, Detector!MapThenFoldSet
<1>2. Solves([s \in SUBSET tags |-> 0])
  <2> DEFINE zero == [s \in SUBSET tags |-> 0]
  <2>1. ASSUME NEW s \in SUBSET tags PROVE Step(zero, s) = 0
    <3>1. CASE s = {}
      BY <3>1
    <3>2. CASE s # {}
      <4>1. PICK x \in s : x = Pick(s)
        BY <3>2
      <4>2. zero[s \ {x}] = 0 /\ z[x] = 0
        BY <4>1
      <4>3. QED
        BY <3>2, <4>1, <4>2
    <3>3. QED
      BY <3>1, <3>2
  <2>2. zero = [s \in SUBSET tags |-> Step(zero, s)]
    BY <2>1, Zenon
  <2>3. QED
    BY <2>2, Zenon
<1>3. Solves(sum)
  <2> HIDE DEF Solves
  <2>1. QED
    BY <1>2, Zenon
<1>4. \A s \in SUBSET tags : sum[s] = Step(sum, s)
  <2> HIDE DEF Step, sum
  <2>1. QED
    BY <1>3, Zenon
<1> HIDE DEF sum
<1>5. ASSUME NEW bad \in SUBSET SUBSET tags,
             \A s \in SUBSET tags : s \in bad <=> sum[s] # 0
      PROVE  bad = {}
  <2> SUFFICES ASSUME bad # {} PROVE FALSE
    OBVIOUS
  <2>1. IsWellFoundedOn(StrictSubsetOrdering(tags), SUBSET tags)
    BY FS_StrictSubsetOrderingWellFounded, FS_FiniteSubsetsOfFinite
  <2>2. PICK s \in bad : \A r \in bad : <<r, s>> \notin StrictSubsetOrdering(tags)
    BY <2>1, WFMin
  <2>3. s # {}
    BY <1>4, <1>5
  <2>4. PICK x \in s : x = Pick(s)
    BY <2>3
  <2>5. <<s \ {x}, s>> \in StrictSubsetOrdering(tags)
    BY DEF StrictSubsetOrdering
  <2>6. sum[s \ {x}] = 0
    BY <1>5, <2>2, <2>5
  <2>7. z[x] = 0 /\ sum[s] = sum[s \ {x}] + z[x] * z[x]
    BY <1>4, <2>3, <2>4
  <2>8. QED
    BY <1>5, <2>6, <2>7
<1>6. sum[tags] = 0
  <2> DEFINE wrong == {s \in SUBSET tags : sum[s] # 0}
  <2>1. /\ wrong \in SUBSET SUBSET tags
        /\ \A s \in SUBSET tags : s \in wrong <=> sum[s] # 0
    OBVIOUS
  <2> HIDE DEF wrong
  <2>2. wrong = {}
    BY <1>5, <2>1
  <2>3. QED
    BY <2>1, <2>2
<1>7. QED
  BY <1>1, <1>6

\* A values that is nominal as far as it is known.
Nominal(values) == \A t \in Tags : values[t] \in {0, None}

LEMMA NominalIsNoAnomaly ==
    ASSUME Detector!DetectorAssumption, NEW values, Nominal(values)
    PROVE  ~Detector!IsAnomaly(values)
<1> DEFINE z == Detector!Standardized(values)
<1>1. \A t \in Tags : z[t] = 0
  BY DEF Nominal, Detector!Standardized
<1>2. IsFiniteSet(Tags) /\ Retained \subseteq Tags /\ T2Limit \in Nat /\ SpeLimit \in Nat
  BY DEF Detector!DetectorAssumption, Detector!IsFiniteSet, IsFiniteSet
<1>3. IsFiniteSet(Retained) /\ IsFiniteSet(Tags \ Retained)
  BY <1>2, FS_Subset
<1> HIDE DEF z
<1>4. Detector!Energy(z, Retained) = 0 /\ Detector!Energy(z, Tags \ Retained) = 0
  BY <1>1, <1>2, <1>3, NoEnergy
<1>5. QED
  BY <1>2, <1>4 DEF Detector!IsAnomaly, z

\* The last n scores are anomalies.
Run(scores, n) ==
    n <= Len(scores) /\ \A i \in Len(scores) - n + 1 .. Len(scores) : scores[i]

\* As many samples on end were off as there are anomalies at the end of the history.
DetectorInv ==
    /\ history \in Seq(BOOLEAN)
    /\ standing \in 0 .. Persistence
    /\ \A n \in 1 .. Persistence : Run(history, n) => n <= standing
    /\ Detector!EventsPersist

LEMMA DetectorInit == ASSUME Detector!DetectorAssumption PROVE Detector!Init => DetectorInv
  BY DEF Detector!DetectorAssumption, Detector!Init, DetectorInv, Run, Detector!EventsPersist

\* What is remembered of the anomalies, with the oldest gone or not.
LEMMA RunOfRemembered ==
    ASSUME history \in Seq(BOOLEAN), NEW anomaly \in BOOLEAN, NEW n \in Nat \ {0},
           Run(Detector!Remember(anomaly), n)
    PROVE  anomaly /\ Run(history, n - 1)
<1> DEFINE longer == Append(history, anomaly)
           scores == Detector!Remember(anomaly)
<1>1. /\ longer \in Seq(BOOLEAN) /\ Len(longer) = Len(history) + 1
      /\ longer[Len(longer)] = anomaly
      /\ \A i \in 1 .. Len(history) : longer[i] = history[i]
  OBVIOUS
<1>2. scores = longer \/ scores = Tail(longer)
  BY DEF Detector!Remember
<1> HIDE DEF longer, scores
<1>3. n <= Len(scores) /\ \A i \in Len(scores) - n + 1 .. Len(scores) : scores[i]
  BY DEF Run, scores
<1>4. CASE scores = longer
  <2>1. longer[Len(longer)]
    BY <1>1, <1>3, <1>4
  <2>2. ASSUME NEW i \in Len(history) - (n - 1) + 1 .. Len(history) PROVE history[i]
    BY <1>1, <1>3, <1>4, <2>2
  <2>3. n - 1 <= Len(history)
    BY <1>1, <1>3, <1>4
  <2>4. QED
    BY <1>1, <2>1, <2>2, <2>3 DEF Run
<1>5. CASE scores = Tail(longer)
  <2>1. Len(scores) = Len(history) /\ \A i \in 1 .. Len(history) : scores[i] = longer[i + 1]
    BY <1>1, <1>5
  <2>2. scores[Len(scores)]
    BY <1>1, <1>3, <2>1
  <2>3. scores[Len(scores)] = longer[Len(longer)]
    BY <1>1, <1>3, <2>1
  <2>4. ASSUME NEW i \in Len(history) - (n - 1) + 1 .. Len(history) PROVE history[i]
    <3>1. i \in Nat \ {0, 1} /\ i <= Len(history)
      BY <1>3, <2>1
    <3>2. scores[i - 1] = longer[i] /\ longer[i] = history[i]
      BY <1>1, <2>1, <3>1
    <3>3. i - 1 \in Len(scores) - n + 1 .. Len(scores)
      BY <2>1, <2>4, <3>1
    <3>4. scores[i - 1]
      BY <1>3, <3>3, Zenon
    <3>5. QED
      BY <3>2, <3>4, Zenon
  <2>5. n - 1 <= Len(history)
    BY <1>3, <2>1
  <2>6. QED
    BY <1>1, <2>2, <2>3, <2>4, <2>5 DEF Run
<1>6. QED
  BY <1>2, <1>4, <1>5

LEMMA DetectorKeeps ==
    ASSUME Detector!DetectorAssumption, DetectorInv, [Detector!Next]_Detector!vars
    PROVE  DetectorInv'
<1> USE DEF DetectorInv
<1>0. Persistence \in Nat \ {0}
  BY DEF Detector!DetectorAssumption
<1>1. CASE Detector!Next
  <2>1. PICK values : /\ Detector!ProcessSample(values)
                      /\ standing' = IF Nominal(values) THEN 0
                                     ELSE IF standing = Persistence THEN standing ELSE standing + 1
    BY <1>1 DEF Detector!Next, Nominal
  <2> DEFINE anomaly == Detector!IsAnomaly(values)
  <2>2. anomaly \in BOOLEAN
    BY DEF Detector!IsAnomaly
  <2>3. /\ history' = Detector!Remember(anomaly)
        /\ event' = (muted = 0 /\ Detector!Persists(Detector!Remember(anomaly)))
    BY <2>1 DEF Detector!ProcessSample
  <2>4. anomaly => ~Nominal(values)
    BY NominalIsNoAnomaly
  <2> HIDE DEF anomaly
  <2>5. history' \in Seq(BOOLEAN)
    <3> DEFINE longer == Append(history, anomaly)
    <3>1. longer \in Seq(BOOLEAN) /\ longer # <<>>
      BY <2>2
    <3> HIDE DEF longer
    <3>2. Tail(longer) \in Seq(BOOLEAN)
      BY <3>1
    <3>3. history' \in {longer, Tail(longer)}
      BY <2>3 DEF Detector!Remember, longer
    <3>4. QED
      BY <3>1, <3>2, <3>3
  <2>6. standing' \in 0 .. Persistence
    BY <1>0, <2>1
  <2>7. ASSUME NEW n \in 1 .. Persistence, Run(history', n) PROVE n <= standing'
    <3>1. anomaly /\ Run(history, n - 1)
      BY <2>2, <2>3, <2>7, RunOfRemembered
    <3>2. n = 1 \/ n - 1 <= standing
      BY <1>0, <3>1
    <3>3. QED
      BY <1>0, <2>1, <2>4, <3>1, <3>2
  <2>8. event' => Run(history', Persistence)
    BY <2>3 DEF Detector!Persists, Run
  <2>9. event' => standing' = Persistence
    BY <1>0, <2>6, <2>7, <2>8
  <2>10. QED
    BY <2>5, <2>6, <2>7, <2>9 DEF Detector!EventsPersist, Run
<1>2. CASE UNCHANGED Detector!vars
  BY <1>2 DEF Detector!vars, Run, Detector!EventsPersist
<1>3. QED
  BY <1>1, <1>2

-----------------------------------------------------------------------------
(* The fleet: a replica is taken away only after a lull *)

FleetInv ==
    /\ backlog \in Nat /\ listed \in Nat /\ scaling \in Nat \cup {None}
    /\ quiet \in Nat /\ lull \in Nat
    /\ quiet <= lull /\ lull <= QuietTicks
    /\ Fleet!LullKept

\* The larger and the smaller of two.
LEMMA Extremes ==
    ASSUME NEW x \in Nat, NEW y \in Nat
    PROVE  Fleet!Max({x, y}) \in {x, y} /\ Fleet!Min({x, y}) \in {x, y}
<1>1. \E m \in {x, y} : \A n \in {x, y} : m >= n
  OBVIOUS
<1>2. \E m \in {x, y} : \A n \in {x, y} : m <= n
  OBVIOUS
<1>3. QED
  BY <1>1, <1>2 DEF Fleet!Max, Fleet!Min

LEMMA DesiredIsNat ==
    ASSUME Fleet!FleetAssumption, backlog \in Nat PROVE Fleet!Desired \in Nat
<1> DEFINE wanted == (backlog + PerWorker - 1) \div PerWorker
<1>1. MinReplicas \in Nat /\ MaxReplicas \in Nat /\ PerWorker \in Nat \ {0}
  BY DEF Fleet!FleetAssumption
<1>2. wanted \in Nat
  BY <1>1
<1>3. Fleet!Min({MaxReplicas, wanted}) \in Nat
  BY <1>1, <1>2, Extremes
<1>4. Fleet!Max({MinReplicas, Fleet!Min({MaxReplicas, wanted})}) \in Nat
  <2> DEFINE capped == Fleet!Min({MaxReplicas, wanted})
  <2>1. capped \in Nat
    BY <1>3
  <2> HIDE DEF capped
  <2>2. Fleet!Max({MinReplicas, capped}) \in {MinReplicas, capped}
    BY <1>1, <2>1, Extremes
  <2>3. Fleet!Max({MinReplicas, capped}) \in Nat
    BY <1>1, <2>1, <2>2
  <2>4. QED
    BY <2>3 DEF capped
<1>5. QED
  BY <1>4 DEF Fleet!Desired

LEMMA FleetInit == ASSUME Fleet!FleetAssumption PROVE Fleet!Init => FleetInv
  BY DEF Fleet!FleetAssumption, Fleet!Init, FleetInv, Fleet!LullKept

LEMMA FleetKeeps ==
    ASSUME Fleet!FleetAssumption, FleetInv, [Fleet!Next]_Fleet!vars PROVE FleetInv'
<1> USE DEF FleetInv, Fleet!LullKept
<1>1. CASE Fleet!Tick
  <2>1. Fleet!Desired \in Nat /\ QuietTicks \in Nat \ {0}
    BY DesiredIsNat DEF Fleet!FleetAssumption
  <2>2. UNCHANGED <<form, backlog, errors>> /\ Fleet!Apply
        /\ lull' = IF Fleet!Desired >= listed THEN 0
                   ELSE IF lull < QuietTicks THEN lull + 1 ELSE lull
    BY <1>1 DEF Fleet!Tick
  <2> DEFINE want == Fleet!Desired
  <2>3. want \in Nat
    BY <2>1
  <2>4. ASSUME NEW target \in Nat, Fleet!ScaleTo(target)
        PROVE  listed' \in Nat /\ scaling' \in Nat \cup {None}
    BY <2>4 DEF Fleet!ScaleTo, Fleet!ScaleProcesses, Fleet!ScaleCompose
  <2>5. ASSUME Fleet!Stay PROVE listed' = listed /\ scaling' = scaling
    BY <2>5 DEF Fleet!Stay
  <2>6. CASE want > listed
    BY <2>1, <2>2, <2>4, <2>6 DEF Fleet!Apply
  <2>7. CASE want = listed
    BY <2>1, <2>2, <2>5, <2>7 DEF Fleet!Apply
  <2>8. CASE want < listed /\ quiet + 1 >= QuietTicks
    <3>1. Fleet!ScaleTo(listed - 1) /\ quiet' = 0
      BY <2>1, <2>2, <2>8 DEF Fleet!Apply
    <3>2. listed - 1 \in Nat
      BY <2>3, <2>8
    <3>3. lull' = QuietTicks
      BY <2>1, <2>2, <2>8
    <3>4. listed' \in Nat /\ scaling' \in Nat \cup {None}
      BY <2>4, <3>1, <3>2
    <3>5. QED
      BY <2>1, <2>2, <3>1, <3>3, <3>4
  <2>9. CASE want < listed /\ quiet + 1 < QuietTicks
    <3>1. Fleet!Stay /\ quiet' = quiet + 1 /\ taken' = FALSE
      BY <2>1, <2>2, <2>9 DEF Fleet!Apply
    <3>2. quiet' <= lull' /\ lull' <= QuietTicks /\ lull' \in Nat
      BY <2>1, <2>2, <2>9, <3>1
    <3>3. QED
      BY <2>2, <2>5, <3>1, <3>2
  <2>10. QED
    BY <2>1, <2>6, <2>7, <2>8, <2>9
<1>2. CASE Fleet!TickFails
  BY <1>2 DEF Fleet!TickFails
<1>3. CASE Fleet!ScaleNow
  BY <1>3 DEF Fleet!ScaleNow
<1>4. CASE Fleet!Work
  BY <1>4 DEF Fleet!Work
<1>5. CASE Fleet!Die
  BY <1>5 DEF Fleet!Die
<1>6. CASE Fleet!Drained
  BY <1>6 DEF Fleet!Drained
<1>7. CASE UNCHANGED Fleet!vars
  BY <1>7 DEF Fleet!vars
<1>8. QED
  BY <1>1, <1>2, <1>3, <1>4, <1>5, <1>6, <1>7 DEF Fleet!Next

\* An event waits for Persistence anomalous seconds on end (OnlineDetector.process_sample),
\* whatever the limits and the window, and a smaller fleet for QuietTicks ticks on end in
\* which fewer would have done (Autoscaler), whatever the backlog does.
THEOREM RunsAreWaitedOut == TelemetrySpec => []RunsWaitedOut
<1> DEFINE Inv == (stage = "detector" => DetectorInv) /\ (stage = "fleet" => FleetInv)
<1>1. TelemetryInit => Inv
  BY DetectorInit, FleetInit, TelemetryAssumption DEF TelemetryInit
<1>2. Inv /\ [TelemetryNext]_telemetryVars => Inv'
  BY StageSteps, DetectorKeeps, FleetKeeps, TelemetryAssumption
<1>3. Inv => RunsWaitedOut
  BY DEF DetectorInv, FleetInv, RunsWaitedOut
<1>4. QED
  BY <1>1, <1>2, <1>3, PTL DEF TelemetrySpec

-----------------------------------------------------------------------------
(* The process watcher: one alert for an excursion *)

PlantSamples == [level : Alarm!Plant!Levels, epoch : Nat]

AlarmTypes ==
    /\ Alarm!TypeOK
    /\ stream \in Seq(PlantSamples)
    /\ channel \in Seq(Nat) /\ \A k \in 1..Len(channel) : channel[k] <= epoch
    /\ heard \in Nat

\* The alert that was sent last is that of the open alarm.
AlertIsOpen == alerted # None => open # None /\ open.level = alerted

\* The clock of the alarm has not run longer than the process has been inside.
ClockKept == open # None /\ open.cleared # Never => calm # Never /\ calm >= open.cleared

\* The alarm the check has found is the one there is, or has been dropped since;
\* and if its clock had run out, it had by the time that counts.
FoundAlarm ==
    hand # None =>
        /\ hand.sample.level \in Alarm!Plant!Levels /\ hand.sample.epoch \in Nat
        /\ hand.found \in Alarm!Watcher!OpenAlarms \cup {None}
        /\ hand.found = None => open = None
        /\ open # None => open.level = hand.found.level
        /\ hand.found # None /\ hand.found.cleared = Debounce => calm = Debounce

AlarmInv == AlarmTypes /\ AlertIsOpen /\ ClockKept /\ FoundAlarm

LEMMA AlarmInit == ASSUME Alarm!PlantAssumption PROVE Alarm!Init => AlarmInv
<1> SUFFICES ASSUME Alarm!Init PROVE AlarmInv
  OBVIOUS
<1>1. /\ running = TRUE /\ level = "in" /\ epoch = 0
      /\ stream = <<>> /\ channel = <<>> /\ listening = TRUE /\ errors = 0
      /\ open = None /\ batch = 0 /\ hand = None
      /\ heard = 0 /\ alerted = None /\ calm = Never /\ restarts = 0
  BY DEF Alarm!Init, Alarm!Plant!Init, Alarm!Watcher!Init
<1>2. AlarmTypes
  BY <1>1 DEF AlarmTypes, Alarm!TypeOK, Alarm!Watcher!TypeOK, Alarm!Watcher!Ages,
              Alarm!Plant!Levels, Alarm!PlantAssumption, Alarm!Watcher!WatcherAssumption,
              Alarm!Plant!FeedAssumption
<1> QED BY <1>1, <1>2 DEF AlarmInv, AlertIsOpen, ClockKept, FoundAlarm

\* What was read is lost: the rest of the stream.
LEMMA BatchDropped ==
    ASSUME AlarmTypes, Alarm!Watcher!LoseBatch
    PROVE  /\ stream' \in Seq(PlantSamples)
           /\ batch' \in 0..Len(stream')
<1>1. stream \in Seq(PlantSamples) /\ batch \in 0..Len(stream)
  BY DEF AlarmTypes, Alarm!TypeOK, Alarm!Watcher!TypeOK
<1>2. stream' = SubSeq(stream, batch + 1, Len(stream)) /\ batch' = 0
  BY DEF Alarm!Watcher!LoseBatch
<1>3. stream' \in Seq(PlantSamples)
  BY <1>1, <1>2, SubSeqProperties
<1> QED BY <1>2, <1>3, LenProperties

\* A step that publishes nothing and hears nothing.
LEMMA ChecksKeepTypes ==
    ASSUME AlarmTypes, Alarm!PlantAssumption,
           UNCHANGED <<running, level, epoch, channel, listening, heard, errors, restarts>>,
           stream' \in Seq(PlantSamples), batch' \in 0..Len(stream'),
           open' \in Alarm!Watcher!OpenAlarms \cup {None},
           hand' # None => Alarm!Watcher!Breach(hand'.sample) \/ hand'.sample.level = "in",
           alerted' \in Alarms \cup {None}, calm' \in Alarm!Watcher!Ages
    PROVE  AlarmTypes'
BY DEF AlarmTypes, Alarm!TypeOK, Alarm!Watcher!TypeOK, Alarm!Watcher!Breach, PlantSamples,
       Alarm!Watcher!OpenAlarms, Alarm!Watcher!Ages, Alarm!Plant!Levels

LEMMA LookKeeps ==
    ASSUME AlarmInv, Alarm!PlantAssumption, Alarm!Watcher!Look,
           UNCHANGED <<running, level, epoch>>
    PROVE  AlarmInv'
<1>1. /\ hand = None /\ batch > 0
      /\ hand' = [sample |-> Head(stream), found |-> open]
      /\ stream' = Tail(stream) /\ batch' = batch - 1
      /\ UNCHANGED <<channel, listening, open, heard, alerted, calm, errors, restarts>>
  BY DEF Alarm!Watcher!Look
<1>2. /\ stream \in Seq(PlantSamples) /\ batch \in 0..Len(stream)
      /\ open \in Alarm!Watcher!OpenAlarms \cup {None}
      /\ alerted \in Alarms \cup {None} /\ calm \in Alarm!Watcher!Ages
  BY DEF AlarmInv, AlarmTypes, Alarm!TypeOK, Alarm!Watcher!TypeOK
<1>3. /\ Head(stream) \in PlantSamples /\ Tail(stream) \in Seq(PlantSamples)
      /\ Len(Tail(stream)) = Len(stream) - 1
  <2>1. stream # <<>> /\ Len(stream) \in Nat
    BY <1>1, <1>2, EmptySeq, LenProperties
  <2> QED BY <1>2, <2>1, HeadTailProperties
<1>4. batch' \in 0..Len(stream')
  BY <1>1, <1>2, <1>3
<1>5. hand'.sample \in PlantSamples /\ hand'.found = open
  BY <1>1, <1>3
<1>6. Head(stream).level \in Alarm!Plant!Levels /\ Head(stream).epoch \in Nat
  BY <1>3 DEF PlantSamples
<1>7. Alarm!Watcher!Breach(hand'.sample) \/ hand'.sample.level = "in"
  BY <1>1, <1>6 DEF Alarm!Watcher!Breach, Alarm!Plant!Levels
<1>8. AlarmTypes'
  BY <1>1, <1>2, <1>3, <1>4, <1>7, ChecksKeepTypes DEF AlarmInv
<1>9. FoundAlarm'
  <2>1. open # None /\ open.cleared = Debounce => calm = Debounce
    BY <1>2 DEF AlarmInv, ClockKept, Alarm!Watcher!Ages, Alarm!PlantAssumption,
               Alarm!Watcher!WatcherAssumption
  <2> QED BY <1>1, <1>2, <1>6, <2>1 DEF FoundAlarm
<1> QED BY <1>1, <1>8, <1>9 DEF AlarmInv, AlertIsOpen, ClockKept

LEMMA RaiseKeeps ==
    ASSUME AlarmInv, Alarm!PlantAssumption, Alarm!Watcher!Raise,
           UNCHANGED <<running, level, epoch>>
    PROVE  AlarmInv'
<1>1. PICK sent \in BOOLEAN :
         /\ IF sent THEN UNCHANGED errors ELSE Alarm!Watcher!Fault
         /\ open' = [level |-> hand.sample.level, cleared |-> Never,
                     epoch |-> hand.sample.epoch, heard |-> heard, sent |-> sent]
  BY DEF Alarm!Watcher!Raise
<1>2. /\ hand # None /\ hand.sample.level \in Alarms
      /\ alerted' = hand.sample.level /\ calm' = Never /\ hand' = None
      /\ UNCHANGED <<stream, channel, listening, batch, heard, restarts>>
  BY DEF Alarm!Watcher!Raise, Alarm!Watcher!Breach
<1>3. open' \in Alarm!Watcher!OpenAlarms /\ open' # None
  <2>1. hand.sample.epoch \in Nat /\ heard \in Nat
    BY <1>2 DEF AlarmInv, FoundAlarm, AlarmTypes
  <2>2. open' \in Alarm!Watcher!OpenAlarms
    BY <1>1, <1>2, <2>1 DEF Alarm!Watcher!OpenAlarms, Alarm!Watcher!Ages
  <2> QED BY <2>2 DEF Alarm!PlantAssumption, Alarm!Watcher!WatcherAssumption
<1>4. errors' \in 0..MaxErrors
  BY <1>1 DEF Alarm!Watcher!Fault, AlarmInv, AlarmTypes, Alarm!TypeOK, Alarm!Watcher!TypeOK,
              Alarm!PlantAssumption, Alarm!Watcher!WatcherAssumption
<1>5. AlarmTypes'
  BY <1>2, <1>3, <1>4 DEF AlarmInv, AlarmTypes, Alarm!TypeOK, Alarm!Watcher!TypeOK,
                          Alarm!Watcher!Ages
<1>6. open'.level = alerted' /\ open'.cleared = Never
  BY <1>1, <1>2
<1> QED BY <1>2, <1>3, <1>5, <1>6 DEF AlarmInv, AlertIsOpen, ClockKept, FoundAlarm

LEMMA StillOutKeeps ==
    ASSUME AlarmInv, Alarm!PlantAssumption, Alarm!Watcher!StillOut,
           UNCHANGED <<running, level, epoch>>
    PROVE  AlarmInv'
<1>1. /\ open' = IF open = None THEN None ELSE [open EXCEPT !.cleared = Never]
      /\ calm' = Never /\ hand' = None
      /\ UNCHANGED <<stream, channel, listening, batch, heard, alerted, errors, restarts>>
  BY DEF Alarm!Watcher!StillOut
<1>2. /\ open \in Alarm!Watcher!OpenAlarms \cup {None}
      /\ stream \in Seq(PlantSamples) /\ batch \in 0..Len(stream)
      /\ alerted \in Alarms \cup {None}
  BY DEF AlarmInv, AlarmTypes, Alarm!TypeOK, Alarm!Watcher!TypeOK
<1>3. /\ open' \in Alarm!Watcher!OpenAlarms \cup {None}
      /\ open # None => open'.level = open.level /\ open'.cleared = Never /\ open' # None
  <2>1. ASSUME open # None
        PROVE  /\ open' \in Alarm!Watcher!OpenAlarms
               /\ open'.level = open.level /\ open'.cleared = Never
    BY <1>1, <1>2, <2>1 DEF Alarm!Watcher!OpenAlarms, Alarm!Watcher!Ages
  <2> QED BY <1>1, <2>1 DEF Alarm!PlantAssumption, Alarm!Watcher!WatcherAssumption
<1>4. calm' \in Alarm!Watcher!Ages
  BY <1>1 DEF Alarm!Watcher!Ages
<1>5. AlarmTypes'
  BY <1>1, <1>2, <1>3, <1>4, ChecksKeepTypes DEF AlarmInv
<1> QED BY <1>1, <1>3, <1>5 DEF AlarmInv, AlertIsOpen, ClockKept, FoundAlarm

LEMMA InsideKeeps ==
    ASSUME AlarmInv, Alarm!PlantAssumption, Alarm!Watcher!Inside,
           UNCHANGED <<running, level, epoch>>
    PROVE  AlarmInv'
<1> DEFINE ripe == hand.found # None /\ hand.found.cleared = Debounce
<1>1. /\ hand # None /\ hand' = None
      /\ open = None \/ ripe => open' = None
      /\ open # None /\ ~ripe => open' = [open EXCEPT !.cleared = IF @ = Never THEN 0 ELSE @]
      /\ IF ripe /\ open = None THEN Alarm!Watcher!LoseBatch ELSE UNCHANGED <<stream, batch>>
      /\ calm' = IF calm = Never THEN 0 ELSE calm
      /\ alerted' = IF calm = Debounce THEN None ELSE alerted
      /\ UNCHANGED <<channel, listening, heard, errors, restarts>>
  BY DEF Alarm!Watcher!Inside
<1>2. /\ open \in Alarm!Watcher!OpenAlarms \cup {None}
      /\ stream \in Seq(PlantSamples) /\ batch \in 0..Len(stream)
      /\ alerted \in Alarms \cup {None} /\ calm \in Alarm!Watcher!Ages
      /\ Debounce \in Nat /\ Never \notin 0..Debounce
  BY DEF AlarmInv, AlarmTypes, Alarm!TypeOK, Alarm!Watcher!TypeOK, Alarm!PlantAssumption,
         Alarm!Watcher!WatcherAssumption
<1>3. stream' \in Seq(PlantSamples) /\ batch' \in 0..Len(stream')
  BY <1>1, <1>2, BatchDropped DEF AlarmInv
<1>4. calm' \in Alarm!Watcher!Ages /\ calm' # Never /\ alerted' \in Alarms \cup {None}
  BY <1>1, <1>2 DEF Alarm!Watcher!Ages
<1>5. ASSUME open # None, ~ripe
      PROVE  /\ open' \in Alarm!Watcher!OpenAlarms /\ open' # None
             /\ open'.level = open.level
             /\ open'.cleared = IF open.cleared = Never THEN 0 ELSE open.cleared
  <2>1. /\ open' \in Alarm!Watcher!OpenAlarms
        /\ open'.level = open.level
        /\ open'.cleared = IF open.cleared = Never THEN 0 ELSE open.cleared
    BY <1>1, <1>2, <1>5 DEF Alarm!Watcher!OpenAlarms, Alarm!Watcher!Ages
  <2> QED BY <2>1 DEF Alarm!PlantAssumption, Alarm!Watcher!WatcherAssumption
<1>6. open' \in Alarm!Watcher!OpenAlarms \cup {None}
  BY <1>1, <1>5
<1>7. AlarmTypes'
  BY <1>1, <1>3, <1>4, <1>6, ChecksKeepTypes DEF AlarmInv
<1>8. AlertIsOpen'
  <2>1. ripe => calm = Debounce
    BY <1>1 DEF AlarmInv, FoundAlarm
  <2>2. alerted' # None => alerted' = alerted /\ ~ripe /\ open # None /\ open.level = alerted
    BY <1>1, <2>1 DEF AlarmInv, AlertIsOpen
  <2> HIDE DEF ripe
  <2> QED BY <1>5, <2>2 DEF AlertIsOpen
<1>9. ClockKept'
  <2>1. CASE open' = None
    BY <2>1 DEF ClockKept
  <2>2. CASE open # None /\ ~ripe
    <3>1. calm' >= open'.cleared
      <4>1. open.cleared # Never => calm # Never /\ calm >= open.cleared
        BY <2>2 DEF AlarmInv, ClockKept
      <4>2. calm' \in 0..Debounce
        BY <1>4 DEF Alarm!Watcher!Ages
      <4> QED BY <1>1, <1>5, <2>2, <4>1, <4>2
    <3> QED BY <1>4, <3>1 DEF ClockKept
  <2> QED BY <1>1, <2>1, <2>2
<1> QED BY <1>1, <1>7, <1>8, <1>9 DEF AlarmInv, FoundAlarm

LEMMA WaitKeeps ==
    ASSUME AlarmInv, Alarm!PlantAssumption, Alarm!Watcher!Wait,
           UNCHANGED <<running, level, epoch>>
    PROVE  AlarmInv'
<1>1. /\ open = None => open' = None
      /\ open # None => open' = [open EXCEPT !.cleared = Alarm!Watcher!Older(@)]
      /\ calm' = Alarm!Watcher!Older(calm)
      /\ UNCHANGED <<stream, channel, listening, batch, hand, heard, alerted, errors, restarts>>
  BY DEF Alarm!Watcher!Wait
<1>2. /\ open \in Alarm!Watcher!OpenAlarms \cup {None}
      /\ stream \in Seq(PlantSamples) /\ batch \in 0..Len(stream)
      /\ alerted \in Alarms \cup {None} /\ calm \in Alarm!Watcher!Ages
      /\ hand # None => Alarm!Watcher!Breach(hand.sample) \/ hand.sample.level = "in"
      /\ Debounce \in Nat /\ Never \notin 0..Debounce /\ None \notin Alarm!Watcher!OpenAlarms
  BY DEF AlarmInv, AlarmTypes, Alarm!TypeOK, Alarm!Watcher!TypeOK, Alarm!PlantAssumption,
         Alarm!Watcher!WatcherAssumption
<1>3. ASSUME NEW age \in Alarm!Watcher!Ages
      PROVE  /\ Alarm!Watcher!Older(age) \in Alarm!Watcher!Ages
             /\ age = Never <=> Alarm!Watcher!Older(age) = Never
             /\ age = Debounce => Alarm!Watcher!Older(age) = Debounce
             /\ age # Never /\ age # Debounce => Alarm!Watcher!Older(age) = age + 1
  BY <1>2 DEF Alarm!Watcher!Older, Alarm!Watcher!Ages
<1>4. ASSUME open # None
      PROVE  /\ open' \in Alarm!Watcher!OpenAlarms /\ open' # None
             /\ open'.level = open.level /\ open.cleared \in Alarm!Watcher!Ages
             /\ open'.cleared = Alarm!Watcher!Older(open.cleared)
  <2>1. open \in Alarm!Watcher!OpenAlarms /\ open.cleared \in Alarm!Watcher!Ages
    BY <1>2, <1>4 DEF Alarm!Watcher!OpenAlarms
  <2>2. Alarm!Watcher!Older(open.cleared) \in Alarm!Watcher!Ages
    BY <1>3, <2>1
  <2>3. open' = [open EXCEPT !.cleared = Alarm!Watcher!Older(open.cleared)]
    BY <1>1, <1>4
  <2>4. /\ open' \in Alarm!Watcher!OpenAlarms
        /\ open'.level = open.level
        /\ open'.cleared = Alarm!Watcher!Older(open.cleared)
    BY <2>1, <2>2, <2>3 DEF Alarm!Watcher!OpenAlarms
  <2> QED BY <1>2, <2>1, <2>4
<1>5. AlarmTypes'
  BY <1>1, <1>2, <1>3, <1>4, ChecksKeepTypes DEF AlarmInv
<1>6. AlertIsOpen'
  BY <1>1, <1>4 DEF AlarmInv, AlertIsOpen
<1>7. ClockKept'
  <2>1. CASE open # None
    <3>1. open.cleared # Never => calm # Never /\ calm >= open.cleared
      BY <2>1 DEF AlarmInv, ClockKept
    <3>2. open'.cleared # Never => calm' # Never /\ calm' >= open'.cleared
      <4>1. /\ open.cleared \in Alarm!Watcher!Ages
            /\ open'.cleared = Alarm!Watcher!Older(open.cleared)
            /\ calm' = Alarm!Watcher!Older(calm)
        BY <1>1, <1>4, <2>1
      <4> QED BY <1>2, <3>1, <4>1 DEF Alarm!Watcher!Older, Alarm!Watcher!Ages
    <3> QED BY <3>2 DEF ClockKept
  <2> QED BY <1>1, <2>1 DEF ClockKept
<1>8. FoundAlarm'
  BY <1>1, <1>2, <1>3, <1>4 DEF AlarmInv, FoundAlarm
<1> QED BY <1>5, <1>6, <1>7, <1>8 DEF AlarmInv

LEMMA HearKeeps ==
    ASSUME AlarmInv, Alarm!PlantAssumption, Alarm!Watcher!Hear,
           UNCHANGED <<running, level, epoch>>
    PROVE  AlarmInv'
<1>1. /\ channel # <<>> /\ heard' = Head(channel) /\ channel' = Tail(channel)
      /\ open' = None /\ alerted' = None
      /\ UNCHANGED <<stream, listening, batch, hand, calm, errors, restarts>>
  BY DEF Alarm!Watcher!Hear
<1>2. /\ channel \in Seq(Nat) /\ \A k \in 1..Len(channel) : channel[k] <= epoch
      /\ Len(channel) \in Nat /\ Len(channel) > 0
  BY <1>1, EmptySeq, LenProperties DEF AlarmInv, AlarmTypes
<1>3. /\ Head(channel) \in Nat /\ Head(channel) <= epoch
      /\ Tail(channel) \in Seq(Nat) /\ Len(Tail(channel)) = Len(channel) - 1
      /\ \A k \in 1..Len(Tail(channel)) : Tail(channel)[k] = channel[k + 1]
  BY <1>1, <1>2, HeadTailProperties
<1>4. \A k \in 1..Len(channel') : channel'[k] <= epoch
  BY <1>1, <1>2, <1>3
<1>5. AlarmTypes'
  BY <1>1, <1>3, <1>4 DEF AlarmInv, AlarmTypes, Alarm!TypeOK, Alarm!Watcher!TypeOK,
                          Alarm!Watcher!Breach
<1> QED BY <1>1, <1>5 DEF AlarmInv, AlertIsOpen, ClockKept, FoundAlarm

\* The listener's end, a batch lost and a restart of the watcher.
LEMMA FailureKeeps ==
    ASSUME AlarmInv, Alarm!PlantAssumption, UNCHANGED <<running, level, epoch>>,
           \/ Alarm!Watcher!ListenerDies \/ Alarm!Watcher!BatchLost \/ Alarm!Watcher!Restart
    PROVE  AlarmInv'
<1>1. /\ UNCHANGED heard
      /\ \/ UNCHANGED <<open, hand, alerted, calm, restarts>>
         \/ /\ open' = None /\ hand' = None /\ alerted' = None /\ calm' = Never
            /\ restarts < MaxRestarts /\ restarts' = restarts + 1
      /\ channel' \in {channel, <<>>} /\ listening' \in {listening, TRUE, FALSE}
      /\ UNCHANGED errors \/ Alarm!Watcher!Fault
      /\ UNCHANGED <<stream, batch>> \/ Alarm!Watcher!LoseBatch
  BY DEF Alarm!Watcher!ListenerDies, Alarm!Watcher!BatchLost, Alarm!Watcher!Restart
<1>2. /\ restarts \in 0..MaxRestarts /\ errors \in 0..MaxErrors
      /\ MaxRestarts \in Nat /\ MaxErrors \in Nat
      /\ channel \in Seq(Nat) /\ \A k \in 1..Len(channel) : channel[k] <= epoch
  BY DEF AlarmInv, AlarmTypes, Alarm!TypeOK, Alarm!Watcher!TypeOK, Alarm!PlantAssumption,
         Alarm!Watcher!WatcherAssumption
<1>3. errors' \in 0..MaxErrors /\ restarts' \in 0..MaxRestarts
  BY <1>1, <1>2 DEF Alarm!Watcher!Fault
<1>4. channel' \in Seq(Nat) /\ \A k \in 1..Len(channel') : channel'[k] <= epoch
  <2>1. CASE channel' = channel
    BY <1>2, <2>1
  <2>2. CASE channel' = <<>>
    <3>1. channel' \in Seq(Nat) /\ Len(channel') = 0
      BY <2>2
    <3> QED BY <3>1
  <2> QED BY <1>1, <2>1, <2>2
<1>5. stream' \in Seq(PlantSamples) /\ batch' \in 0..Len(stream')
  BY <1>1, BatchDropped DEF AlarmInv, AlarmTypes, Alarm!TypeOK, Alarm!Watcher!TypeOK
<1>6. AlarmTypes'
  BY <1>1, <1>3, <1>4, <1>5 DEF AlarmInv, AlarmTypes, Alarm!TypeOK, Alarm!Watcher!TypeOK,
                                Alarm!Watcher!Ages, Alarm!Watcher!Breach
<1> QED BY <1>1, <1>6 DEF AlarmInv, AlertIsOpen, ClockKept, FoundAlarm

\* The stream and the channel take what is published.
LEMMA Published ==
    ASSUME AlarmTypes, NEW l \in Alarm!Plant!Levels, NEW e \in Nat
    PROVE  /\ Append(stream, Alarm!Plant!Sample(l, e)) \in Seq(PlantSamples)
           /\ batch \in 0..Len(Append(stream, Alarm!Plant!Sample(l, e)))
           /\ Append(channel, e) \in Seq(Nat)
           /\ epoch <= e => \A k \in 1..Len(Append(channel, e)) : Append(channel, e)[k] <= e
<1>1. /\ stream \in Seq(PlantSamples) /\ Len(stream) \in Nat
      /\ batch \in 0..Len(stream)
      /\ channel \in Seq(Nat) /\ Len(channel) \in Nat
      /\ \A k \in 1..Len(channel) : channel[k] \in Nat /\ channel[k] <= epoch
      /\ epoch \in 0..MaxResets
  BY ElementOfSeq, LenProperties DEF AlarmTypes, Alarm!TypeOK, Alarm!Watcher!TypeOK
<1>2. Alarm!Plant!Sample(l, e) \in PlantSamples
  BY DEF Alarm!Plant!Sample, PlantSamples
<1>3. /\ Append(stream, Alarm!Plant!Sample(l, e)) \in Seq(PlantSamples)
      /\ Len(Append(stream, Alarm!Plant!Sample(l, e))) = Len(stream) + 1
  BY <1>1, <1>2, AppendProperties
<1>4. /\ Append(channel, e) \in Seq(Nat)
      /\ Len(Append(channel, e)) = Len(channel) + 1
      /\ \A k \in 1..Len(channel) : Append(channel, e)[k] = channel[k]
      /\ Append(channel, e)[Len(channel) + 1] = e
  BY <1>1, AppendProperties
<1> QED BY <1>1, <1>3, <1>4

LEMMA PlantKeeps ==
    ASSUME AlarmInv, Alarm!PlantAssumption, Alarm!Plant!Next, UNCHANGED Alarm!watcherOnly
    PROVE  AlarmInv'
<1>1. UNCHANGED <<listening, open, batch, hand, heard, alerted, calm, restarts>>
  BY DEF Alarm!watcherOnly
<1>2. AlarmTypes /\ AlertIsOpen' /\ ClockKept' /\ FoundAlarm'
  BY <1>1 DEF AlarmInv, AlertIsOpen, ClockKept, FoundAlarm
<1>3. /\ epoch \in 0..MaxResets /\ MaxResets \in Nat /\ "in" \in Alarm!Plant!Levels
      /\ heard \in Nat /\ heard <= epoch
      /\ errors \in 0..MaxErrors /\ MaxErrors \in Nat
      /\ stream \in Seq(PlantSamples) /\ batch \in 0..Len(stream)
      /\ channel \in Seq(Nat) /\ \A k \in 1..Len(channel) : channel[k] \in Nat /\ channel[k] <= epoch
  BY <1>2, ElementOfSeq DEF AlarmTypes, Alarm!TypeOK, Alarm!Watcher!TypeOK, Alarm!PlantAssumption,
         Alarm!Plant!FeedAssumption, Alarm!Plant!Levels
<1>4. ASSUME running' \in BOOLEAN, level' \in Alarm!Plant!Levels,
             epoch' \in 0..MaxResets, epoch <= epoch', errors' \in 0..MaxErrors,
             stream' \in Seq(PlantSamples), batch \in 0..Len(stream'),
             channel' \in Seq(Nat), \A k \in 1..Len(channel') : channel'[k] <= epoch'
      PROVE  AlarmInv'
  <2>1. AlarmTypes'
    BY <1>1, <1>2, <1>3, <1>4 DEF AlarmTypes, Alarm!TypeOK, Alarm!Watcher!TypeOK,
                                  Alarm!Watcher!Breach
  <2> QED BY <1>2, <2>1 DEF AlarmInv
<1>5. running \in BOOLEAN /\ level \in Alarm!Plant!Levels
  BY <1>2 DEF AlarmTypes, Alarm!TypeOK
<1>6. Alarm!Plant!Fault => errors' \in 0..MaxErrors
  BY <1>3 DEF Alarm!Plant!Fault
<1>7. CASE Alarm!Plant!Emit
  <2>1. /\ UNCHANGED <<running, epoch, channel>> /\ level' \in Alarm!Plant!Levels
        /\ \/ stream' = Append(stream, Alarm!Plant!Sample(level', epoch)) /\ UNCHANGED errors
           \/ UNCHANGED stream /\ Alarm!Plant!Fault
    BY <1>7 DEF Alarm!Plant!Emit
  <2>2. stream' \in Seq(PlantSamples) /\ batch \in 0..Len(stream')
    <3>1. CASE stream' = Append(stream, Alarm!Plant!Sample(level', epoch))
      <4>1. epoch \in Nat
        BY <1>3
      <4> QED BY ONLY <1>2, <2>1, <3>1, <4>1, Published
    <3>2. CASE stream' = stream
      BY <1>3, <3>2
    <3> QED BY <2>1, <3>1, <3>2
  <2> QED BY <1>3, <1>4, <1>5, <1>6, <2>1, <2>2
<1>8. CASE Alarm!Plant!Reset
  <2>1. /\ epoch < MaxResets /\ epoch' = epoch + 1 /\ level' = "in" /\ running' \in {running, TRUE}
        /\ UNCHANGED errors \/ Alarm!Plant!Fault
        /\ stream' \in {stream, Append(stream, Alarm!Plant!Sample(level', epoch'))}
        /\ channel' \in {channel, Append(channel, epoch')}
    BY <1>8 DEF Alarm!Plant!Reset, Alarm!Plant!Nominal
  <2>2. epoch' \in Nat /\ epoch' \in 0..MaxResets /\ epoch <= epoch'
    BY <1>3, <2>1
  <2>3. stream' \in Seq(PlantSamples) /\ batch \in 0..Len(stream')
    <3>1. CASE stream' = Append(stream, Alarm!Plant!Sample(level', epoch'))
      <4>1. level' \in Alarm!Plant!Levels
        BY <1>3, <2>1
      <4> QED BY ONLY <1>2, <2>2, <3>1, <4>1, Published
    <3>2. CASE stream' = stream
      BY <1>3, <3>2
    <3> QED BY <2>1, <3>1, <3>2
  <2>4. channel' \in Seq(Nat) /\ \A k \in 1..Len(channel') : channel'[k] <= epoch'
    <3>1. CASE channel' = channel
      BY <1>3, <2>2, <3>1
    <3>2. CASE channel' = Append(channel, epoch')
      BY <1>2, <1>3, <2>2, <3>2, Published
    <3> QED BY <2>1, <3>1, <3>2
  <2> QED BY <1>3, <1>4, <1>5, <1>6, <2>1, <2>2, <2>3, <2>4
<1>9. CASE Alarm!Plant!Restart \/ Alarm!Plant!Switch
  <2>1. /\ \/ UNCHANGED <<level, epoch>> /\ running' = ~running
           \/ epoch < MaxResets /\ epoch' = epoch + 1 /\ level' = "in" /\ running' = TRUE
        /\ UNCHANGED <<stream, channel, errors>>
    BY <1>9 DEF Alarm!Plant!Restart, Alarm!Plant!Switch, Alarm!Plant!Nominal
  <2>2. epoch' \in 0..MaxResets /\ epoch <= epoch'
    BY <1>3, <2>1
  <2>3. \A k \in 1..Len(channel') : channel'[k] <= epoch'
    BY <1>3, <2>1, <2>2
  <2>4. running' \in BOOLEAN /\ level' \in Alarm!Plant!Levels
    BY <1>3, <1>5, <2>1
  <2> QED BY <1>3, <1>4, <2>1, <2>2, <2>3, <2>4
<1> QED BY <1>7, <1>8, <1>9 DEF Alarm!Plant!Next

LEMMA AlarmKeeps ==
    ASSUME Alarm!PlantAssumption, AlarmInv, [Alarm!Next]_Alarm!vars
    PROVE  AlarmInv'
<1>1. CASE Alarm!Plant!Next /\ UNCHANGED Alarm!watcherOnly
  BY <1>1, PlantKeeps
<1>2. CASE Alarm!Watcher!Next /\ UNCHANGED Alarm!plantOnly
  <2>1. UNCHANGED <<running, level, epoch>>
    BY <1>2 DEF Alarm!plantOnly
  <2>2. CASE Alarm!Watcher!Check
    <3>1. CASE Alarm!Watcher!Read
      <4>1. /\ hand = None /\ batch' = Len(stream)
            /\ UNCHANGED <<stream, channel, listening, open, hand, heard, alerted, calm,
                           errors, restarts>>
        BY <3>1 DEF Alarm!Watcher!Read
      <4>2. stream \in Seq(PlantSamples) /\ batch' \in 0..Len(stream')
        BY <4>1, LenProperties DEF AlarmInv, AlarmTypes
      <4>3. AlarmTypes'
        BY <2>1, <4>1, <4>2 DEF AlarmInv, AlarmTypes, Alarm!TypeOK, Alarm!Watcher!TypeOK
      <4> QED BY <4>1, <4>3 DEF AlarmInv, AlertIsOpen, ClockKept, FoundAlarm
    <3> QED BY <2>1, <2>2, <3>1, LookKeeps, RaiseKeeps, StillOutKeeps, InsideKeeps
            DEF Alarm!Watcher!Check
  <2> QED BY <1>2, <2>1, <2>2, HearKeeps, FailureKeeps, WaitKeeps DEF Alarm!Watcher!Next
<1>3. CASE UNCHANGED Alarm!vars
  <2>1. UNCHANGED <<running, level, epoch, stream, channel, listening, open, batch, hand,
                    heard, alerted, calm, restarts, errors>>
    BY <1>3 DEF Alarm!vars, Alarm!plantOnly, Alarm!watcherOnly
  <2>2. AlarmTypes'
    BY <2>1 DEF AlarmInv, AlarmTypes, Alarm!TypeOK, Alarm!Watcher!TypeOK, Alarm!Watcher!Breach
  <2> QED BY <2>1, <2>2 DEF AlarmInv, AlertIsOpen, ClockKept, FoundAlarm
<1> QED BY <1>1, <1>2, <1>3 DEF Alarm!Next

\* An alarm is not raised again while its last alert stands: the one there is has its
\* level, or it was dropped and the alert is over.
LEMMA RaisedAnew ==
    ASSUME AlarmInv, Alarm!PlantAssumption, Alarm!Watcher!Raise
    PROVE  alerted # hand.sample.level
<1>1. /\ hand # None /\ hand.sample.level \in Alarms
      /\ hand.found # None => hand.found.level # hand.sample.level
  BY DEF Alarm!Watcher!Raise, Alarm!Watcher!Breach
<1>2. CASE alerted = None
  BY <1>1, <1>2 DEF Alarm!PlantAssumption, Alarm!Watcher!WatcherAssumption
<1>3. CASE alerted # None
  BY <1>1, <1>3 DEF AlarmInv, AlertIsOpen, FoundAlarm
<1> QED BY <1>2, <1>3

\* The types of the plant and its watcher: what is counted as read is on the stream, and
\* no reset is heard that did not happen.
THEOREM AlarmTypeCorrect == TelemetrySpec => [](stage = "alarms" => Alarm!TypeOK)
<1> DEFINE Inv == stage = "alarms" => AlarmInv
<1>1. TelemetryInit => Inv
  BY AlarmInit, TelemetryAssumption DEF TelemetryInit
<1>2. Inv /\ [TelemetryNext]_telemetryVars => Inv'
  BY StageSteps, AlarmKeeps, TelemetryAssumption
<1>3. Inv => (stage = "alarms" => Alarm!TypeOK)
  BY DEF AlarmInv, AlarmTypes
<1>4. QED
  BY <1>1, <1>2, <1>3, PTL DEF TelemetrySpec

\* However the listener's thread and the check interleave (TepWatcher._check_message,
\* rearm_all), an alert repeats the level of the alert right before it only if between the
\* two the process was inside for DEBOUNCE_S, or a reset was heard, or the watcher was
\* restarted.  It may repeat an earlier one: an excursion that goes from H to HH and back is
\* three alerts, and the third is the first again.
THEOREM NoAlertTwiceRunning == TelemetrySpec => NoRepeat
<1> DEFINE Inv == stage = "alarms" => AlarmInv
<1>1. TelemetryInit => Inv
  BY AlarmInit, TelemetryAssumption DEF TelemetryInit
<1>2. Inv /\ [TelemetryNext]_telemetryVars => Inv'
  BY StageSteps, AlarmKeeps, TelemetryAssumption
<1>3. Inv => (stage = "alarms" /\ Alarm!Watcher!Raise => alerted # hand.sample.level)
  BY RaisedAnew, TelemetryAssumption
<1> HIDE DEF Inv
<1>4. QED
  BY <1>1, <1>2, <1>3, PTL DEF TelemetrySpec, NoRepeat

=============================================================================
