---------------------------- MODULE HistorianSink ----------------------------
(***************************************************************************)
(* The historian's telemetry sink: one consumer of a group on the capped   *)
(* stream plant:telemetry.  It reads a batch, copies it into the database  *)
(* in one transaction, acknowledges it, and goes back to its pending       *)
(* entries (cursor "0") after every failure and every restart.             *)
(*                                                                         *)
(* A sample is its number on the stream; the stream holds oldest..newest.  *)
(* The group is created at the stream's end, so that sample 1 is the first *)
(* one it is to deliver.                                                   *)
(***************************************************************************)
EXTENDS Naturals, FiniteSets

CONSTANTS
    MaxLen,      \* the publisher's cap on the stream
    Batch,       \* historian_batch_rows
    Malformed,   \* the samples without a tag_id
    MaxSamples,  \* bound: samples published
    MaxFaults,   \* bound: failing calls of Redis or of the database
    MaxCrashes   \* bound: restarts of the sink

ASSUME SinkAssumption ==
    /\ MaxLen \in Nat \ {0} /\ Batch \in Nat \ {0} /\ MaxSamples \in Nat
    /\ MaxFaults \in Nat /\ MaxCrashes \in Nat
    /\ Malformed \subseteq 1..MaxSamples

Samples == 1..MaxSamples

VARIABLES
    newest, oldest,  \* the ends of the stream
    delivered,       \* the group's last delivered id
    pending,         \* delivered and not acknowledged
    stored,          \* the rows of the table, by sample
    gone,            \* trimmed before they were stored
    cursor,          \* "0" or ">"
    pc,              \* the sink: "read", "insert", "ack"
    ids, rows,       \* the batch, and what of it is parsed
    faults, crashes

streamVars == <<newest, oldest, gone>>
sinkVars == <<cursor, pc, ids, rows>>
vars == <<newest, oldest, delivered, pending, stored, gone, cursor, pc, ids, rows,
          faults, crashes>>

\* The Batch smallest members of a set.
FirstOf(set) == {i \in set : Cardinality({j \in set : j < i}) < Batch}

\* A trimmed entry comes back from the pending list without its fields.
Parsed(entries) == {i \in entries : i >= oldest /\ i \notin Malformed}

Fault == /\ faults < MaxFaults
         /\ faults' = faults + 1

-----------------------------------------------------------------------------
\* XADD with an approximate MAXLEN: it may trim down to the cap, or less.
Publish ==
    /\ newest < MaxSamples
    /\ newest' = newest + 1
    /\ oldest' \in {o \in Samples : o >= oldest /\
                                    (o = oldest \/ newest + 2 - o >= MaxLen)}
    /\ gone' = gone \cup {i \in Samples : i < oldest' /\ stored[i] = 0}
    /\ UNCHANGED <<delivered, pending, stored, sinkVars, faults, crashes>>

\* What the group has not delivered yet.
Undelivered == {i \in Samples : i > delivered /\ i >= oldest /\ i <= newest}

\* The server's part of XREADGROUP with ">".
Deliver ==
    LET batch == FirstOf(Undelivered)
    IN  /\ delivered' \in batch /\ \A i \in batch : i <= delivered'
        /\ pending' = pending \cup batch

ReadLive ==
    /\ pc = "read" /\ cursor = ">"
    /\ Deliver
    /\ ids' = FirstOf(Undelivered)
    /\ rows' = Parsed(FirstOf(Undelivered))
    /\ pc' = "insert"
    /\ UNCHANGED <<streamVars, stored, cursor, faults, crashes>>

\* With "0": this consumer's pending entries.
ReadPending ==
    /\ pc = "read" /\ cursor = "0" /\ pending # {}
    /\ ids' = FirstOf(pending)
    /\ rows' = Parsed(FirstOf(pending))
    /\ pc' = "insert"
    /\ UNCHANGED <<streamVars, delivered, pending, stored, cursor, faults, crashes>>

\* Nothing is pending: follow the live tail.
Recovered ==
    /\ pc = "read" /\ cursor = "0" /\ pending = {}
    /\ cursor' = ">"
    /\ UNCHANGED <<streamVars, delivered, pending, stored, pc, ids, rows, faults,
                   crashes>>

\* COPY and commit of the whole batch.
Store == stored' = [i \in Samples |-> IF i \in rows THEN stored[i] + 1 ELSE stored[i]]

Insert ==
    /\ pc = "insert"
    /\ Store
    /\ pc' = "ack"
    /\ UNCHANGED <<streamVars, delivered, pending, cursor, ids, rows, faults, crashes>>

\* Mutant: only what was written is acknowledged.
AckRows ==
    /\ pc = "ack"
    /\ pending' = pending \ rows
    /\ pc' = "read" /\ ids' = {} /\ rows' = {}
    /\ UNCHANGED <<streamVars, delivered, stored, cursor, faults, crashes>>

\* XACK of every entry read; recovery goes on until nothing is pending.
Ack ==
    /\ pc = "ack"
    /\ pending' = pending \ ids
    /\ pc' = "read" /\ ids' = {} /\ rows' = {}
    /\ UNCHANGED <<streamVars, delivered, stored, cursor, faults, crashes>>

\* Mutant: the batch is acknowledged in a finally.
RaisesAcked ==
    /\ Fault
    /\ pending' = pending \ ids
    /\ pc' = "read" /\ cursor' = "0" /\ ids' = {} /\ rows' = {}
    /\ UNCHANGED <<streamVars, delivered, stored, crashes>>

\* Redis or the database raises, its work done or not: back to the pending
\* entries.  An empty batch never goes to the database.
Raises ==
    /\ Fault
    /\ pc = "insert" => rows # {}
    /\ \/ UNCHANGED <<delivered, pending, stored>>
       \/ pc = "read" /\ cursor = ">" /\ Deliver /\ UNCHANGED stored
       \/ pc = "insert" /\ Store /\ UNCHANGED <<delivered, pending>>
       \/ pc = "ack" /\ pending' = pending \ ids /\ UNCHANGED <<delivered, stored>>
    /\ pc' = "read" /\ cursor' = "0" /\ ids' = {} /\ rows' = {}
    /\ UNCHANGED <<streamVars, crashes>>

\* The sink starts in recovery.
Crash ==
    /\ crashes < MaxCrashes
    /\ crashes' = crashes + 1
    /\ pc' = "read" /\ cursor' = "0"
    /\ ids' = {} /\ rows' = {}
    /\ UNCHANGED <<streamVars, delivered, pending, stored, faults>>

-----------------------------------------------------------------------------
Init ==
    /\ newest = 0 /\ oldest = 1 /\ gone = {}
    /\ delivered = 0 /\ pending = {}
    /\ stored = [i \in Samples |-> 0]
    /\ cursor = "0" /\ pc = "read"
    /\ ids = {} /\ rows = {}
    /\ faults = 0 /\ crashes = 0

Sink == ReadLive \/ ReadPending \/ Recovered \/ Insert \/ Ack
Next == Publish \/ Sink \/ Raises \/ Crash

Spec == Init /\ [][Next]_vars

\* The loop of run() goes on.
FairSpec == Spec /\ WF_vars(Sink)

-----------------------------------------------------------------------------
(* Properties *)

\* Type invariant.
TypeOK ==
    /\ newest \in 0..MaxSamples /\ oldest \in 1..(newest + 1)
    /\ delivered \in 0..newest
    /\ pending \subseteq 1..delivered
    /\ stored \in [Samples -> Nat]
    /\ gone \subseteq Samples
    /\ cursor \in {"0", ">"}
    /\ pc \in {"read", "insert", "ack"}
    /\ ids \subseteq pending /\ rows \subseteq ids
    /\ faults \in 0..MaxFaults /\ crashes \in 0..MaxCrashes

\* "a duplicate sample, never a lost one": what the group has passed and nobody
\* holds pending is in the table, unless it has no tag (the docstring of sink.py).
NeverLost ==
    \A i \in Samples \ Malformed : i <= delivered /\ i \notin pending => stored[i] > 0

\* At-least-once, as far as the code can keep it: a sample is lost only when the
\* publisher's cap takes it away before it is stored, whatever fails or restarts.
LostOnlyToCap ==
    \A i \in Samples \ (Malformed \cup gone) :
        i <= delivered /\ i \notin pending => stored[i] > 0

\* A sample is stored a second time only for a failure or a restart: recovery
\* takes the pending entries to the table once, and not in a loop.
DuplicatesArePaid == \A i \in Samples : stored[i] <= 1 + faults + crashes

\* Every sample published is read and acknowledged, or trimmed, in the end: neither a
\* poisoned nor a trimmed entry holds up the ones behind it.
Landed == \A i \in 1..newest : (delivered >= i \/ oldest > i) /\ i \notin pending
Lands == <>[]Landed

=============================================================================
