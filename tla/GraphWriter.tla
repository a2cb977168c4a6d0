----------------------------- MODULE GraphWriter -----------------------------
(***************************************************************************)
(* The single writer of the knowledge graph.  The resolver pushes          *)
(* subgraphs on a Redis list; a flush pops them in rounds, commits each    *)
(* round as one Neo4j transaction, and announces every commit on the delta *)
(* stream.  A flush is started by the beat task of graphd and may also be  *)
(* run by hand (python -m graphd.writer), so there may be several          *)
(* flushers; the flush lock keeps them apart.                              *)
(*                                                                         *)
(* A subgraph is a name; kind says what becomes of it on its own, Touches  *)
(* which entities it writes.  Properties and edges are left out.           *)
(***************************************************************************)
EXTENDS Naturals, Sequences, FiniteSets, Functions

CONSTANTS
    Subgraphs,        \* the payloads the resolver may push
    Traffic,          \* what the writer may find in the payloads, one of these
                      \* functions from Subgraphs to Kinds
    Entities,         \* canonical ids
    Touches,          \* Touches[s] \subseteq Entities
    Flushers,         \* the beat task, a run by hand
    BatchSize,        \* write_batch_size
    MaxRounds,        \* rounds of one flush
    FaultyCalls,      \* "version", "store", "publish": what may raise
    MaxFaults, MaxCrashes, MaxExpiries,  \* bounds
    MaxPushes         \* bound: how often one payload is pushed

Kinds == {"good",        \* resolved, and the store takes it
          "garbled",     \* not a CandidateSubgraph
          "unresolved",  \* a node has no canonical id
          "refused",     \* a label or edge type the store does not know
          "empty"}       \* no nodes and no edges

ASSUME WriterAssumption ==
    /\ Traffic \subseteq [Subgraphs -> Kinds]
    /\ Touches \in [Subgraphs -> SUBSET Entities]
    /\ BatchSize \in Nat \ {0} /\ MaxRounds \in Nat \ {0}
    /\ IsFiniteSet(Flushers)
    /\ FaultyCalls \subseteq {"version", "store", "publish"}
    /\ MaxFaults \in Nat /\ MaxCrashes \in Nat /\ MaxExpiries \in Nat
    /\ MaxPushes \in Nat

VARIABLES
    kind,          \* kind[s]: what the writer finds in payload s
    pushed,        \* how often each subgraph was pushed
    buffer,        \* graphd:write_buffer
    dlq,           \* graphd:write_dlq, as a count per subgraph
    lock,          \* graphd:flush_lock is set
    version,       \* graph:version
    entityVersion, \* updated_version of each entity, 0 when it is absent
    written,       \* how often each subgraph was committed
    skipped,       \* how often each subgraph came in an empty batch
    committed,     \* the versions that were committed
    deltas,        \* graph:deltas, the versions announced
    pc, rounds, last, ver,  \* a flush: its place, the rounds done, the size of
                   \* the last pop, its version
    todo, solo,    \* the payloads of the round to commit, each at its place, and
                   \* whether one by one
    faults, crashes, expiries,
    shared         \* history: the flushes that have been at work beside another

flushVars == <<pc, rounds, last, ver, todo, solo>>
graphVars == <<version, entityVersion, written, skipped, committed, deltas>>
budget == <<faults, crashes, expiries>>
vars == <<kind, pushed, buffer, dlq, lock, version, entityVersion, written,
          skipped, committed, deltas, pc, rounds, last, ver, todo, solo, faults,
          crashes, expiries, shared>>

At(f, place) == pc[f] = place
Goto(f, place) == pc' = [pc EXCEPT ![f] = place]

\* The flushes under way.
AtWork == {f \in Flushers : ~At(f, "idle")}

\* How often s occurs in a sequence.
Occurs(s, seq) == Cardinality({i \in DOMAIN seq : seq[i] = s})

\* The places of the next batch: all of the round, or the first that is left.
Batch(f) == {i \in DOMAIN todo[f] : solo[f] => \A j \in DOMAIN todo[f] : i <= j}
Has(f, k) == \E i \in Batch(f) : kind[todo[f][i]] = k

\* One count more for each payload of the batch, and what the batch leaves.
Add(count, f) ==
    [s \in Subgraphs |-> count[s] + Cardinality({i \in Batch(f) : todo[f][i] = s})]
Rest(f) == [todo EXCEPT ![f] = Restrict(@, DOMAIN @ \ Batch(f))]

\* What a flush counts and notes is its own, and gone with it.
Forget(f) == /\ rounds' = [rounds EXCEPT ![f] = 0] /\ last' = [last EXCEPT ![f] = 0]
             /\ ver' = [ver EXCEPT ![f] = 0] /\ solo' = [solo EXCEPT ![f] = FALSE]

Fault(call) == /\ call \in FaultyCalls /\ faults < MaxFaults
               /\ faults' = faults + 1
               /\ UNCHANGED <<crashes, expiries>>

-----------------------------------------------------------------------------
\* The resolver's RPUSH.
Push(s) ==
    /\ pushed[s] < MaxPushes
    /\ pushed' = [pushed EXCEPT ![s] = @ + 1]
    /\ buffer' = Append(buffer, s)
    /\ UNCHANGED <<kind, dlq, lock, graphVars, flushVars, budget, shared>>

\* Mutant: the lock is read, and the flush goes on whatever it says.
AcquireIgnored(f) ==
    /\ At(f, "idle")
    /\ lock' = TRUE
    /\ Goto(f, "take")
    /\ rounds' = [rounds EXCEPT ![f] = 0]
    /\ shared' = IF AtWork = {} THEN {} ELSE shared \cup AtWork \cup {f}
    /\ UNCHANGED <<pushed, buffer, dlq, graphVars, last, ver, todo, solo, budget>>

\* SET NX EX; a flush that finds the lock set returns without doing anything.
Acquire(f) ==
    /\ At(f, "idle")
    /\ ~lock
    /\ lock' = TRUE
    /\ Goto(f, "take")
    /\ rounds' = [rounds EXCEPT ![f] = 0]
    /\ shared' = IF AtWork = {} THEN {} ELSE shared \cup AtWork \cup {f}
    /\ UNCHANGED <<pushed, buffer, dlq, graphVars, last, ver, todo, solo, budget>>

\* LPOP of at most BatchSize payloads, and _parse: what does not validate is
\* parked at once.
TakeRound(f) ==
    /\ At(f, "take")
    /\ rounds[f] < MaxRounds /\ buffer # <<>>
    /\ LET n == IF Len(buffer) < BatchSize THEN Len(buffer) ELSE BatchSize
           bad == {i \in 1..n : kind[buffer[i]] = "garbled"}
       IN /\ buffer' = SubSeq(buffer, n + 1, Len(buffer))
          /\ last' = [last EXCEPT ![f] = n]
          /\ dlq' = [s \in Subgraphs |-> dlq[s] + Cardinality({i \in bad : buffer[i] = s})]
          /\ todo' = [todo EXCEPT ![f] = [i \in (1..n) \ bad |-> buffer[i]]]
    /\ solo' = [solo EXCEPT ![f] = FALSE]
    /\ Goto(f, "commit")
    /\ UNCHANGED <<pushed, lock, graphVars, rounds, ver, budget, shared>>

\* The buffer is empty, or the flush has had its rounds.
Drained(f) ==
    /\ At(f, "take")
    /\ rounds[f] = MaxRounds \/ buffer = <<>>
    /\ Goto(f, "release")
    /\ UNCHANGED <<pushed, buffer, dlq, lock, graphVars, rounds, last, ver, todo, solo,
                   budget, shared>>

\* All of the round is dealt with; a short round was the last one.
EndRound(f) ==
    /\ At(f, "commit") /\ DOMAIN todo[f] = {}
    /\ rounds' = [rounds EXCEPT ![f] = @ + 1]
    /\ Goto(f, IF last[f] < BatchSize THEN "release" ELSE "take")
    /\ UNCHANGED <<pushed, buffer, dlq, lock, graphVars, last, ver, todo, solo, budget,
                   shared>>

\* group_batch refuses a batch with an unresolved node: all of it is parked.
\* A batch with nothing in it is passed over.
SetAside(f) ==
    /\ At(f, "commit") /\ Batch(f) # {}
    /\ \/ /\ Has(f, "unresolved")
          /\ dlq' = Add(dlq, f)
          /\ UNCHANGED skipped
       \/ /\ \A i \in Batch(f) : kind[todo[f][i]] = "empty"
          /\ skipped' = Add(skipped, f)
          /\ UNCHANGED dlq
    /\ todo' = Rest(f)
    /\ UNCHANGED <<pushed, buffer, lock, version, entityVersion, written,
                   committed, deltas, pc, rounds, last, ver, solo, budget, shared>>

\* group_batch made a batch of it, and it is not empty.
Committable(f) ==
    /\ At(f, "commit")
    /\ ~Has(f, "unresolved")
    /\ \E i \in Batch(f) : kind[todo[f][i]] # "empty"

\* INCR of graph:version, before the transaction.
NextVersion(f) ==
    /\ Committable(f)
    /\ version' = version + 1
    /\ ver' = [ver EXCEPT ![f] = version + 1]
    /\ Goto(f, "write")
    /\ UNCHANGED <<pushed, buffer, dlq, lock, entityVersion, written, skipped,
                   committed, deltas, rounds, last, todo, solo, budget, shared>>

\* write_batch is one transaction.
WriteBatch(f) ==
    /\ At(f, "write")
    /\ ~Has(f, "refused")
    /\ entityVersion' = [e \in Entities |-> IF \E i \in Batch(f) : e \in Touches[todo[f][i]]
                                            THEN ver[f] ELSE entityVersion[e]]
    /\ written' = Add(written, f)
    /\ committed' = committed \cup {ver[f]}
    /\ Goto(f, "announce")
    /\ UNCHANGED <<pushed, buffer, dlq, lock, version, skipped, deltas, rounds,
                   last, ver, todo, solo, budget, shared>>

\* INCR or the transaction raises; the transaction is rolled back.
Raises(f) ==
    \/ At(f, "write") /\ Has(f, "refused") /\ UNCHANGED budget
    \/ At(f, "write") /\ Fault("store")
    \/ Committable(f) /\ Fault("version")

\* Mutant: the subgraphs of the round are not retried.
WriteFailsParksRound(f) ==
    /\ Raises(f)
    /\ dlq' = Add(dlq, f)
    /\ todo' = Rest(f)
    /\ Goto(f, "commit")
    /\ UNCHANGED <<pushed, buffer, lock, graphVars, rounds, last, ver, solo, shared>>

\* Mutant: a single subgraph is logged and not parked.
WriteFailsDrops(f) ==
    /\ Raises(f)
    /\ IF Cardinality(Batch(f)) = 1
       THEN todo' = Rest(f) /\ UNCHANGED solo
       ELSE solo' = [solo EXCEPT ![f] = TRUE] /\ UNCHANGED todo
    /\ Goto(f, "commit")
    /\ UNCHANGED <<pushed, buffer, dlq, lock, graphVars, rounds, last, ver, shared>>

\* A single subgraph is parked, several are retried one by one.
WriteFails(f) ==
    /\ Raises(f)
    /\ IF Cardinality(Batch(f)) = 1
       THEN dlq' = Add(dlq, f) /\ todo' = Rest(f) /\ UNCHANGED solo
       ELSE solo' = [solo EXCEPT ![f] = TRUE] /\ UNCHANGED <<dlq, todo>>
    /\ Goto(f, "commit")
    /\ UNCHANGED <<pushed, buffer, lock, graphVars, rounds, last, ver, shared>>

\* Mutant: one delta for a whole flush, when its last round is done.
AnnounceLast(f) ==
    /\ At(f, "announce")
    /\ deltas' = IF last[f] < BatchSize THEN Append(deltas, ver[f]) ELSE deltas
    /\ todo' = Rest(f)
    /\ Goto(f, "commit")
    /\ UNCHANGED <<pushed, buffer, dlq, lock, version, entityVersion, written,
                   skipped, committed, rounds, last, ver, solo, budget, shared>>

\* XADD on the delta stream.  It is outside every try: when it raises, the
\* flush is over and what it still had to commit is gone.
Announce(f) ==
    /\ At(f, "announce")
    /\ \/ /\ deltas' = Append(deltas, ver[f])
          /\ todo' = Rest(f)
          /\ Goto(f, "commit")
          /\ UNCHANGED budget
       \/ /\ Fault("publish")
          /\ todo' = [todo EXCEPT ![f] = <<>>]
          /\ Goto(f, "release")
          /\ UNCHANGED deltas
    /\ UNCHANGED <<pushed, buffer, dlq, lock, version, entityVersion, written,
                   skipped, committed, rounds, last, ver, solo, shared>>

\* The finally: DEL, whoever holds the lock.
Release(f) ==
    /\ At(f, "release")
    /\ lock' = FALSE
    /\ Goto(f, "idle")
    /\ shared' = shared \ {f}
    /\ Forget(f)
    /\ UNCHANGED <<pushed, buffer, dlq, graphVars, todo, budget>>

\* The process dies.  Beat sends another flush, but what was popped is gone.
Crash(f) ==
    /\ ~At(f, "idle")
    /\ crashes < MaxCrashes
    /\ crashes' = crashes + 1
    /\ Goto(f, "idle")
    /\ shared' = shared \ {f}
    /\ todo' = [todo EXCEPT ![f] = <<>>]
    /\ Forget(f)
    /\ UNCHANGED <<kind, pushed, buffer, dlq, lock, graphVars, faults, expiries>>

\* Mutant: SET NX without EX.
LockStays == FALSE /\ UNCHANGED vars

\* The lock's 60 s.  It outlives a dead flusher, and may end before a live one.
LockExpires ==
    /\ lock
    /\ \/ \A f \in Flushers : At(f, "idle")
       \/ expiries < MaxExpiries
    /\ expiries' = IF \A f \in Flushers : At(f, "idle") THEN expiries
                   ELSE expiries + 1
    /\ lock' = FALSE
    /\ UNCHANGED <<kind, pushed, buffer, dlq, graphVars, flushVars, faults, crashes,
                   shared>>

-----------------------------------------------------------------------------
Init ==
    /\ kind \in Traffic
    /\ pushed = [s \in Subgraphs |-> 0]
    /\ buffer = <<>>
    /\ dlq = [s \in Subgraphs |-> 0]
    /\ lock = FALSE
    /\ version = 0
    /\ entityVersion = [e \in Entities |-> 0]
    /\ written = [s \in Subgraphs |-> 0]
    /\ skipped = [s \in Subgraphs |-> 0]
    /\ committed = {}
    /\ deltas = <<>>
    /\ pc = [f \in Flushers |-> "idle"]
    /\ rounds = [f \in Flushers |-> 0]
    /\ last = [f \in Flushers |-> 0]
    /\ ver = [f \in Flushers |-> 0]
    /\ todo = [f \in Flushers |-> <<>>]
    /\ solo = [f \in Flushers |-> FALSE]
    /\ faults = 0 /\ crashes = 0 /\ expiries = 0
    /\ shared = {}

Flush(f) ==
    /\ \/ Acquire(f) \/ TakeRound(f) \/ Drained(f) \/ EndRound(f) \/ SetAside(f)
       \/ NextVersion(f) \/ WriteBatch(f) \/ WriteFails(f) \/ Announce(f)
       \/ Release(f)
    /\ UNCHANGED kind

Next ==
    \/ \E s \in Subgraphs : Push(s)
    \/ \E f \in Flushers : Flush(f) \/ Crash(f)
    \/ LockExpires

Spec == Init /\ [][Next]_vars

\* Beat sends a flush every few seconds and a running flush goes on; Redis
\* expires the lock.
Fairness ==
    /\ \A f \in Flushers : WF_vars(Flush(f))
    /\ WF_vars(LockExpires)

FairSpec == Spec /\ Fairness

-----------------------------------------------------------------------------
(* Properties *)

\* Type invariant.
TypeOK ==
    /\ kind \in Traffic
    /\ pushed \in [Subgraphs -> 0..MaxPushes]
    /\ buffer \in Seq(Subgraphs)
    /\ dlq \in [Subgraphs -> Nat] /\ written \in [Subgraphs -> Nat]
    /\ skipped \in [Subgraphs -> Nat]
    /\ lock \in BOOLEAN
    /\ version \in Nat
    /\ entityVersion \in [Entities -> 0..version]
    /\ committed \subseteq 1..version
    /\ deltas \in Seq(1..version)
    /\ pc \in [Flushers -> {"idle", "take", "commit", "write", "announce",
                            "release"}]
    /\ rounds \in [Flushers -> 0..MaxRounds]
    /\ last \in [Flushers -> 0..BatchSize]
    /\ ver \in [Flushers -> 0..version]
    /\ todo \in [Flushers -> UNION {[D -> Subgraphs] : D \in SUBSET (1..BatchSize)}]
    /\ solo \in [Flushers -> BOOLEAN]
    /\ faults \in 0..MaxFaults /\ crashes \in 0..MaxCrashes /\ expiries \in 0..MaxExpiries
    /\ shared \subseteq Flushers

\* The places of what a flush has still to commit: its round, without the batch that
\* is committed and waits to be announced.
Uncommitted(f) == DOMAIN todo[f] \ (IF At(f, "announce") THEN Batch(f) ELSE {})

\* Every committed version is on the delta stream, or about to be put there by
\* the flusher that committed it.
Announced ==
    committed \subseteq Range(deltas)
                  \cup {ver[f] : f \in {g \in Flushers : At(g, "announce")}}

\* No reader of the delta stream misses a change, as long as no flusher is lost
\* and XADD does not raise: nothing else takes a commit's announcement away.
EveryCommitAnnounced ==
    crashes = 0 /\ (faults = 0 \/ "publish" \notin FaultyCalls) => Announced

\* The copies of a subgraph in the flushers' hands: whose, and at which place.
InHand(s) ==
    {h \in Flushers \X (1..BatchSize) :
        h[2] \in Uncommitted(h[1]) /\ todo[h[1]][h[2]] = s}

\* No subgraph is lost or made up: every push is in the buffer, in a flusher's
\* hands, in the graph, in the DLQ, or was an empty batch.  What a lost flusher
\* had popped, or one whose announcement raised, is in none of them.
Conserved ==
    crashes = 0 /\ Announced =>
    \A s \in Subgraphs :
        pushed[s] = Occurs(s, buffer) + Cardinality(InHand(s)) + written[s]
                       + dlq[s] + skipped[s]

\* The lock keeps flushes apart: there is one at work, and at most one more for each
\* time the lock ended under a flush that was still at work.
OneWriterPerLock == Cardinality(AtWork) <= 1 + expiries

\* An entity goes back to an older version, and a version comes on the stream after a
\* newer one, only by a flush that has been at work beside another: to the readers
\* the flushes that had the lock to themselves are one writer, also after others had not.
VersionsOnlyGrow ==
    [][\/ \E f \in shared : pc[f] \in {"write", "announce"} /\ pc'[f] # pc[f]
       \/ /\ \A e \in Entities : entityVersion'[e] >= entityVersion[e]
          /\ \A i \in DOMAIN deltas' \ DOMAIN deltas :
                 \A j \in DOMAIN deltas : deltas[j] < deltas'[i]]_vars

\* Only what can never be written is in the DLQ ("so only the culprit lands in
\* the DLQ").
OnlyPoisonParked ==
    \A s \in Subgraphs : dlq[s] > 0 => kind[s] \in {"garbled", "refused"}

\* One poison subgraph does not sink its round: as long as no call has failed
\* and nothing unresolved came, the good ones beside it reach the graph.
OnlyCulpritsParked ==
    (/\ faults = 0
     /\ \A s \in Subgraphs : kind[s] = "unresolved" => pushed[s] = 0) => OnlyPoisonParked

\* A push is written once, announced, and parked only for its own fault.
PushesAccounted == Conserved /\ EveryCommitAnnounced /\ OnlyCulpritsParked

\* Whatever is pushed is taken out of the buffer: a crashed flush does not hold
\* the lock for ever, a long backlog does not starve.
BufferDrains ==
    \A s \in Subgraphs : Occurs(s, buffer) > 0 ~> Occurs(s, buffer) = 0

\* The writer is one, and goes forward: in its versions, and in the backlog.
WriterAdvances == []OneWriterPerLock /\ VersionsOnlyGrow /\ BufferDrains

=============================================================================
