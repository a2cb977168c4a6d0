--------------------------- MODULE DocumentPipeline ---------------------------
(***************************************************************************)
(* The road of a document from the upload to the graph writer's buffer:    *)
(*                                                                         *)
(*     upload -> ingest -> extraction lane -> resolution -> write buffer   *)
(*                                                                         *)
(* Three Celery workers' tasks (ingestion, extraction and resolution) meet *)
(* only in shared stores: the object store (staging and raw keys), the     *)
(* hash claims, the single-flight locks and the extraction cache in Redis, *)
(* the broker's queues and the write buffer.  Every call on one of them is *)
(* a step of its own, so that the calls of several workers interleave and  *)
(* a worker may be lost between any two of them.                           *)
(*                                                                         *)
(* A document is its content (the sha256), an upload is one staging object *)
(* with its classify message; several uploads may carry the same content.  *)
(* The lane a document goes to is left out: it depends on the document     *)
(* alone, and lock and cache keys are per lane and document.               *)
(***************************************************************************)
EXTENDS Naturals, FiniteSets

CONSTANTS
    Docs,             \* contents, identified by their hash
    Uploads,          \* staging objects, each with its classify message
    Content,          \* Content[u] is what upload u carries
    Workers,          \* Celery worker processes
    FaultyCalls,      \* the calls that may raise
    MaxFaults,        \* bound: how many calls raise
    MaxCrashes,       \* bound: how many workers are lost in a task
    MaxLockExpiries,  \* bound: how many locks outlive their ttl
    EagerResubmit     \* a content may be uploaded while it is in the pipeline

\* The calls of the handlers that can raise, by the name of what is called:
\* "send" is a broker that refuses a message, "confirm" one that took it and
\* whose answer was lost, "redis" any command on a claim, a lock or a cached
\* extraction that no try block of its own catches, and the push on the buffer.
Calls == {"archive", "classifier", "lane", "cache", "resolver", "send",
          "confirm", "redis"}

ASSUME PipelineAssumption ==
    /\ Content \in [Uploads -> Docs] /\ IsFiniteSet(Workers)
    /\ FaultyCalls \subseteq Calls
    /\ MaxFaults \in Nat /\ MaxCrashes \in Nat /\ MaxLockExpiries \in Nat
    /\ EagerResubmit \in BOOLEAN

VARIABLES
    uploaded,  \* the uploads made so far
    staging,   \* uploads whose staging object exists
    raw,       \* documents in the raw archive
    claims,    \* doc:hash:* keys, the dedup ledger
    locks,     \* lock:extract:* keys
    cache,     \* cache:extract:* keys
    tasks,     \* messages in the broker's queues, with multiplicity
    buffer,    \* entries of each document pushed on the write buffer
    failed,    \* documents with a task that ended in on_failure
    pc, task,  \* each worker's place in its handler, and its message
    faults, crashes, expiries, \* what the bounds count
    \* History, which no step of the code reads:
    left,      \* locks whose last holder went without deleting them
    outlived,  \* how often the lock of each document ran out under a holder
    stranded   \* documents with a task cut short where no handler gives the
               \* claim back, or turned away by a task that had given it back

workerVars == <<pc, task>>
budget == <<faults, crashes, expiries>>
objects == <<uploaded, staging, raw>>
lockVars == <<locks, left, outlived>>
outcome == <<failed, stranded>>
vars == <<objects, claims, lockVars, cache, tasks, buffer, outcome, workerVars,
          budget>>

Classify(u) == [kind |-> "classify", item |-> u]
Extract(d) == [kind |-> "extract", item |-> d]
Resolve(d) == [kind |-> "resolve", item |-> d]

Tasks == {Classify(u) : u \in Uploads} \cup {Extract(d) : d \in Docs}
            \cup {Resolve(d) : d \in Docs}
NoTask == [kind |-> "none"]

DocOf(t) == IF t.kind = "classify" THEN Content[t.item] ELSE t.item

\* A handler's places, in the order the code reaches them.
ClassifyPlaces == {"claim", "drop", "archive", "unstage", "kind",
                   "releaseIngest", "sendExtract"}
\* From the claim to the message that passes the document on.
ClaimedPlaces == ClassifyPlaces \ {"claim", "drop"}
\* Inside the try block of _run_lane, whose finally gives the lock back.
LockedPlaces == {"lane", "store", "unlock", "releaseLane", "unlockFailed"}
ExtractPlaces == {"lookup", "sendCached", "lock", "recheck", "sendRechecked",
                  "sendResolve"} \cup LockedPlaces
ResolvePlaces == {"resolve", "releaseResolve", "push"}
Places == {"idle", "ack"} \cup ClassifyPlaces \cup ExtractPlaces
            \cup ResolvePlaces

FirstPlace(t) == CASE t.kind = "classify" -> "claim"
                   [] t.kind = "extract" -> "lookup"
                   [] t.kind = "resolve" -> "resolve"

At(w, place) == pc[w] = place
Doc(w) == DocOf(task[w])
Goto(w, place) == /\ pc' = [pc EXCEPT ![w] = place]
                  /\ task' = task
Done(w) == /\ pc' = [pc EXCEPT ![w] = "idle"]
           /\ task' = [task EXCEPT ![w] = NoTask]
Enqueue(t) == tasks' = [tasks EXCEPT ![t] = @ + 1]

CanFail(call) == call \in FaultyCalls /\ faults < MaxFaults
Fault(call) == CanFail(call) /\ faults' = faults + 1
                             /\ UNCHANGED <<crashes, expiries>>

\* An exception that leaves the handler: Celery acks the message (acks_late
\* re-queues only for a lost worker) and DLQTask.on_failure raises its alert.
Fail(w) == /\ failed' = failed \cup {Doc(w)}
           /\ Done(w)

\* The same from a call that no try block answers with release_document: the
\* claim stays, and nobody is left to settle it.
Abandon(w) == /\ Fail(w)
              /\ stranded' = stranded \cup {Doc(w)}

\* A send that raises: the broker refused the message, or took it.
SendRaises(t) == \/ Fault("send") /\ UNCHANGED tasks
                 \/ Fault("confirm") /\ Enqueue(t)

-----------------------------------------------------------------------------
\* A document is in somebody's hands: queued past the gate, or being carried
\* by a worker that will still send it on or give its claim back.
Carrying(w) == pc[w] \notin {"idle", "ack", "claim", "drop"}
Queued(d) == tasks[Extract(d)] > 0 \/ tasks[Resolve(d)] > 0
Carried(d) == \/ Queued(d)
              \/ \E w \in Workers : Carrying(w) /\ Doc(w) = d
\* Nothing of this content is under way, not even a message before the gate.
Quiet(d) == /\ ~Queued(d)
            /\ \A u \in Uploads : Content[u] = d => tasks[Classify(u)] = 0
            /\ \A w \in Workers : pc[w] # "idle" => Doc(w) # d

\* The workers inside the try block of a document's lane.
Inside(d) == {w \in Workers : pc[w] \in LockedPlaces /\ Doc(w) = d}
\* Those that are inside have failed, and have given the claim back already.
OnlyFailing(d) == /\ Inside(d) # {}
                  /\ \A w \in Inside(d) : pc[w] = "unlockFailed"
\* The lock that stays behind when this worker goes without deleting it.
LeftBy(w) == {d \in locks : Inside(d) = {w}}

-----------------------------------------------------------------------------
(* The uploader *)

\* Put the bytes at a staging key of their own and enqueue their classify task.
Upload(u) ==
    /\ u \notin uploaded
    /\ EagerResubmit \/ Quiet(Content[u])
    /\ uploaded' = uploaded \cup {u}
    /\ staging' = staging \cup {u}
    /\ Enqueue(Classify(u))
    /\ UNCHANGED <<raw, claims, lockVars, cache, buffer, outcome, workerVars,
                   budget>>

(* The broker and the worker processes *)

\* A worker reserves one message (prefetch 1); it stays unacked till the end.
Take(w, t) ==
    /\ At(w, "idle")
    /\ tasks[t] > 0
    /\ tasks' = [tasks EXCEPT ![t] = @ - 1]
    /\ pc' = [pc EXCEPT ![w] = FirstPlace(t)]
    /\ task' = [task EXCEPT ![w] = t]
    /\ UNCHANGED <<objects, claims, lockVars, cache, buffer, outcome, budget>>

\* The handler returned: acks_late acknowledges the message now.
Ack(w) ==
    /\ At(w, "ack")
    /\ Done(w)
    /\ UNCHANGED <<objects, claims, lockVars, cache, tasks, buffer, outcome,
                   budget>>

\* The process dies in a task: reject_on_worker_lost puts the message back.
\* What the task had written to Redis and to the object store stays: a claim
\* whose redelivered message is a duplicate of itself, a lock without a holder.
WorkerLost(w) ==
    /\ ~At(w, "idle")
    /\ crashes < MaxCrashes
    /\ crashes' = crashes + 1
    /\ Enqueue(task[w])
    /\ Done(w)
    /\ left' = left \cup LeftBy(w)
    /\ stranded' = stranded \cup LeftBy(w)
                     \cup (IF pc[w] \in ClaimedPlaces THEN {Doc(w)} ELSE {})
    /\ UNCHANGED <<objects, claims, locks, outlived, cache, buffer, failed,
                   faults, expiries>>

\* A lock lives 300 s; the soft time limit of a task is 540 s.
LockExpires(d) ==
    /\ d \in locks
    /\ expiries < MaxLockExpiries
    /\ expiries' = expiries + 1
    /\ locks' = locks \ {d}
    /\ left' = left \ {d}
    /\ outlived' = [outlived EXCEPT ![d] = IF Inside(d) = {} THEN @ ELSE @ + 1]
    /\ UNCHANGED <<objects, claims, cache, tasks, buffer, outcome, workerVars,
                   faults, crashes>>

\* A cached extraction lives seven days.
CacheExpires(d) ==
    /\ d \in cache
    /\ cache' = cache \ {d}
    /\ UNCHANGED <<objects, claims, lockVars, tasks, buffer, outcome, workerVars,
                   budget>>

-----------------------------------------------------------------------------
(* Ingestion: IngestionService.classify_document and its task *)

\* Mutant: the claim is written without asking whether it was there.
ClaimUnconditionally(w) ==
    /\ At(w, "claim")
    /\ task[w].item \in staging
    /\ claims' = claims \cup {Doc(w)}
    /\ Goto(w, "archive")
    /\ UNCHANGED <<objects, lockVars, cache, tasks, buffer, outcome, budget>>

\* store.get and the claim.  The bytes may be gone only on a redelivery.  A SET
\* NX that raises outside the try may have taken the claim all the same.
Claim(w) ==
    /\ At(w, "claim")
    /\ \/ /\ task[w].item \notin staging
          /\ Fail(w)
          /\ UNCHANGED <<claims, stranded, budget>>
       \/ /\ Fault("archive")
          /\ Fail(w)
          /\ UNCHANGED <<claims, stranded>>
       \/ /\ task[w].item \in staging
          /\ Doc(w) \notin claims
          /\ claims' = claims \cup {Doc(w)}
          /\ Goto(w, "archive")
          /\ UNCHANGED <<outcome, budget>>
       \/ /\ task[w].item \in staging
          /\ Doc(w) \in claims
          /\ Goto(w, "drop")
          /\ UNCHANGED <<claims, outcome, budget>>
       \/ /\ task[w].item \in staging
          /\ Fault("redis")
          /\ \/ Fail(w) /\ UNCHANGED <<claims, stranded>>
             \/ /\ Doc(w) \notin claims
                /\ claims' = claims \cup {Doc(w)}
                /\ Abandon(w)
    /\ UNCHANGED <<objects, lockVars, cache, tasks, buffer>>

\* A duplicate: its staging object is deleted and the task is over.
DropDuplicate(w) ==
    /\ At(w, "drop")
    /\ \/ /\ staging' = staging \ {task[w].item}
          /\ Goto(w, "ack")
          /\ UNCHANGED <<failed, budget>>
       \/ /\ Fault("archive")
          /\ Fail(w)
          /\ UNCHANGED staging
    /\ UNCHANGED <<uploaded, raw, claims, lockVars, cache, tasks, buffer,
                   stranded>>

\* Mutant: a move that fails is logged, and the document sent on.
ArchiveBestEffort(w) ==
    /\ At(w, "archive")
    /\ \/ raw' = raw \cup {Doc(w)} /\ Goto(w, "unstage") /\ UNCHANGED budget
       \/ Fault("archive") /\ Goto(w, "unstage") /\ UNCHANGED raw
    /\ UNCHANGED <<uploaded, staging, claims, lockVars, cache, tasks, buffer,
                   outcome>>

\* ObjectStore.move is a copy ...
Archive(w) ==
    /\ At(w, "archive")
    /\ \/ /\ raw' = raw \cup {Doc(w)}
          /\ Goto(w, "unstage")
          /\ UNCHANGED budget
       \/ /\ Fault("archive")
          /\ Goto(w, "releaseIngest")
          /\ UNCHANGED raw
    /\ UNCHANGED <<uploaded, staging, claims, lockVars, cache, tasks, buffer,
                   outcome>>

\* ... and then a removal.
Unstage(w) ==
    /\ At(w, "unstage")
    /\ \/ /\ staging' = staging \ {task[w].item}
          /\ Goto(w, "kind")
          /\ UNCHANGED budget
       \/ /\ Fault("archive")
          /\ Goto(w, "releaseIngest")
          /\ UNCHANGED staging
    /\ UNCHANGED <<uploaded, raw, claims, lockVars, cache, tasks, buffer,
                   outcome>>

\* Classifier.classify: by the extension and the first bytes, or by the model.
ClassifyKind(w) ==
    /\ At(w, "kind")
    /\ \/ Goto(w, "sendExtract") /\ UNCHANGED budget
       \/ Fault("classifier") /\ Goto(w, "releaseIngest")
    /\ UNCHANGED <<objects, claims, lockVars, cache, tasks, buffer, outcome>>

\* worker.send of the extraction route, after classify_document returned:
\* outside its try, so a broker that refuses keeps the claim.
SendExtract(w) ==
    /\ At(w, "sendExtract")
    /\ \/ /\ Enqueue(Extract(Doc(w)))
          /\ Goto(w, "ack")
          /\ UNCHANGED <<outcome, budget>>
       \/ SendRaises(Extract(Doc(w))) /\ Abandon(w)
    /\ UNCHANGED <<objects, claims, lockVars, cache, buffer>>

-----------------------------------------------------------------------------
(* Extraction: _run_lane *)

\* 1. The idempotency cache, read outside any try.
Lookup(w) ==
    /\ At(w, "lookup")
    /\ \/ /\ Goto(w, IF Doc(w) \in cache THEN "sendCached" ELSE "lock")
          /\ UNCHANGED <<outcome, budget>>
       \/ Fault("redis") /\ Abandon(w)
    /\ UNCHANGED <<objects, claims, lockVars, cache, tasks, buffer>>

\* Mutant: the cached result goes round the extraction route again.
SendCachedAgain(w) ==
    /\ pc[w] \in {"sendCached", "sendRechecked"}
    /\ Enqueue(Extract(Doc(w)))
    /\ Goto(w, "ack")
    /\ UNCHANGED <<objects, claims, lockVars, cache, buffer, outcome, budget>>

\* The send of a cached result is inside a try that only logs: when it raises
\* at the first look the lane is run again, at the second the task is dropped.
SendCached(w) ==
    /\ pc[w] \in {"sendCached", "sendRechecked"}
    /\ \/ /\ Enqueue(Resolve(Doc(w)))
          /\ Goto(w, "ack")
          /\ UNCHANGED budget
       \/ /\ SendRaises(Resolve(Doc(w)))
          /\ Goto(w, IF At(w, "sendCached") THEN "lock" ELSE "ack")
    /\ UNCHANGED <<objects, claims, lockVars, cache, buffer, outcome>>

\* Mutant: SET without NX.
AcquireLockAlways(w) ==
    /\ At(w, "lock")
    /\ locks' = locks \cup {Doc(w)}
    /\ Goto(w, "lane")
    /\ UNCHANGED <<objects, claims, left, outlived, cache, tasks, buffer,
                   outcome, budget>>

\* 2. The single-flight lock, SET NX EX.  Whoever is turned away by a task that
\* has given its claim back already leaves a new claim with nobody to settle it.
\* A SET that raises, outside any try, may have left the lock.
AcquireLock(w) ==
    /\ At(w, "lock")
    /\ \/ /\ Doc(w) \notin locks
          /\ locks' = locks \cup {Doc(w)}
          /\ Goto(w, "lane")
          /\ UNCHANGED <<left, outcome, budget>>
       \/ /\ Doc(w) \in locks
          /\ Goto(w, "recheck")
          /\ stranded' = IF OnlyFailing(Doc(w)) THEN stranded \cup {Doc(w)}
                                                ELSE stranded
          /\ UNCHANGED <<locks, left, failed, budget>>
       \/ /\ Fault("redis")
          /\ Abandon(w)
          /\ \/ UNCHANGED <<locks, left>>
             \/ /\ Doc(w) \notin locks
                /\ locks' = locks \cup {Doc(w)}
                /\ left' = left \cup {Doc(w)}
    /\ UNCHANGED <<objects, claims, outlived, cache, tasks, buffer>>

\* Somebody else holds it: take their cached result, or drop the task.
Recheck(w) ==
    /\ At(w, "recheck")
    /\ \/ /\ Goto(w, IF Doc(w) \in cache THEN "sendRechecked" ELSE "ack")
          /\ UNCHANGED <<outcome, budget>>
       \/ Fault("redis") /\ Abandon(w)
    /\ UNCHANGED <<objects, claims, lockVars, cache, tasks, buffer>>

\* The lane itself: fetch the raw bytes and extract.
RunLane(w) ==
    /\ At(w, "lane")
    /\ \/ Doc(w) \in raw /\ Goto(w, "store") /\ UNCHANGED budget
       \/ Fault("lane") /\ Goto(w, "releaseLane")
       \/ Doc(w) \notin raw /\ Goto(w, "releaseLane") /\ UNCHANGED budget
    /\ UNCHANGED <<objects, claims, lockVars, cache, tasks, buffer, outcome>>

\* A cache that cannot be written is logged and forgotten.
StoreExtraction(w) ==
    /\ At(w, "store")
    /\ \/ cache' = cache \cup {Doc(w)} /\ UNCHANGED budget
       \/ Fault("cache") /\ UNCHANGED cache
    /\ Goto(w, "unlock")
    /\ UNCHANGED <<objects, claims, lockVars, tasks, buffer, outcome>>

\* Mutant: no finally, the lock is given back only when the lane succeeds.
ReleaseLockOnSuccess(w) ==
    /\ pc[w] \in {"unlock", "unlockFailed"}
    /\ IF At(w, "unlock")
       THEN /\ Goto(w, "sendResolve")
            /\ locks' = locks \ {Doc(w)} /\ left' = left \ {Doc(w)}
            /\ UNCHANGED failed
       ELSE Fail(w) /\ UNCHANGED <<locks, left>>
    /\ UNCHANGED <<objects, claims, outlived, cache, tasks, buffer, stranded,
                   budget>>

\* The finally: DEL of the key, whoever set it.  When the DEL raises the key may
\* stay till its ttl, and after a lane that succeeded the send is skipped.
ReleaseLock(w) ==
    /\ pc[w] \in {"unlock", "unlockFailed"}
    /\ \/ /\ locks' = locks \ {Doc(w)} /\ left' = left \ {Doc(w)}
          /\ IF At(w, "unlock")
             THEN Goto(w, "sendResolve") /\ UNCHANGED failed
             ELSE Fail(w)
          /\ UNCHANGED <<stranded, budget>>
       \/ /\ Fault("redis")
          /\ Fail(w)
          /\ \/ locks' = locks \ {Doc(w)} /\ left' = left \ {Doc(w)}
             \/ left' = left \cup LeftBy(w) /\ UNCHANGED locks
          /\ stranded' = stranded \cup (left' \ left)
                           \cup (IF At(w, "unlock") THEN {Doc(w)} ELSE {})
    /\ UNCHANGED <<objects, claims, outlived, cache, tasks, buffer>>

\* After the try: a broker that refuses here keeps the claim.
SendResolve(w) ==
    /\ At(w, "sendResolve")
    /\ \/ /\ Enqueue(Resolve(Doc(w)))
          /\ Goto(w, "ack")
          /\ UNCHANGED <<outcome, budget>>
       \/ SendRaises(Resolve(Doc(w))) /\ Abandon(w)
    /\ UNCHANGED <<objects, claims, lockVars, cache, buffer>>

-----------------------------------------------------------------------------
(* Resolution: the resolve task *)

ResolveSubgraph(w) ==
    /\ At(w, "resolve")
    /\ \/ Goto(w, "push") /\ UNCHANGED budget
       \/ Fault("resolver") /\ Goto(w, "releaseResolve")
    /\ UNCHANGED <<objects, claims, lockVars, cache, tasks, buffer, outcome>>

\* RPUSH on the write buffer, outside the try; one that raises may have pushed.
QueueSubgraph(w) ==
    /\ At(w, "push")
    /\ \/ /\ buffer' = [buffer EXCEPT ![Doc(w)] = @ + 1]
          /\ Goto(w, "ack")
          /\ UNCHANGED <<outcome, budget>>
       \/ /\ Fault("redis")
          /\ Abandon(w)
          /\ \/ UNCHANGED buffer
             \/ buffer' = [buffer EXCEPT ![Doc(w)] = @ + 1]
    /\ UNCHANGED <<objects, claims, lockVars, cache, tasks>>

\* Mutant: the except blocks log and re-raise, and keep the claim.
ReleaseNothing(w) ==
    /\ pc[w] \in {"releaseIngest", "releaseLane", "releaseResolve"}
    /\ IF At(w, "releaseLane")
       THEN Goto(w, "unlockFailed") /\ UNCHANGED failed
       ELSE Fail(w)
    /\ UNCHANGED <<objects, claims, lockVars, cache, tasks, buffer, stranded,
                   budget>>

\* Mutant: the except blocks give the claim back and swallow the exception.
ReleaseQuietly(w) ==
    /\ pc[w] \in {"releaseIngest", "releaseLane", "releaseResolve"}
    /\ claims' = claims \ {Doc(w)}
    /\ Goto(w, IF At(w, "releaseLane") THEN "unlockFailed" ELSE "ack")
    /\ UNCHANGED <<objects, lockVars, cache, tasks, buffer, outcome, budget>>

\* release_document in the three except blocks.  The lane's comes before the
\* release of its lock, in a finally that runs though the DEL raises; the other
\* two end the task.
ReleaseDocument(w) ==
    /\ pc[w] \in {"releaseIngest", "releaseLane", "releaseResolve"}
    /\ \/ /\ claims' = claims \ {Doc(w)}
          /\ UNCHANGED stranded
          /\ Fault("redis") \/ UNCHANGED budget
       \/ /\ Fault("redis")
          /\ stranded' = stranded \cup {Doc(w)}
          /\ UNCHANGED claims
    /\ IF At(w, "releaseLane")
       THEN Goto(w, "unlockFailed") /\ UNCHANGED failed
       ELSE Fail(w)
    /\ UNCHANGED <<objects, lockVars, cache, tasks, buffer>>

-----------------------------------------------------------------------------
Init ==
    /\ uploaded = {} /\ staging = {} /\ raw = {}
    /\ claims = {} /\ locks = {} /\ cache = {}
    /\ tasks = [t \in Tasks |-> 0]
    /\ buffer = [d \in Docs |-> 0]
    /\ failed = {}
    /\ pc = [w \in Workers |-> "idle"]
    /\ task = [w \in Workers |-> NoTask]
    /\ faults = 0 /\ crashes = 0 /\ expiries = 0
    /\ left = {} /\ outlived = [d \in Docs |-> 0] /\ stranded = {}

\* What a live worker does with the message it holds.
Step(w) ==
    \/ Claim(w) \/ DropDuplicate(w) \/ Archive(w) \/ Unstage(w)
    \/ ClassifyKind(w) \/ SendExtract(w)
    \/ Lookup(w) \/ SendCached(w) \/ AcquireLock(w) \/ Recheck(w)
    \/ RunLane(w) \/ StoreExtraction(w) \/ ReleaseLock(w) \/ SendResolve(w)
    \/ ResolveSubgraph(w) \/ QueueSubgraph(w) \/ ReleaseDocument(w)
    \/ Ack(w)

Next ==
    \/ \E u \in Uploads : Upload(u)
    \/ \E w \in Workers : Step(w) \/ WorkerLost(w)
    \/ \E w \in Workers, t \in Tasks : Take(w, t)
    \/ \E d \in Docs : LockExpires(d) \/ CacheExpires(d)

Spec == Init /\ [][Next]_vars

\* A live worker goes on with its task, and a queue with a free worker is
\* served: Celery's consumers poll the broker for as long as they run.
Fairness ==
    /\ \A w \in Workers : WF_vars(Step(w))
    /\ \A t \in Tasks : WF_vars(\E w \in Workers : Take(w, t))

FairSpec == Spec /\ Fairness

-----------------------------------------------------------------------------
(* Properties *)

\* The message a worker holds is one of the kind its place belongs to.
TaskFits(w) ==
    /\ pc[w] = "idle" => task[w] = NoTask
    /\ pc[w] = "ack" => task[w] \in Tasks
    /\ pc[w] \in ClassifyPlaces => task[w] \in {Classify(u) : u \in Uploads}
    /\ pc[w] \in ExtractPlaces => task[w] \in {Extract(d) : d \in Docs}
    /\ pc[w] \in ResolvePlaces => task[w] \in {Resolve(d) : d \in Docs}

\* Type invariant.
TypeOK ==
    /\ uploaded \subseteq Uploads /\ staging \subseteq Uploads
    /\ raw \subseteq Docs /\ claims \subseteq Docs /\ locks \subseteq Docs
    /\ cache \subseteq Docs /\ failed \subseteq Docs
    /\ tasks \in [Tasks -> Nat]
    /\ buffer \in [Docs -> Nat]
    /\ pc \in [Workers -> Places]
    /\ task \in [Workers -> Tasks \cup {NoTask}]
    /\ \A w \in Workers : TaskFits(w)
    /\ faults \in 0..MaxFaults /\ crashes \in 0..MaxCrashes
    /\ expiries \in 0..MaxLockExpiries
    /\ left \subseteq Docs /\ stranded \subseteq Docs
    /\ outlived \in [Docs -> Nat]

\* A claimed document is on its way or has reached the write buffer, unless one
\* of its tasks was cut short where no handler gives the claim back: no file is
\* "claimed-but-never-in-graph" for a failure that a handler answers.
ClaimBacked ==
    \A d \in claims : Carried(d) \/ buffer[d] > 0 \/ d \in stranded

\* Once uploaded, a content's bytes stay in the object store, whatever the
\* duplicates of it that are dropped and the moves that fail half-way.
BytesKept ==
    \A u \in uploaded : \/ Content[u] \in raw
                        \/ \E v \in staging : Content[v] = Content[u]

\* The expensive lane of a document runs in one worker at a time, and in one more
\* for each time its lock ran out under a worker inside: the purpose of the lock,
\* whatever is lost, raised, redelivered or submitted again.
SingleFlight ==
    \A d \in Docs : Cardinality(Inside(d)) <= 1 + outlived[d]

\* A worker is turned away from a lane as "already in flight by another worker"
\* only while another worker is in the lane, or by the lock of one that was lost
\* there or whose call on the lock raised.
TurnedAwayByHolder ==
    [][\A w \in Workers : At(w, "lock") /\ pc'[w] = "recheck"
          => Doc(w) \in left \/ Inside(Doc(w)) \ {w} # {}]_vars

\* When nothing of an uploaded content is under way any more it is in the write
\* buffer, or somebody has been told of a failure, or a task of it was cut short.
NothingVanishes ==
    \A u \in uploaded :
        Quiet(Content[u]) => \/ buffer[Content[u]] > 0
                            \/ Content[u] \in failed
                            \/ Content[u] \in stranded

\* No document is lost without a trace, while its claim stands or after.
NothingStranded == ClaimBacked /\ NothingVanishes

\* A claim does not stay open for ever: its document reaches the write buffer or
\* the claim is given back, unless a task was cut short as ClaimBacked says.
ClaimSettles ==
    \A d \in Docs :
        d \in claims ~> (buffer[d] > 0 \/ d \notin claims \/ d \in stranded)

\* What the pipeline promises as a whole (see DocumentLedger).
Ledger == INSTANCE DocumentLedger WITH claimed <- claims, delivered <- buffer
LedgerSpec == Ledger!Spec

=============================================================================
