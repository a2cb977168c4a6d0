------------------------ MODULE DocumentPipelineProofs ------------------------
(***************************************************************************)
(* What holds of the document pipeline for any number of documents,        *)
(* uploads and workers, any number of faults, lost workers and locks that  *)
(* run out: type correctness, the mutual exclusion of the extraction       *)
(* lanes, who may be turned away from one, and that no document is lost    *)
(* without a trace; that the bytes are kept while no worker is lost; and   *)
(* that the pipeline implements DocumentLedger while moreover no send that *)
(* raises was carried out.                                                 *)
(***************************************************************************)
EXTENDS DocumentPipeline, FiniteSetTheorems, TLAPS

\* Every message is about a content.
LEMMA DocOfTask ==
    ASSUME NEW t \in Tasks
    PROVE  DocOf(t) \in Docs
  BY PipelineAssumption DEF Tasks, DocOf, Classify, Extract, Resolve

\* The places of the three handlers do not overlap.
LEMMA PlacesDisjoint ==
    /\ "idle" \notin ClassifyPlaces \cup ExtractPlaces \cup ResolvePlaces
    /\ "ack" \notin ClassifyPlaces \cup ExtractPlaces \cup ResolvePlaces
    /\ ClassifyPlaces \cap ExtractPlaces = {}
    /\ ClassifyPlaces \cap ResolvePlaces = {}
    /\ ExtractPlaces \cap ResolvePlaces = {}
    /\ LockedPlaces \subseteq ExtractPlaces
  BY DEF ClassifyPlaces, ExtractPlaces, ResolvePlaces, LockedPlaces

\* Every state of the pipeline is type-correct (the stores hold documents, a
\* worker's message is one its handler can hold, the bounds are kept).
THEOREM TypeCorrect == Spec => []TypeOK
<1>1. Init => TypeOK
  BY PipelineAssumption
  DEF Init, TypeOK, TaskFits, Places, ClassifyPlaces, ExtractPlaces,
      ResolvePlaces, LockedPlaces, NoTask
<1>2. TypeOK /\ [Next]_vars => TypeOK'
  <2> SUFFICES ASSUME TypeOK, [Next]_vars PROVE TypeOK'
    OBVIOUS
  <2> USE PipelineAssumption, DocOfTask
      DEF TypeOK, TaskFits, At, Doc, Goto, Done, Enqueue, Fail, Abandon,
          SendRaises, Fault, CanFail, objects, lockVars, outcome, budget,
          workerVars
  <2>1. CASE UNCHANGED vars
    BY <2>1 DEF vars
  <2>2. ASSUME NEW u \in Uploads, Upload(u) PROVE TypeOK'
    BY <2>2 DEF Upload, Tasks, Classify
  <2>3. ASSUME NEW w \in Workers, NEW t \in Tasks, Take(w, t) PROVE TypeOK'
    <3>1. CASE t \in {Classify(u) : u \in Uploads}
      BY <2>3, <3>1 DEF Take, FirstPlace, Classify, Places, ClassifyPlaces,
                        ExtractPlaces, ResolvePlaces, LockedPlaces
    <3>2. CASE t \in {Extract(d) : d \in Docs}
      BY <2>3, <3>2 DEF Take, FirstPlace, Extract, Places, ClassifyPlaces,
                        ExtractPlaces, ResolvePlaces, LockedPlaces
    <3>3. CASE t \in {Resolve(d) : d \in Docs}
      BY <2>3, <3>3 DEF Take, FirstPlace, Resolve, Places, ClassifyPlaces,
                        ExtractPlaces, ResolvePlaces, LockedPlaces
    <3>4. QED
      BY <3>1, <3>2, <3>3 DEF Tasks
  <2>4. ASSUME NEW w \in Workers, WorkerLost(w) PROVE TypeOK'
    <3>1. task[w] \in Tasks
      BY <2>4 DEF WorkerLost, Places, Tasks
    <3>2. left' \subseteq Docs /\ stranded' \subseteq Docs
      BY <2>4, <3>1 DEF WorkerLost, LeftBy
    <3>3. QED
      BY <2>4, <3>1, <3>2 DEF WorkerLost, Places, ClassifyPlaces, ExtractPlaces,
                              ResolvePlaces, LockedPlaces
  <2>5. ASSUME NEW d \in Docs, LockExpires(d) \/ CacheExpires(d) PROVE TypeOK'
    BY <2>5 DEF LockExpires, CacheExpires
  <2>6. ASSUME NEW w \in Workers, Step(w) PROVE TypeOK'
    <3>1. pc[w] # "idle"
      BY <2>6 DEF Step, Claim, DropDuplicate, Archive, Unstage, ClassifyKind,
         SendExtract, Lookup, SendCached, AcquireLock, Recheck, RunLane,
         StoreExtraction, ReleaseLock, SendResolve, ResolveSubgraph,
         QueueSubgraph, ReleaseDocument, Ack
    <3>2. task[w] \in Tasks /\ DocOf(task[w]) \in Docs
      BY <3>1 DEF Places, Tasks
    <3> USE DEF Places, ClassifyPlaces, ExtractPlaces, ResolvePlaces,
                LockedPlaces
    <3>3. CASE Claim(w)
      BY <3>2, <3>3 DEF Claim
    <3>4. CASE DropDuplicate(w)
      BY <3>2, <3>4, PlacesDisjoint DEF DropDuplicate, Tasks
    <3>5. CASE Archive(w) \/ Unstage(w) \/ ClassifyKind(w)
      BY <3>2, <3>5 DEF Archive, Unstage, ClassifyKind
    <3>6. CASE SendExtract(w)
      BY <3>2, <3>6 DEF SendExtract, Tasks
    <3>7. CASE Lookup(w) \/ Recheck(w)
      BY <3>2, <3>7 DEF Lookup, Recheck
    <3>8. CASE AcquireLock(w)
      BY <3>2, <3>8 DEF AcquireLock
    <3>9. CASE SendCached(w) \/ SendResolve(w)
      BY <3>2, <3>9, SMTT(30) DEF SendCached, SendResolve, Tasks
    <3>10. CASE RunLane(w) \/ StoreExtraction(w)
      BY <3>2, <3>10 DEF RunLane, StoreExtraction
    <3>11. CASE ReleaseLock(w)
      <4>1. left' \subseteq Docs /\ stranded' \subseteq Docs
        BY <3>2, <3>11 DEF ReleaseLock, LeftBy
      <4>2. QED
        BY <3>2, <3>11, <4>1 DEF ReleaseLock
    <3>12. CASE ResolveSubgraph(w) \/ QueueSubgraph(w)
      BY <3>2, <3>12 DEF ResolveSubgraph, QueueSubgraph
    <3>13. CASE ReleaseDocument(w) \/ Ack(w)
      BY <3>2, <3>13 DEF ReleaseDocument, Ack
    <3>14. QED
      BY <2>6, <3>3, <3>4, <3>5, <3>6, <3>7, <3>8, <3>9, <3>10, <3>11, <3>12, <3>13 DEF Step
  <2>7. QED
    BY <2>1, <2>2, <2>3, <2>4, <2>5, <2>6 DEF Next
<1>3. QED
  BY <1>1, <1>2, PTL DEF Spec

-----------------------------------------------------------------------------
(***************************************************************************)
(* The lock.  SingleFlight alone is not inductive: it says nothing of the  *)
(* key in Redis, which is what keeps the next worker out.  A key that is   *)
(* set counts as one worker more, so that the number inside and the key    *)
(* together stay within one and the runs-out; and a key has a worker       *)
(* inside to delete it, or was left by one, in which case its document is  *)
(* among the stranded.                                                     *)
(***************************************************************************)
KeyCount(d) == IF d \in locks THEN 1 ELSE 0

FewInside == \A d \in Docs : Cardinality(Inside(d)) <= outlived[d] + KeyCount(d)

KeyHeld == \A d \in locks : d \in left \/ Inside(d) # {}

LockInv == FewInside /\ KeyHeld /\ left \subseteq stranded

\* The workers inside a lane are finitely many.
LEMMA InsideFinite == \A d : IsFiniteSet(Inside(d)) /\ Cardinality(Inside(d)) \in Nat
<1>1. \A d : Inside(d) \subseteq Workers
  BY DEF Inside
<1>2. \A d : IsFiniteSet(Inside(d))
  BY <1>1, FS_Subset, PipelineAssumption
<1>3. QED
  BY <1>2, FS_CardinalityType

\* Who neither enters nor leaves a lane leaves everybody inside where he is.
LEMMA SameInside ==
    ASSUME \A v \in Workers : /\ pc'[v] \in LockedPlaces <=> pc[v] \in LockedPlaces
                              /\ pc[v] \in LockedPlaces => task'[v] = task[v]
    PROVE  \A d : Inside(d)' = Inside(d)
  BY DEF Inside, Doc

\* A step that neither takes nor deletes a lock, and loses no worker.
LEMMA LocksUntouched ==
    ASSUME TypeOK, TypeOK', [Next]_vars,
           \A w \in Workers : ~AcquireLock(w) /\ ~ReleaseLock(w) /\ ~WorkerLost(w),
           \A d \in Docs : ~LockExpires(d)
    PROVE  UNCHANGED lockVars /\ stranded \subseteq stranded' /\ \A d : Inside(d)' = Inside(d)
<1>0. pc \in [Workers -> Places] /\ task \in [Workers -> Tasks \cup {NoTask}]
  BY DEF TypeOK
<1> USE SameInside DEF lockVars
<1> USE DEF At, Goto, Done, Fail, Abandon, workerVars, outcome
<1>1. CASE UNCHANGED vars
  BY <1>1 DEF vars
<1>2. ASSUME NEW u \in Uploads, Upload(u) PROVE UNCHANGED lockVars /\ stranded \subseteq stranded'
                                             /\ \A d : Inside(d)' = Inside(d)
  BY <1>2 DEF Upload
<1>3. ASSUME NEW w \in Workers, NEW t \in Tasks, Take(w, t)
      PROVE  UNCHANGED lockVars /\ stranded \subseteq stranded' /\ \A d : Inside(d)' = Inside(d)
  <2>1. FirstPlace(t) \in {"claim", "lookup", "resolve"}
    BY DEF FirstPlace, Tasks, Classify, Extract, Resolve
  <2>2. QED
    BY <1>0, <1>3, <2>1 DEF Take, LockedPlaces
<1>4. ASSUME NEW d \in Docs, CacheExpires(d)
      PROVE  UNCHANGED lockVars /\ stranded \subseteq stranded' /\ \A e : Inside(e)' = Inside(e)
  BY <1>4 DEF CacheExpires
<1>5. ASSUME NEW w \in Workers, Step(w)
      PROVE  UNCHANGED lockVars /\ stranded \subseteq stranded' /\ \A d : Inside(d)' = Inside(d)
  <2> USE <1>0 DEF LockedPlaces
  <2>1. CASE Claim(w)
    BY <2>1 DEF Claim
  <2>2. CASE DropDuplicate(w) \/ Archive(w) \/ Unstage(w) \/ ClassifyKind(w)
    BY <2>2 DEF DropDuplicate, Archive, Unstage, ClassifyKind
  <2>3. CASE SendExtract(w) \/ SendCached(w) \/ SendResolve(w)
    BY <2>3 DEF SendExtract, SendCached, SendResolve
  <2>4. CASE Lookup(w) \/ Recheck(w)
    BY <2>4 DEF Lookup, Recheck
  <2>5. CASE RunLane(w) \/ StoreExtraction(w)
    BY <2>5 DEF RunLane, StoreExtraction
  <2>6. CASE ResolveSubgraph(w) \/ QueueSubgraph(w) \/ Ack(w)
    BY <2>6 DEF ResolveSubgraph, QueueSubgraph, Ack
  <2>7. CASE ReleaseDocument(w)
    BY <2>7 DEF ReleaseDocument
  <2>8. QED
    BY <1>5, <2>1, <2>2, <2>3, <2>4, <2>5, <2>6, <2>7 DEF Step
<1>6. QED
  BY <1>1, <1>2, <1>3, <1>4, <1>5 DEF Next

\* Whoever leaves the lane of his document leaves the others where they are.
LEMMA OneGone ==
    ASSUME NEW w \in Workers, NEW d, d = Doc(w), pc[w] \in LockedPlaces,
           pc'[w] \notin LockedPlaces,
           \A v \in Workers \ {w} : pc'[v] = pc[v] /\ task'[v] = task[v]
    PROVE  /\ Inside(d)' = Inside(d) \ {w}
           /\ \A e : e # d => Inside(e)' = Inside(e)
           /\ Cardinality(Inside(d)') = Cardinality(Inside(d)) - 1
<1>1. \A e : Inside(e)' = Inside(e) \ {w}
  BY DEF Inside, Doc
<1>2. w \in Inside(d) /\ \A e : e # d => w \notin Inside(e)
  BY DEF Inside
<1>3. IsFiniteSet(Inside(d)) /\ Cardinality(Inside(d) \ {w}) = Cardinality(Inside(d)) - 1
  BY <1>2, InsideFinite, FS_RemoveElement
<1>4. Inside(d)' = Inside(d) \ {w}
  BY <1>1
<1>5. QED
  BY <1>1, <1>2, <1>3, <1>4

\* Whoever is inside holds a message about a content.
LEMMA InsideDoc ==
    ASSUME TypeOK, NEW w \in Workers, pc[w] \in LockedPlaces \cup {"lock"}
    PROVE  Doc(w) \in Docs
  BY DocOfTask DEF TypeOK, TaskFits, LockedPlaces, ExtractPlaces, Doc, Tasks

\* Every step preserves it, whatever is lost, raised or runs out.
LEMMA LockInvariant == Spec => []LockInv
<1>1. Init => LockInv
  <2> SUFFICES ASSUME Init PROVE LockInv
    OBVIOUS
  <2>1. \A d : Inside(d) = {}
    BY DEF Init, Inside, LockedPlaces
  <2>2. QED
    BY <2>1, FS_EmptySet DEF Init, LockInv, FewInside, KeyHeld, KeyCount
<1>2. LockInv /\ TypeOK /\ TypeOK' /\ [Next]_vars => LockInv'
  <2> SUFFICES ASSUME LockInv, TypeOK, TypeOK', [Next]_vars PROVE LockInv'
    OBVIOUS
  <2>0. /\ pc \in [Workers -> Places] /\ task \in [Workers -> Tasks \cup {NoTask}]
        /\ outlived \in [Docs -> Nat] /\ locks \subseteq Docs /\ left \subseteq Docs
        /\ \A d : Cardinality(Inside(d)) \in Nat
    BY InsideFinite DEF TypeOK
  <2> USE DEF At, Goto, Done, Fail, Abandon
  <2>1. ASSUME NEW w \in Workers, AcquireLock(w), NEW d, d = Doc(w) PROVE LockInv'
    <3>0. d \in Docs /\ \A e : w \notin Inside(e)
      BY <2>1, InsideDoc DEF AcquireLock, Inside, LockedPlaces
    <3>1. CASE pc'[w] = "lane" /\ d \notin locks /\ locks' = locks \cup {d} /\ task' = task
               /\ left' = left /\ stranded' = stranded
      <4>1. Inside(d)' = Inside(d) \cup {w} /\ \A e : e # d => Inside(e)' = Inside(e)
        BY <2>0, <2>1, <3>1 DEF AcquireLock, Inside, Doc, LockedPlaces
      <4>2. Cardinality(Inside(d)') = Cardinality(Inside(d)) + 1
        BY <3>0, <4>1, InsideFinite, FS_AddElement
      <4>3. outlived' = outlived
        BY <2>1 DEF AcquireLock
      <4>4. FewInside'
        <5> SUFFICES ASSUME NEW e \in Docs
                     PROVE  Cardinality(Inside(e)') <= outlived[e] + KeyCount(e)'
          BY <4>3 DEF FewInside
        <5>1. Cardinality(Inside(e)) <= outlived[e] + KeyCount(e)
          BY DEF LockInv, FewInside
        <5>2. CASE e = d
          BY <2>0, <2>1, <3>1, <4>2, <5>1, <5>2 DEF KeyCount
        <5>3. CASE e # d
          <6>1. Inside(e)' = Inside(e) /\ KeyCount(e)' = KeyCount(e)
            BY <2>1, <3>1, <4>1, <5>3 DEF KeyCount
          <6>2. QED
            BY <5>1, <6>1
        <5>4. QED
          BY <5>2, <5>3
      <4>5. KeyHeld'
        BY <3>1, <4>1 DEF LockInv, KeyHeld
      <4>6. QED
        BY <3>1, <4>4, <4>5 DEF LockInv
    <3>2. CASE pc'[w] \in {"recheck", "idle"}
      <4>1. \A e : Inside(e)' = Inside(e)
        BY <2>0, <2>1, <3>2 DEF AcquireLock, Inside, Doc, LockedPlaces
      <4>2. /\ outlived' = outlived /\ stranded \subseteq stranded'
            /\ \/ locks' = locks /\ left' = left
               \/ /\ d \notin locks /\ locks' = locks \cup {d} /\ left' = left \cup {d}
                  /\ d \in stranded'
        BY <2>0, <2>1, <3>2 DEF AcquireLock
      <4>3. FewInside'
        BY <2>0, <3>0, <4>1, <4>2 DEF LockInv, FewInside, KeyCount
      <4>4. QED
        BY <4>1, <4>2, <4>3 DEF LockInv, KeyHeld
    <3>3. QED
      BY <2>0, <2>1, <3>1, <3>2 DEF AcquireLock, outcome
  <2>2. ASSUME NEW w \in Workers, ReleaseLock(w) \/ WorkerLost(w), pc[w] \in LockedPlaces,
               NEW d, d = Doc(w)
        PROVE  LockInv'
    <3>1. /\ pc'[w] \notin LockedPlaces
          /\ \A v \in Workers \ {w} : pc'[v] = pc[v] /\ task'[v] = task[v]
      BY <2>0, <2>2 DEF ReleaseLock, WorkerLost, LockedPlaces
    <3>2. /\ d \in Docs
          /\ Inside(d)' = Inside(d) \ {w} /\ \A e : e # d => Inside(e)' = Inside(e)
          /\ Cardinality(Inside(d)') = Cardinality(Inside(d)) - 1
      BY <2>2, <3>1, OneGone, InsideDoc
    <3>3. /\ outlived' = outlived /\ stranded \subseteq stranded'
          /\ \/ locks' = locks \ {d} /\ left' = left \ {d}
             \/ locks' = locks /\ left' = left \cup LeftBy(w) /\ LeftBy(w) \subseteq stranded'
      <4>1. CASE WorkerLost(w)
        BY <4>1 DEF WorkerLost
      <4>2. CASE ReleaseLock(w)
        BY <2>2, <4>2 DEF ReleaseLock, LockInv
      <4>3. QED
        BY <2>2, <4>1, <4>2
    <3>4. FewInside'
      <4> SUFFICES ASSUME NEW e \in Docs
                   PROVE  Cardinality(Inside(e)') <= outlived[e] + KeyCount(e)'
        BY <3>3 DEF FewInside
      <4>1. Cardinality(Inside(e)) <= outlived[e] + KeyCount(e)
        BY DEF LockInv, FewInside
      <4>2. CASE e = d
        <5>1. KeyCount(d) \in 0..1 /\ KeyCount(d)' \in 0..1 /\ KeyCount(d)' >= KeyCount(d) - 1
          BY <3>3 DEF KeyCount
        <5>2. Cardinality(Inside(d)) <= outlived[d] + KeyCount(d)
          BY <4>1, <4>2
        <5>3. Cardinality(Inside(d)') <= outlived[d] + KeyCount(d)'
          BY <2>0, <3>2, <5>1, <5>2
        <5>4. QED
          BY <4>2, <5>3
      <4>3. CASE e # d
        <5>1. Inside(e)' = Inside(e) /\ KeyCount(e)' = KeyCount(e)
          BY <3>2, <3>3, <4>3 DEF KeyCount
        <5>2. QED
          BY <4>1, <5>1
      <4>4. QED
        BY <4>2, <4>3
    <3>5. KeyHeld'
      <4>1. CASE locks' = locks \ {d} /\ left' = left \ {d}
        BY <3>2, <4>1 DEF LockInv, KeyHeld
      <4>2. CASE locks' = locks /\ left' = left \cup LeftBy(w)
        BY <3>2, <4>2 DEF LockInv, KeyHeld, LeftBy
      <4>3. QED
        BY <3>3, <4>1, <4>2
    <3>6. QED
      BY <3>3, <3>4, <3>5 DEF LockInv
  <2>3. ASSUME NEW w \in Workers, WorkerLost(w), pc[w] \notin LockedPlaces PROVE LockInv'
    <3>1. \A e : Inside(e)' = Inside(e) /\ w \notin Inside(e)
      BY <2>0, <2>3, SameInside DEF WorkerLost, LockedPlaces, Inside
    <3>2. LeftBy(w) = {}
      BY <3>1 DEF LeftBy
    <3>3. locks' = locks /\ left' = left /\ outlived' = outlived /\ stranded \subseteq stranded'
      BY <2>3, <3>2 DEF WorkerLost
    <3>4. QED
      BY <3>1, <3>3 DEF LockInv, FewInside, KeyHeld, KeyCount
  <2>4. ASSUME NEW d \in Docs, LockExpires(d) PROVE LockInv'
    <3>1. \A e : Inside(e)' = Inside(e)
      BY <2>4, SameInside DEF LockExpires, workerVars
    <3>2. /\ locks' = locks \ {d} /\ left' = left \ {d} /\ stranded' = stranded /\ d \in locks
          /\ \A e \in Docs : e # d => outlived'[e] = outlived[e]
          /\ outlived'[d] = IF Inside(d) = {} THEN outlived[d] ELSE outlived[d] + 1
      BY <2>0, <2>4 DEF LockExpires, outcome
    <3>3. Inside(d) = {} => Cardinality(Inside(d)) = 0
      BY FS_EmptySet
    <3>4. FewInside'
      BY <2>0, <3>1, <3>2, <3>3 DEF LockInv, FewInside, KeyCount
    <3>5. QED
      BY <3>1, <3>2, <3>4 DEF LockInv, KeyHeld
  <2>5. CASE /\ \A w \in Workers : ~AcquireLock(w) /\ ~ReleaseLock(w) /\ ~WorkerLost(w)
             /\ \A d \in Docs : ~LockExpires(d)
    <3>1. UNCHANGED lockVars /\ stranded \subseteq stranded' /\ \A d : Inside(d)' = Inside(d)
      BY <2>5, LocksUntouched
    <3>2. QED
      BY <3>1 DEF LockInv, FewInside, KeyHeld, KeyCount, lockVars
  <2>6. \A w \in Workers : ReleaseLock(w) => pc[w] \in LockedPlaces
    BY DEF ReleaseLock, LockedPlaces
  <2>7. QED
    BY <2>1, <2>2, <2>3, <2>4, <2>5, <2>6
<1>3. QED
  BY <1>1, <1>2, TypeCorrect, PTL DEF Spec

\* The lane of a document runs in one worker at a time, and in one more for each
\* time its lock (300 s) ran out under a worker inside, whatever is lost, raised,
\* redelivered or submitted again (_run_lane's single-flight lock).
THEOREM LaneMutualExclusion == Spec => []SingleFlight
<1>1. LockInv /\ TypeOK => SingleFlight
  <2> SUFFICES ASSUME LockInv, TypeOK, NEW d \in Docs
               PROVE  Cardinality(Inside(d)) <= 1 + outlived[d]
    BY DEF SingleFlight
  <2>1. Cardinality(Inside(d)) \in Nat /\ outlived[d] \in Nat
    BY InsideFinite DEF TypeOK
  <2>2. QED
    BY <2>1 DEF LockInv, FewInside, KeyCount
<1>2. QED
  BY <1>1, LockInvariant, TypeCorrect, PTL

\* Whoever is turned away from a lane is turned away by another worker inside it or
\* by a lock that was left there, whatever locks run out (the SET NX of _run_lane).
THEOREM OnlyHoldersTurnAway == Spec => TurnedAwayByHolder
<1>1. TypeOK /\ LockInv /\ [Next]_vars =>
         [\A w \in Workers : At(w, "lock") /\ pc'[w] = "recheck"
             => Doc(w) \in left \/ Inside(Doc(w)) \ {w} # {}]_vars
  <2> SUFFICES ASSUME TypeOK, LockInv, Next, NEW w \in Workers, At(w, "lock"),
                      pc'[w] = "recheck"
               PROVE  Doc(w) \in left \/ Inside(Doc(w)) \ {w} # {}
    BY DEF vars
  <2>0. pc \in [Workers -> Places]
    BY DEF TypeOK
  <2>1. w \notin Inside(Doc(w))
    BY DEF At, Inside, LockedPlaces
  <2>2. AcquireLock(w)
    <3> USE DEF At, Goto, Done, Fail, Abandon, workerVars
    <3>1. ASSUME NEW u \in Workers, Step(u) PROVE AcquireLock(w)
      BY <2>0, <3>1 DEF Step, Claim, DropDuplicate, Archive, Unstage, ClassifyKind,
         SendExtract, Lookup, SendCached, AcquireLock, Recheck, RunLane, StoreExtraction,
         ReleaseLock, SendResolve, ResolveSubgraph, QueueSubgraph, ReleaseDocument, Ack
    <3>2. QED
      BY <2>0, <3>1 DEF Next, Upload, WorkerLost, Take, FirstPlace, LockExpires, CacheExpires
  <2>3. Doc(w) \in locks
    BY <2>0, <2>2 DEF AcquireLock, Goto, At, Fail, Abandon, Done
  <2>4. QED
    BY <2>1, <2>3 DEF LockInv, KeyHeld
<1>2. QED
  BY <1>1, LockInvariant, TypeCorrect, PTL DEF Spec, TurnedAwayByHolder

-----------------------------------------------------------------------------
(***************************************************************************)
(* The bytes.  BytesKept alone is not inductive: a duplicate deletes its   *)
(* staging object on the word of the claim it found.  What the steps       *)
(* preserve is that a claim, and a duplicate that is about to be dropped,  *)
(* stand on bytes nobody will delete: those in the archive, or a staging   *)
(* object whose own message is past the gate.  That needs the messages to  *)
(* be delivered once, so that no worker is lost.                           *)
(***************************************************************************)
Holding(w, u) == task[w] = Classify(u)

\* Nobody will delete this staging object as a duplicate.
Kept(u) ==
    /\ u \in staging /\ tasks[Classify(u)] = 0
    /\ \A w \in Workers : Holding(w, u) => pc[w] \notin {"claim", "drop"}

Anchored(d) == d \in raw \/ \E u \in Uploads : Content[u] = d /\ Kept(u)

\* A classify message is queued once or held by one worker.
MessageOnce == \A u \in Uploads :
    /\ tasks[Classify(u)] <= 1
    /\ tasks[Classify(u)] = 1 => /\ u \in staging /\ u \in uploaded
                                 /\ \A w \in Workers : ~Holding(w, u)
    /\ \A w \in Workers : Holding(w, u) => u \in uploaded
    /\ \A v, w \in Workers : Holding(v, u) /\ Holding(w, u) => v = w

StagedUntilMoved == \A w \in Workers :
    pc[w] \in {"claim", "drop", "archive", "unstage"} => task[w].item \in staging

ArchivedAtUnstage == \A w \in Workers : pc[w] = "unstage" => Doc(w) \in raw

ClaimsAnchored ==
    /\ \A d \in claims : Anchored(d)
    /\ \A w \in Workers : pc[w] = "drop" => Anchored(Doc(w))

BytesInv ==
    /\ MessageOnce /\ StagedUntilMoved /\ ArchivedAtUnstage /\ ClaimsAnchored /\ BytesKept
    /\ staging \subseteq uploaded

\* The messages of the three kinds differ, and so do those about different things.
LEMMA TasksDiffer ==
    /\ \A u \in Uploads : /\ NoTask # Classify(u) /\ Classify(u) \in Tasks
                          /\ DocOf(Classify(u)) = Content[u] /\ Classify(u).item = u
                          /\ \A v \in Uploads : Classify(u) = Classify(v) => u = v
                          /\ \A d \in Docs : Classify(u) # Extract(d) /\ Classify(u) # Resolve(d)
    /\ \A d \in Docs : /\ NoTask # Extract(d) /\ NoTask # Resolve(d)
                       /\ Extract(d) \in Tasks /\ Resolve(d) \in Tasks
                       /\ DocOf(Extract(d)) = d /\ DocOf(Resolve(d)) = d
                       /\ \A c \in Docs : /\ Extract(d) # Resolve(c)
                                          /\ Extract(d) = Extract(c) => c = d
                                          /\ Resolve(d) = Resolve(c) => c = d
<1>1. \A u \in Uploads, d \in Docs :
          /\ NoTask # Classify(u) /\ NoTask # Extract(d) /\ NoTask # Resolve(d)
          /\ Classify(u) # Extract(d) /\ Classify(u) # Resolve(d)
  BY DEF NoTask, Classify, Extract, Resolve
<1>2. \A c, d \in Docs : /\ Extract(d) # Resolve(c)
                         /\ Extract(d) = Extract(c) => c = d
                         /\ Resolve(d) = Resolve(c) => c = d
  BY DEF Extract, Resolve
<1>3. \A u, v \in Uploads : Classify(u).item = u /\ (Classify(u) = Classify(v) => u = v)
  BY DEF Classify
<1>4. \A u \in Uploads : DocOf(Classify(u)) = Content[u] /\ Classify(u) \in Tasks
  BY DEF DocOf, Classify, Tasks
<1>5. \A d \in Docs : /\ Extract(d) \in Tasks /\ Resolve(d) \in Tasks
                      /\ DocOf(Extract(d)) = d /\ DocOf(Resolve(d)) = d
  BY DEF DocOf, Extract, Resolve, Tasks
<1>6. \A d \in Docs : NoTask # Extract(d) /\ NoTask # Resolve(d)
  BY DEF NoTask, Extract, Resolve
<1>7. \A u \in Uploads : NoTask # Classify(u)
  BY DEF NoTask, Classify
<1>8. QED
  BY <1>1, <1>2, <1>3, <1>4, <1>5, <1>6, <1>7

\* What a step of a worker leaves alone: the other workers, the uploads, and
\* the classify messages that are still queued.
Frame(w) ==
    /\ \A v \in Workers \ {w} : pc'[v] = pc[v] /\ task'[v] = task[v]
    /\ task'[w] \in {task[w], NoTask}
    /\ uploaded' = uploaded
    /\ \A u \in Uploads : tasks'[Classify(u)] = tasks[Classify(u)]

\* Every step of a worker stays in its frame.
LEMMA StepFrame ==
    ASSUME TypeOK, NEW w \in Workers, Step(w)
    PROVE  Frame(w)
<1> USE DEF TypeOK, Frame, Goto, Done, Fail, Abandon, SendRaises, Enqueue, At, objects, workerVars
<1>1. CASE Claim(w) \/ DropDuplicate(w) \/ Archive(w) \/ Unstage(w) \/ ClassifyKind(w)
  <2>1. CASE Claim(w)
    BY <2>1 DEF Claim
  <2>2. QED
    BY <1>1, <2>1 DEF DropDuplicate, Archive, Unstage, ClassifyKind
<1>2. CASE Lookup(w) \/ AcquireLock(w) \/ Recheck(w) \/ RunLane(w) \/ StoreExtraction(w)
           \/ ReleaseLock(w)
  <2>1. CASE AcquireLock(w) \/ ReleaseLock(w)
    BY <2>1 DEF AcquireLock, ReleaseLock
  <2>2. QED
    BY <1>2, <2>1 DEF Lookup, Recheck, RunLane, StoreExtraction
<1>3. CASE SendExtract(w) \/ SendCached(w) \/ SendResolve(w)
  <2>1. Doc(w) \in Docs
    BY <1>3, DocOfTask DEF SendExtract, SendCached, SendResolve, TaskFits, ClassifyPlaces,
                           ExtractPlaces, Tasks, Doc
  <2>2. QED
    BY <1>3, <2>1, TasksDiffer DEF SendExtract, SendCached, SendResolve
<1>4. CASE ResolveSubgraph(w) \/ QueueSubgraph(w) \/ ReleaseDocument(w) \/ Ack(w)
  BY <1>4 DEF ResolveSubgraph, QueueSubgraph, ReleaseDocument, Ack
<1>5. QED
  BY <1>1, <1>2, <1>3, <1>4 DEF Step

\* A step that deletes nothing and sends nobody to the gate keeps what is kept.
LEMMA KeptStays ==
    ASSUME NEW w \in Workers, Frame(w), staging \subseteq staging', 
           pc'[w] \in {"claim", "drop"} => pc[w] \in {"claim", "drop"}, 
           NEW u \in Uploads, Kept(u)
    PROVE  Kept(u)'
  BY TasksDiffer DEF Frame, Kept, Holding

\* Messages stay where they are in every step of a worker that deletes nothing.
LEMMA MessageOnceKept ==
    ASSUME NEW w \in Workers, Frame(w), MessageOnce, staging' = staging
    PROVE  MessageOnce'
  BY TasksDiffer DEF MessageOnce, Frame, Holding

\* A step that deletes nothing, and passes neither the gate nor the archive.
LEMMA BytesUndisturbed ==
    ASSUME NEW w \in Workers, Frame(w), BytesInv, TypeOK, staging' = staging,
           claims' \subseteq claims, raw \subseteq raw',
           pc'[w] \notin {"claim", "drop", "archive", "unstage"}
    PROVE  BytesInv'
<1>1. MessageOnce'
  BY MessageOnceKept DEF BytesInv
<1>2. StagedUntilMoved' /\ ArchivedAtUnstage'
  BY DEF BytesInv, StagedUntilMoved, ArchivedAtUnstage, Frame, Doc
<1>3. \A d \in Docs : Anchored(d) => Anchored(d)'
  BY KeptStays DEF Anchored
<1>4. ClaimsAnchored'
  <2>1. \A v \in Workers : pc'[v] = "drop" => pc[v] = "drop" /\ Doc(v)' = Doc(v)
    BY DEF Frame, Doc
  <2>2. \A v \in Workers : pc[v] = "drop" => Doc(v) \in Docs
    BY DocOfTask DEF TypeOK, TaskFits, ClassifyPlaces, Tasks, Doc
  <2>3. QED
    BY <1>3, <2>1, <2>2 DEF BytesInv, ClaimsAnchored, TypeOK
<1>5. BytesKept'
  BY DEF BytesInv, BytesKept, Frame
<1>6. QED
  BY <1>1, <1>2, <1>4, <1>5 DEF BytesInv, Frame

\* The steps of the workers that are not lost preserve it.
LEMMA BytesInvariant ==
    ASSUME MaxCrashes = 0
    PROVE  Spec => []BytesInv
<1>1. Init => BytesInv
  BY TasksDiffer DEF Init, BytesInv, MessageOnce, StagedUntilMoved, ArchivedAtUnstage,
                     ClaimsAnchored, BytesKept, Holding
<1>2. BytesInv /\ TypeOK /\ TypeOK' /\ [Next]_vars => BytesInv'
  <2> SUFFICES ASSUME BytesInv, TypeOK, TypeOK', [Next]_vars PROVE BytesInv'
    OBVIOUS
  <2>0. /\ pc \in [Workers -> Places] /\ task \in [Workers -> Tasks \cup {NoTask}]
        /\ tasks \in [Tasks -> Nat] /\ staging \subseteq Uploads
        /\ \A w \in Workers : pc[w] \in ClassifyPlaces =>
              /\ task[w] \in {Classify(u) : u \in Uploads} /\ task[w].item \in Uploads
              /\ Holding(w, task[w].item) /\ Doc(w) = Content[task[w].item] /\ Doc(w) \in Docs
    BY TasksDiffer, PipelineAssumption DEF TypeOK, TaskFits, Holding, Doc
  <2>1. CASE UNCHANGED vars
    BY <2>1 DEF vars, BytesInv, MessageOnce, StagedUntilMoved, ArchivedAtUnstage,
                ClaimsAnchored, BytesKept, Holding, Anchored, Kept, Doc, objects, workerVars
  <2>2. ASSUME NEW x \in Uploads, Upload(x) PROVE BytesInv'
    <3>1. /\ x \notin uploaded /\ uploaded' = uploaded \cup {x} /\ staging' = staging \cup {x}
          /\ raw' = raw /\ claims' = claims /\ pc' = pc /\ task' = task
          /\ tasks' = [tasks EXCEPT ![Classify(x)] = @ + 1]
      BY <2>2 DEF Upload, Enqueue, workerVars
    <3>2. tasks[Classify(x)] = 0 /\ tasks'[Classify(x)] = 1
      BY <2>0, <3>1, TasksDiffer DEF BytesInv, MessageOnce
    <3>3. MessageOnce'
      BY <2>0, <3>1, <3>2, TasksDiffer DEF BytesInv, MessageOnce, Holding
    <3>4. \A u \in Uploads : Kept(u) /\ u # x => Kept(u)'
      BY <2>0, <3>1, TasksDiffer DEF Kept, Holding
    <3>5. \A d \in Docs : Anchored(d) => Anchored(d)'
      BY <3>1, <3>4 DEF Anchored, Kept, BytesInv
    <3>6. ClaimsAnchored' /\ StagedUntilMoved' /\ ArchivedAtUnstage'
      BY <2>0, <3>1, <3>5 DEF BytesInv, ClaimsAnchored, StagedUntilMoved, ArchivedAtUnstage, Doc,
                              TypeOK, ClassifyPlaces
    <3>7. BytesKept' /\ (staging \subseteq uploaded)'
      BY <3>1 DEF BytesInv, BytesKept
    <3>8. QED
      BY <3>3, <3>6, <3>7 DEF BytesInv
  <2>3. ASSUME NEW w \in Workers, NEW t \in Tasks, Take(w, t) PROVE BytesInv'
    <3>1. /\ pc[w] = "idle" /\ pc' = [pc EXCEPT ![w] = FirstPlace(t)]
          /\ task' = [task EXCEPT ![w] = t] /\ tasks' = [tasks EXCEPT ![t] = @ - 1]
          /\ tasks[t] > 0 /\ uploaded' = uploaded /\ staging' = staging /\ raw' = raw
          /\ claims' = claims
      BY <2>3 DEF Take, At, objects
    <3>2. \A u \in Uploads : Kept(u) => Kept(u)'
      <4> SUFFICES ASSUME NEW u \in Uploads, Kept(u) PROVE Kept(u)'
        OBVIOUS
      <4>1. t # Classify(u)
        BY <3>1 DEF Kept
      <4>2. QED
        BY <2>0, <3>1, <4>1, TasksDiffer DEF Kept, Holding
    <3>3. \A d \in Docs : Anchored(d) => Anchored(d)'
      BY <3>1, <3>2 DEF Anchored
    <3>4. CASE t \in {Classify(u) : u \in Uploads}
      <4>1. PICK x \in Uploads : t = Classify(x)
        BY <3>4
      <4>2. FirstPlace(t) = "claim"
        BY <4>1 DEF FirstPlace, Classify
      <4>3. tasks[t] = 1 /\ x \in staging /\ x \in uploaded /\ \A v \in Workers : ~Holding(v, x)
        BY <2>0, <3>1, <4>1, TasksDiffer DEF BytesInv, MessageOnce
      <4>4. MessageOnce'
        BY <2>0, <3>1, <4>1, <4>3, TasksDiffer DEF BytesInv, MessageOnce, Holding
      <4>5. StagedUntilMoved' /\ ArchivedAtUnstage'
        BY <2>0, <3>1, <4>1, <4>2, <4>3, TasksDiffer
           DEF BytesInv, StagedUntilMoved, ArchivedAtUnstage, Doc
      <4>6. ClaimsAnchored'
        BY <2>0, <3>1, <3>3, <4>2 DEF BytesInv, ClaimsAnchored, TypeOK, Doc, ClassifyPlaces
      <4>7. QED
        BY <3>1, <4>4, <4>5, <4>6 DEF BytesInv, BytesKept
    <3>5. CASE t \notin {Classify(u) : u \in Uploads}
      <4>1. FirstPlace(t) \in {"lookup", "resolve"}
        BY <3>5 DEF FirstPlace, Extract, Resolve, Tasks
      <4>2. \A u \in Uploads : t # Classify(u)
        BY <3>5
      <4>3. MessageOnce'
        BY <2>0, <3>1, <4>2, TasksDiffer DEF BytesInv, MessageOnce, Holding
      <4>4. StagedUntilMoved' /\ ArchivedAtUnstage'
        BY <2>0, <3>1, <4>1 DEF BytesInv, StagedUntilMoved, ArchivedAtUnstage, Doc
      <4>5. ClaimsAnchored'
        BY <2>0, <3>1, <3>3, <4>1 DEF BytesInv, ClaimsAnchored, TypeOK, Doc, ClassifyPlaces
      <4>6. QED
        BY <3>1, <4>3, <4>4, <4>5 DEF BytesInv, BytesKept
    <3>6. QED
      BY <3>4, <3>5
  <2>4. ASSUME NEW w \in Workers, WorkerLost(w) PROVE BytesInv'
    BY <2>4 DEF WorkerLost, TypeOK
  <2>5. ASSUME NEW d \in Docs, LockExpires(d) \/ CacheExpires(d) PROVE BytesInv'
    BY <2>5 DEF LockExpires, CacheExpires, objects, workerVars, BytesInv, MessageOnce, StagedUntilMoved,
                ArchivedAtUnstage, ClaimsAnchored, BytesKept, Holding, Anchored, Kept, Doc
  <2>6. ASSUME NEW w \in Workers, Step(w) PROVE BytesInv'
    <3>0. Frame(w)
      BY <2>6, StepFrame
    <3> USE <2>0, <3>0 DEF At, Goto, Done, Fail, Abandon, objects, workerVars, budget
    <3>1. CASE Claim(w) /\ pc'[w] \in {"drop", "archive"}
      <4>1. /\ pc[w] = "claim" /\ task[w].item \in staging /\ staging' = staging /\ raw' = raw
            /\ pc' = [pc EXCEPT ![w] = IF Doc(w) \in claims THEN "drop" ELSE "archive"]
            /\ claims' = claims \cup {Doc(w)} /\ task' = task
        BY <3>1 DEF Claim, BytesInv, StagedUntilMoved
      <4>2. MessageOnce'
        BY <4>1, MessageOnceKept DEF BytesInv
      <4>3. StagedUntilMoved' /\ ArchivedAtUnstage'
        BY <4>1 DEF BytesInv, StagedUntilMoved, ArchivedAtUnstage, Doc
      <4>4. \A d \in Docs : Anchored(d) => Anchored(d)'
        BY <4>1, KeptStays DEF Anchored
      <4>5. Doc(w) \in Docs /\ Doc(w)' = Doc(w)
        BY <4>1 DEF ClassifyPlaces, Doc
      <4>6. Anchored(Doc(w))'
        <5>1. CASE Doc(w) \in claims
          BY <4>4, <4>5, <5>1 DEF BytesInv, ClaimsAnchored
        <5>2. CASE Doc(w) \notin claims
          <6>1. PICK x \in Uploads : Holding(w, x) /\ Content[x] = Doc(w) /\ x \in staging
            BY <4>1 DEF ClassifyPlaces
          <6>2. tasks[Classify(x)] = 0 /\ \A v \in Workers : Holding(v, x) => v = w
            BY <6>1, TasksDiffer DEF BytesInv, MessageOnce
          <6>3. \A v \in Workers : Holding(v, x)' => v = w
            BY <4>1, <6>2 DEF Holding
          <6>4. pc'[w] = "archive"
            BY <4>1, <5>2
          <6>5. Kept(x)'
            BY <4>1, <6>1, <6>2, <6>3, <6>4 DEF Kept, Frame
          <6>6. \E u \in Uploads : Content[u] = Doc(w) /\ Kept(u)'
            BY <6>1, <6>5
          <6>7. (\E u \in Uploads : Content[u] = Doc(w) /\ Kept(u))'
            BY <4>5, <6>6
          <6>8. QED
            BY <6>7 DEF Anchored
        <5>3. QED
          BY <5>1, <5>2
      <4>7. ClaimsAnchored'
        <5>1. \A v \in Workers :
                  pc'[v] = "drop" => v = w \/ (pc[v] = "drop" /\ Doc(v)' = Doc(v))
          BY DEF Frame, Doc
        <5>2. QED
          BY <4>1, <4>4, <4>5, <4>6, <5>1 DEF BytesInv, ClaimsAnchored, TypeOK, ClassifyPlaces
      <4>8. QED
        BY <4>1, <4>2, <4>3, <4>7 DEF BytesInv, BytesKept, Frame
    <3>2. CASE DropDuplicate(w) /\ pc'[w] = "ack"
      <4> DEFINE x == task[w].item
      <4>1. /\ pc[w] = "drop" /\ staging' = staging \ {x} /\ raw' = raw /\ claims' = claims
            /\ pc' = [pc EXCEPT ![w] = "ack"] /\ task' = task
        BY <3>2 DEF DropDuplicate
      <4>2. x \in Uploads /\ Holding(w, x) /\ ~Kept(x) /\ Content[x] = Doc(w) /\ Doc(w) \in Docs
        BY <4>1 DEF ClassifyPlaces, Kept
      <4>3. tasks[Classify(x)] = 0 /\ \A v \in Workers : Holding(v, x) => v = w
        BY <4>2, TasksDiffer DEF BytesInv, MessageOnce
      <4>4. MessageOnce'
        BY <4>1, <4>3, TasksDiffer DEF BytesInv, MessageOnce, Frame, Holding
      <4>5. StagedUntilMoved' /\ ArchivedAtUnstage'
        <5>1. \A v \in Workers : pc'[v] \in {"claim", "drop", "archive", "unstage"} =>
                  v # w /\ pc'[v] = pc[v] /\ task'[v] = task[v] /\ Doc(v)' = Doc(v)
          BY <4>1 DEF Frame, Doc
        <5>2. \A v \in Workers \ {w} :
                  pc[v] \in {"claim", "drop", "archive", "unstage"} => task[v].item # x
          BY <4>2, <4>3 DEF ClassifyPlaces
        <5>3. QED
          BY <4>1, <5>1, <5>2 DEF BytesInv, StagedUntilMoved, ArchivedAtUnstage
      <4>6. \A u \in Uploads : Kept(u) => Kept(u)' /\ u # x
        BY <4>1, <4>2, TasksDiffer DEF Kept, Frame, Holding
      <4>7. \A d \in Docs : Anchored(d) => Anchored(d)'
        BY <4>1, <4>6 DEF Anchored
      <4>8. ClaimsAnchored'
        <5>1. \A v \in Workers : pc'[v] = "drop" => pc[v] = "drop" /\ Doc(v)' = Doc(v)
          BY <4>1 DEF Frame, Doc
        <5>2. QED
          BY <4>1, <4>7, <5>1 DEF BytesInv, ClaimsAnchored, TypeOK, ClassifyPlaces
      <4>9. BytesKept'
        <5>1. Anchored(Doc(w))
          BY <4>1 DEF BytesInv, ClaimsAnchored
        <5>2. Content[x] \in raw \/ \E v \in staging' : Content[v] = Content[x]
          BY <4>1, <4>2, <4>6, <5>1 DEF Anchored, Kept
        <5>3. QED
          BY <4>1, <4>2, <5>2 DEF BytesInv, BytesKept, Frame
      <4>10. QED
        BY <4>1, <4>4, <4>5, <4>8, <4>9 DEF BytesInv, Frame
    <3>3. CASE Archive(w)
      <4>1. /\ pc[w] = "archive" /\ staging' = staging /\ claims' = claims /\ task' = task
            /\ raw \subseteq raw'
            /\ \/ pc'[w] = "unstage" /\ Doc(w) \in raw'
               \/ pc'[w] = "releaseIngest"
        BY <3>3 DEF Archive
      <4>2. MessageOnce'
        BY <4>1, MessageOnceKept DEF BytesInv
      <4>3. StagedUntilMoved' /\ ArchivedAtUnstage'
        BY <4>1 DEF BytesInv, StagedUntilMoved, ArchivedAtUnstage, Doc, Frame
      <4>4. \A d \in Docs : Anchored(d) => Anchored(d)'
        BY <4>1, KeptStays DEF Anchored
      <4>5. ClaimsAnchored'
        <5>1. \A v \in Workers : pc'[v] = "drop" => pc[v] = "drop" /\ Doc(v)' = Doc(v)
          BY <4>1 DEF Frame, Doc
        <5>2. QED
          BY <4>1, <4>4, <5>1 DEF BytesInv, ClaimsAnchored, TypeOK, ClassifyPlaces
      <4>6. QED
        BY <4>1, <4>2, <4>3, <4>5 DEF BytesInv, BytesKept, Frame
    <3>4. CASE Unstage(w)
      <4> DEFINE x == task[w].item
      <4>1. /\ pc[w] = "unstage" /\ staging \ {x} \subseteq staging' /\ staging' \subseteq staging
            /\ raw' = raw /\ claims' = claims /\ pc'[w] \in {"kind", "releaseIngest"} /\ task' = task
        BY <3>4 DEF Unstage
      <4>2. x \in Uploads /\ Holding(w, x) /\ Content[x] = Doc(w) /\ Doc(w) \in raw
        BY <4>1 DEF ClassifyPlaces, BytesInv, ArchivedAtUnstage
      <4>3. tasks[Classify(x)] = 0 /\ \A v \in Workers : Holding(v, x) => v = w
        BY <4>2, TasksDiffer DEF BytesInv, MessageOnce
      <4>4. MessageOnce'
        BY <4>1, <4>3, TasksDiffer DEF BytesInv, MessageOnce, Frame, Holding
      <4>5. StagedUntilMoved' /\ ArchivedAtUnstage'
        <5>1. \A v \in Workers : pc'[v] \in {"claim", "drop", "archive", "unstage"} =>
                  v # w /\ pc'[v] = pc[v] /\ task'[v] = task[v] /\ Doc(v)' = Doc(v)
          BY <4>1 DEF Frame, Doc
        <5>2. \A v \in Workers \ {w} :
                  pc[v] \in {"claim", "drop", "archive", "unstage"} => task[v].item # x
          BY <4>2, <4>3 DEF ClassifyPlaces
        <5>3. QED
          BY <4>1, <5>1, <5>2 DEF BytesInv, StagedUntilMoved, ArchivedAtUnstage
      <4>6. \A u \in Uploads : Kept(u) /\ u # x => Kept(u)'
        BY <4>1, TasksDiffer DEF Kept, Frame, Holding
      <4>7. \A d \in Docs : Anchored(d) => Anchored(d)'
        BY <4>1, <4>2, <4>6 DEF Anchored
      <4>8. ClaimsAnchored'
        <5>1. \A v \in Workers : pc'[v] = "drop" => pc[v] = "drop" /\ Doc(v)' = Doc(v)
          BY <4>1 DEF Frame, Doc
        <5>2. QED
          BY <4>1, <4>7, <5>1 DEF BytesInv, ClaimsAnchored, TypeOK, ClassifyPlaces
      <4>9. BytesKept'
        BY <4>1, <4>2 DEF BytesInv, BytesKept, Frame
      <4>10. QED
        BY <4>1, <4>4, <4>5, <4>8, <4>9 DEF BytesInv, Frame
    <3>5. CASE ClassifyKind(w) \/ SendExtract(w) \/ Lookup(w) \/ SendCached(w) \/ AcquireLock(w)
      BY <3>5, BytesUndisturbed DEF ClassifyKind, SendExtract, Lookup, SendCached, AcquireLock
    <3>6. CASE Recheck(w) \/ RunLane(w) \/ StoreExtraction(w) \/ ReleaseLock(w) \/ SendResolve(w)
      BY <3>6, BytesUndisturbed DEF Recheck, RunLane, StoreExtraction, ReleaseLock, SendResolve
    <3>7. CASE ResolveSubgraph(w) \/ QueueSubgraph(w) \/ ReleaseDocument(w) \/ Ack(w)
      BY <3>7, BytesUndisturbed DEF ResolveSubgraph, QueueSubgraph, ReleaseDocument, Ack
    <3>8. CASE DropDuplicate(w) /\ pc'[w] = "idle"
      BY <3>8, BytesUndisturbed DEF DropDuplicate
    <3>9. CASE Claim(w) /\ pc'[w] = "idle"
      <4>1. /\ pc[w] = "claim" /\ task[w].item \in staging /\ staging' = staging /\ raw' = raw
            /\ claims' \subseteq claims \cup {Doc(w)}
        BY <3>9 DEF Claim, BytesInv, StagedUntilMoved
      <4>2. MessageOnce'
        BY <4>1, MessageOnceKept DEF BytesInv
      <4>3. StagedUntilMoved' /\ ArchivedAtUnstage'
        BY <3>9, <4>1 DEF BytesInv, StagedUntilMoved, ArchivedAtUnstage, Doc, Frame
      <4>4. \A e \in Docs : Anchored(e) => Anchored(e)'
        BY <3>9, <4>1, KeptStays DEF Anchored
      <4>5. PICK x \in Uploads : Holding(w, x) /\ Content[x] = Doc(w) /\ x \in staging
        BY <4>1 DEF ClassifyPlaces
      <4>6. tasks[Classify(x)] = 0 /\ \A v \in Workers : Holding(v, x) => v = w
        BY <4>5, TasksDiffer DEF BytesInv, MessageOnce
      <4>7. Kept(x)'
        BY <3>9, <4>1, <4>5, <4>6, TasksDiffer DEF Kept, Frame, Holding
      <4>8. \A e \in Docs : e = Doc(w) => Anchored(e)'
        BY <4>5, <4>7 DEF Anchored
      <4>9. ClaimsAnchored'
        <5>1. \A v \in Workers : pc'[v] = "drop" => pc[v] = "drop" /\ Doc(v)' = Doc(v)
          BY <3>9 DEF Frame, Doc
        <5>2. QED
          BY <4>1, <4>4, <4>8, <5>1 DEF BytesInv, ClaimsAnchored, TypeOK, ClassifyPlaces
      <4>10. QED
        BY <4>1, <4>2, <4>3, <4>9 DEF BytesInv, BytesKept, Frame
    <3>10. QED
      <4>1. Claim(w) => pc'[w] \in {"drop", "archive", "idle"}
        BY DEF Claim
      <4>2. DropDuplicate(w) => pc'[w] \in {"ack", "idle"}
        BY DEF DropDuplicate
      <4>3. QED
        BY <2>6, <3>1, <3>2, <3>3, <3>4, <3>5, <3>6, <3>7, <3>8, <3>9, <4>1, <4>2 DEF Step
  <2>7. QED
    BY <2>1, <2>2, <2>3, <2>4, <2>5, <2>6 DEF Next
<1>3. QED
  BY <1>1, <1>2, TypeCorrect, PTL DEF Spec

\* Without a lost worker an uploaded content keeps its bytes, whichever calls fail
\* and however many copies of it race through classify_document.
THEOREM BytesAreKept ==
    ASSUME MaxCrashes = 0
    PROVE  Spec => []BytesKept
<1>1. BytesInv => BytesKept
  BY DEF BytesInv
<1>2. QED
  BY <1>1, BytesInvariant, PTL

-----------------------------------------------------------------------------
(***************************************************************************)
(* What is stranded.  ClaimBacked counts as carried a document whose only  *)
(* worker has been turned away and is about to drop it, and says nothing   *)
(* of a content without a claim.  What the steps preserve is that a claim  *)
(* has a message or a worker that will still pass the document on or give  *)
(* the claim back, and that an uploaded content has one that will come to  *)
(* that or to an alert.  A worker may drop a document only because another *)
(* one is on it: one that holds its lane, or its claim.  No lost worker,   *)
(* no failing call and no lock that runs out is excluded.                  *)
(***************************************************************************)

\* Places from which a worker passes its document on, or gives its claim back.
BackingPlaces ==
    ClaimedPlaces \cup ResolvePlaces \cup
    {"lookup", "sendCached", "lock", "lane", "store", "unlock", "releaseLane", "sendResolve"}

\* Places from which it does, or ends in an alert, or comes to the gate.
RoadPlaces == BackingPlaces \cup {"claim", "unlockFailed"}

Backing(w, d) == pc[w] \in BackingPlaces /\ Doc(w) = d
OnRoad(w, d) == pc[w] \in RoadPlaces /\ Doc(w) = d

Backed(d) == \/ Queued(d) \/ buffer[d] > 0 \/ d \in stranded
             \/ \E w \in Workers : Backing(w, d)

Traced(d) == \/ Queued(d) \/ buffer[d] > 0 \/ d \in stranded \/ d \in failed
             \/ \E u \in Uploads : Content[u] = d /\ tasks[Classify(u)] > 0
             \/ \E w \in Workers : OnRoad(w, d)

ClaimsBacked == \A d \in claims : Backed(d)
UploadsTraced == \A u \in uploaded : Traced(Content[u])

\* Whoever works on a document holds a message about a content.
LEMMA WorkersHold ==
    ASSUME TypeOK, NEW w \in Workers, pc[w] # "idle"
    PROVE  task[w] \in Tasks /\ task[w] # NoTask /\ Doc(w) \in Docs
<1>1. task[w] \in Tasks
  BY DEF TypeOK, TaskFits, Places, Tasks
<1>2. QED
  BY <1>1, TasksDiffer, DocOfTask DEF Doc, Tasks

\* Whoever takes a step holds a message.
LEMMA StepsBusy ==
    ASSUME NEW w \in Workers, Step(w)
    PROVE  pc[w] # "idle"
  BY DEF Step, Claim, DropDuplicate, Archive, Unstage, ClassifyKind, SendExtract, Lookup,
         SendCached, AcquireLock, Recheck, RunLane, StoreExtraction, ReleaseLock, SendResolve,
         ResolveSubgraph, QueueSubgraph, ReleaseDocument, Ack, At

\* A step of a worker only adds to what is queued, delivered, failed or stranded; a
\* claim that is new is its own document's.
LEMMA OnlyMore ==
    ASSUME TypeOK, NEW w \in Workers, Step(w), NEW d \in Docs
    PROVE  /\ Queued(d) => Queued(d)'
           /\ buffer[d] > 0 => buffer'[d] > 0
           /\ d \in stranded => d \in stranded'
           /\ d \in failed => d \in failed'
           /\ d \in claims' => d \in claims \/ d = Doc(w)
<1> USE DEF TypeOK, Goto, Done, Fail, Abandon, SendRaises, Enqueue, At, outcome, objects, workerVars
<1>1. Doc(w) \in Docs
  BY StepsBusy, WorkersHold
<1>2. CASE Claim(w) \/ DropDuplicate(w) \/ Archive(w) \/ Unstage(w) \/ ClassifyKind(w)
  BY <1>2 DEF Claim, DropDuplicate, Archive, Unstage, ClassifyKind, Queued
<1>3. CASE Lookup(w) \/ Recheck(w) \/ RunLane(w) \/ StoreExtraction(w)
  BY <1>3 DEF Lookup, Recheck, RunLane, StoreExtraction, Queued
<1>4. CASE AcquireLock(w) \/ ReleaseLock(w)
  BY <1>4 DEF AcquireLock, ReleaseLock, Queued
<1>5. CASE SendExtract(w) \/ SendCached(w) \/ SendResolve(w)
  <2>1. /\ claims' = claims /\ buffer' = buffer /\ stranded \subseteq stranded'
        /\ failed \subseteq failed'
        /\ \/ tasks' = tasks
           \/ tasks' = [tasks EXCEPT ![Extract(Doc(w))] = @ + 1]
           \/ tasks' = [tasks EXCEPT ![Resolve(Doc(w))] = @ + 1]
    BY <1>5 DEF SendExtract, SendCached, SendResolve
  <2>2. \A t \in Tasks : tasks'[t] >= tasks[t]
    BY <1>1, <2>1, TasksDiffer
  <2>3. QED
    BY <2>1, <2>2, TasksDiffer DEF Queued
<1>6. CASE ResolveSubgraph(w) \/ QueueSubgraph(w) \/ Ack(w)
  BY <1>1, <1>6 DEF ResolveSubgraph, QueueSubgraph, Ack, Queued
<1>7. CASE ReleaseDocument(w)
  BY <1>7 DEF ReleaseDocument, Queued
<1>8. QED
  BY <1>2, <1>3, <1>4, <1>5, <1>6, <1>7 DEF Step

\* What a worker's step does to its own document: it keeps it in hand, or passes it
\* on, or is done with its claim, or leaves it stranded, or leaves it to another.
LEMMA StepBacks ==
    ASSUME TypeOK, TypeOK', LockInv, NEW w \in Workers, Step(w), NEW d \in Docs, d = Doc(w),
           Backing(w, d) \/ d \notin claims
    PROVE  \/ d \notin claims' \/ Queued(d)' \/ buffer'[d] > 0 \/ d \in stranded'
           \/ pc'[w] \in BackingPlaces /\ task'[w] = task[w]
           \/ \E v \in Workers \ {w} : Backing(v, d)
<1>0. pc \in [Workers -> Places] /\ task \in [Workers -> Tasks \cup {NoTask}]
  BY DEF TypeOK
<1> USE <1>0 DEF Backing, BackingPlaces, ClaimedPlaces, ClassifyPlaces, ResolvePlaces, At, Goto,
                 Fail, Done, Abandon, SendRaises
<1>1. CASE Claim(w)
  BY <1>1 DEF Claim
<1>2. CASE DropDuplicate(w) \/ Ack(w)
  BY <1>2 DEF DropDuplicate, Ack
<1>3. CASE Archive(w) \/ Unstage(w) \/ ClassifyKind(w)
  BY <1>3 DEF Archive, Unstage, ClassifyKind
<1>4. CASE SendExtract(w) \/ SendCached(w) \/ SendResolve(w)
  <2>1. /\ claims' = claims
        /\ \/ tasks' = [tasks EXCEPT ![Extract(d)] = @ + 1]
           \/ tasks' = [tasks EXCEPT ![Resolve(d)] = @ + 1]
           \/ d \in stranded'
           \/ pc[w] = "sendCached" /\ pc'[w] = "lock" /\ task'[w] = task[w]
           \/ pc[w] = "sendRechecked"
    BY <1>4 DEF SendExtract, SendCached, SendResolve, Enqueue
  <2>2. CASE tasks' = [tasks EXCEPT ![Extract(d)] = @ + 1]
             \/ tasks' = [tasks EXCEPT ![Resolve(d)] = @ + 1]
    BY <2>2, TasksDiffer DEF Queued, TypeOK
  <2>3. QED
    BY <2>1, <2>2
<1>5. CASE Lookup(w) \/ Recheck(w) \/ RunLane(w) \/ StoreExtraction(w)
  BY <1>5 DEF Lookup, Recheck, RunLane, StoreExtraction
<1>6. CASE AcquireLock(w)
  <2>1. CASE pc'[w] = "recheck" /\ d \in locks /\ ~OnlyFailing(d)
    <3>1. d \in stranded \/ \E v \in Inside(d) : pc[v] # "unlockFailed"
      BY <2>1 DEF LockInv, KeyHeld, OnlyFailing
    <3>2. \A v \in Inside(d) : pc[v] # "unlockFailed" => v # w /\ Backing(v, d)
      BY <1>6 DEF AcquireLock, Inside, LockedPlaces
    <3>3. d \in stranded => d \in stranded'
      BY <1>6, OnlyMore
    <3>4. QED
      BY <3>1, <3>2, <3>3 DEF Inside
  <2>2. QED
    BY <1>6, <2>1 DEF AcquireLock
<1>7. CASE ReleaseLock(w)
  BY <1>7 DEF ReleaseLock
<1>8. CASE ResolveSubgraph(w)
  BY <1>8 DEF ResolveSubgraph
<1>9. CASE QueueSubgraph(w)
  BY <1>9 DEF QueueSubgraph, TypeOK
<1>10. CASE ReleaseDocument(w)
  BY <1>10 DEF ReleaseDocument
<1>11. QED
  BY <1>1, <1>2, <1>3, <1>4, <1>5, <1>6, <1>7, <1>8, <1>9, <1>10 DEF Step

\* And to the traces of its content: it goes on, passes it on, or ends in an alert,
\* or leaves it to another; a duplicate is dropped on the word of a claim, which has
\* somebody on it.
LEMMA StepTraces ==
    ASSUME TypeOK, TypeOK', LockInv, ClaimsBacked, NEW w \in Workers, Step(w), NEW d \in Docs,
           d = Doc(w), OnRoad(w, d)
    PROVE  \/ Queued(d)' \/ buffer'[d] > 0 \/ d \in stranded' \/ d \in failed'
           \/ pc'[w] \in RoadPlaces /\ task'[w] = task[w]
           \/ \E v \in Workers \ {w} : OnRoad(v, d)
<1>0. pc \in [Workers -> Places] /\ task \in [Workers -> Tasks \cup {NoTask}]
  BY DEF TypeOK
<1> USE <1>0 DEF OnRoad, RoadPlaces, BackingPlaces, ClaimedPlaces, ClassifyPlaces,
                 ResolvePlaces, At, Goto, Fail, Done, Abandon, SendRaises
<1>1. CASE Claim(w)
  <2>1. CASE pc[w] = "claim" /\ d \in claims
    <3>1. Queued(d) \/ buffer[d] > 0 \/ d \in stranded \/ \E v \in Workers : Backing(v, d)
      BY <2>1 DEF ClaimsBacked, Backed
    <3>2. \A v \in Workers : Backing(v, d) => v # w /\ OnRoad(v, d)
      BY <2>1 DEF Backing
    <3>3. QED
      BY <3>1, <3>2, OnlyMore
  <2>2. QED
    BY <1>1, <2>1 DEF Claim
<1>2. CASE DropDuplicate(w) \/ Ack(w)
  BY <1>2 DEF DropDuplicate, Ack
<1>3. CASE Archive(w) \/ Unstage(w) \/ ClassifyKind(w)
  BY <1>3 DEF Archive, Unstage, ClassifyKind
<1>4. CASE SendExtract(w) \/ SendCached(w) \/ SendResolve(w)
  <2>1. \/ tasks' = [tasks EXCEPT ![Extract(d)] = @ + 1]
        \/ tasks' = [tasks EXCEPT ![Resolve(d)] = @ + 1]
        \/ d \in stranded'
        \/ pc[w] = "sendCached" /\ pc'[w] = "lock" /\ task'[w] = task[w]
    BY <1>4 DEF SendExtract, SendCached, SendResolve, Enqueue
  <2>2. CASE tasks' = [tasks EXCEPT ![Extract(d)] = @ + 1]
             \/ tasks' = [tasks EXCEPT ![Resolve(d)] = @ + 1]
    BY <2>2, TasksDiffer DEF Queued, TypeOK
  <2>3. QED
    BY <2>1, <2>2
<1>5. CASE Lookup(w) \/ Recheck(w) \/ RunLane(w) \/ StoreExtraction(w)
  BY <1>5 DEF Lookup, Recheck, RunLane, StoreExtraction
<1>6. CASE AcquireLock(w)
  <2>1. CASE pc'[w] = "recheck" /\ d \in locks
    <3>1. d \in stranded \/ \E v \in Workers : v \in Inside(d)
      BY <2>1 DEF LockInv, KeyHeld, Inside
    <3>2. \A v \in Inside(d) : v # w /\ OnRoad(v, d)
      BY <1>6 DEF AcquireLock, Inside, LockedPlaces
    <3>3. d \in stranded => d \in stranded'
      BY <1>6, OnlyMore
    <3>4. QED
      BY <3>1, <3>2, <3>3 DEF Inside
  <2>2. QED
    BY <1>6, <2>1 DEF AcquireLock
<1>7. CASE ReleaseLock(w)
  BY <1>7 DEF ReleaseLock
<1>8. CASE ResolveSubgraph(w)
  BY <1>8 DEF ResolveSubgraph
<1>9. CASE QueueSubgraph(w)
  BY <1>9 DEF QueueSubgraph, TypeOK
<1>10. CASE ReleaseDocument(w)
  BY <1>10 DEF ReleaseDocument
<1>11. QED
  BY <1>1, <1>2, <1>3, <1>4, <1>5, <1>6, <1>7, <1>8, <1>9, <1>10 DEF Step

StrandInv == ClaimsBacked /\ UploadsTraced

\* Every step keeps every claim backed and every content traced.
LEMMA StrandInvariant == Spec => []StrandInv
<1>1. Init => StrandInv
  BY DEF Init, StrandInv, ClaimsBacked, UploadsTraced
<1>2. StrandInv /\ LockInv /\ TypeOK /\ TypeOK' /\ [Next]_vars => StrandInv'
  <2> SUFFICES ASSUME StrandInv, LockInv, TypeOK, TypeOK', [Next]_vars PROVE StrandInv'
    OBVIOUS
  <2>0. /\ pc \in [Workers -> Places] /\ task \in [Workers -> Tasks \cup {NoTask}]
        /\ tasks \in [Tasks -> Nat] /\ claims \subseteq Docs /\ uploaded \subseteq Uploads
        /\ \A u \in Uploads : Content[u] \in Docs
    BY PipelineAssumption DEF TypeOK
  <2>1. ASSUME UNCHANGED <<claims, uploaded, tasks, buffer, stranded, failed, pc, task>>
        PROVE  StrandInv'
    BY <2>1 DEF StrandInv, ClaimsBacked, UploadsTraced, Backed, Traced, Queued, Backing, OnRoad,
                Doc
  <2>2. ASSUME NEW u \in Uploads, Upload(u) PROVE StrandInv'
    <3>1. /\ \A t \in Tasks : tasks'[t] >= tasks[t]
          /\ tasks'[Classify(u)] > 0
          /\ uploaded' = uploaded \cup {u}
          /\ UNCHANGED <<claims, buffer, stranded, failed, pc, task>>
      BY <2>0, <2>2, TasksDiffer DEF Upload, Enqueue, outcome, workerVars
    <3>5. \A v \in Workers, d \in Docs : /\ Backing(v, d) => Backing(v, d)'
                                         /\ OnRoad(v, d) => OnRoad(v, d)'
      BY <3>1 DEF Backing, OnRoad, Doc
    <3>6. \A t \in Tasks : tasks[t] > 0 => tasks'[t] > 0
      <4>1. \A t \in Tasks : tasks[t] \in Nat /\ tasks'[t] \in Nat
        BY DEF TypeOK
      <4>2. QED
        BY <3>1, <4>1
    <3>7. /\ \A d \in Docs : Queued(d) => Queued(d)'
          /\ \A v \in Uploads : tasks[Classify(v)] > 0 => tasks'[Classify(v)] > 0
      BY <3>6, TasksDiffer DEF Queued
    <3>2. \A d \in Docs : (Backed(d) => Backed(d)') /\ (Traced(d) => Traced(d)')
      BY <3>1, <3>5, <3>7 DEF Backed, Traced
    <3>3. Traced(Content[u])'
      BY <3>1 DEF Traced
    <3>4. QED
      BY <2>0, <3>1, <3>2, <3>3 DEF StrandInv, ClaimsBacked, UploadsTraced
  <2>3. ASSUME NEW w \in Workers, NEW t \in Tasks, Take(w, t) PROVE StrandInv'
    <3>1. /\ pc[w] = "idle" /\ tasks[t] > 0 /\ tasks' = [tasks EXCEPT ![t] = @ - 1]
          /\ pc'[w] = FirstPlace(t) /\ task'[w] = t
          /\ \A v \in Workers \ {w} : pc'[v] = pc[v] /\ task'[v] = task[v]
          /\ UNCHANGED <<claims, uploaded, buffer, stranded, failed>>
      BY <2>0, <2>3 DEF Take, At, objects, outcome
    <3>2. \A v \in Workers, d \in Docs : /\ Backing(v, d) => Backing(v, d)'
                                         /\ OnRoad(v, d) => OnRoad(v, d)'
      BY <3>1 DEF Backing, OnRoad, RoadPlaces, BackingPlaces, ClaimedPlaces, ClassifyPlaces,
                  ResolvePlaces, Doc
    <3>3. \A s \in Tasks : s # t => tasks'[s] = tasks[s]
      BY <2>0, <3>1
    <3>4. \A d \in Docs : t \in {Extract(d), Resolve(d)} => Backing(w, d)' /\ OnRoad(w, d)'
      <4>1. \A d \in Docs : t \in {Extract(d), Resolve(d)} =>
                FirstPlace(t) \in {"lookup", "resolve"}
        BY DEF FirstPlace, Extract, Resolve
      <4>2. QED
        BY <3>1, <4>1, TasksDiffer DEF Backing, OnRoad, RoadPlaces, BackingPlaces,
                                       ResolvePlaces, Doc
    <3>5. \A u \in Uploads : t = Classify(u) => OnRoad(w, Content[u])'
      <4>1. \A u \in Uploads : t = Classify(u) => FirstPlace(t) = "claim"
        BY DEF FirstPlace, Classify
      <4>2. QED
        BY <3>1, <4>1, TasksDiffer DEF OnRoad, RoadPlaces, Doc
    <3>6. \A d \in Docs : Queued(d) => Queued(d)' \/ (Backing(w, d)' /\ OnRoad(w, d)')
      BY <3>3, <3>4, TasksDiffer DEF Queued
    <3>7. \A d \in Docs : Backed(d) => Backed(d)'
      BY <3>1, <3>2, <3>6 DEF Backed
    <3>8. \A d \in Docs : Traced(d) => Traced(d)'
      <4> SUFFICES ASSUME NEW d \in Docs, Traced(d) PROVE Traced(d)'
        OBVIOUS
      <4>1. CASE \E u \in Uploads : Content[u] = d /\ tasks[Classify(u)] > 0
        <5>1. PICK u \in Uploads : Content[u] = d /\ tasks[Classify(u)] > 0
          BY <4>1
        <5>2. CASE t = Classify(u)
          BY <3>5, <5>1, <5>2 DEF Traced
        <5>3. CASE t # Classify(u)
          BY <3>3, <5>1, <5>3, TasksDiffer DEF Traced
        <5>4. QED
          BY <5>2, <5>3
      <4>2. QED
        BY <3>1, <3>2, <3>6, <4>1 DEF Traced
    <3>9. QED
      BY <2>0, <3>1, <3>7, <3>8 DEF StrandInv, ClaimsBacked, UploadsTraced
  <2>4. ASSUME NEW w \in Workers, WorkerLost(w), NEW e, e = Doc(w) PROVE StrandInv'
    <3>1. /\ pc[w] # "idle" /\ tasks' = [tasks EXCEPT ![task[w]] = @ + 1]
          /\ \A v \in Workers \ {w} : pc'[v] = pc[v] /\ task'[v] = task[v]
          /\ stranded \subseteq stranded' /\ (pc[w] \in ClaimedPlaces => e \in stranded')
          /\ UNCHANGED <<claims, uploaded, buffer, failed>>
      BY <2>0, <2>4 DEF WorkerLost, At, Enqueue, Done, objects
    <3>2. /\ task[w] \in Tasks /\ e \in Docs
          /\ \A t \in Tasks : tasks'[t] >= tasks[t]
          /\ tasks'[task[w]] > 0
      BY <2>0, <2>4, <3>1, WorkersHold
    <3>3. /\ pc[w] \in ExtractPlaces \cup ResolvePlaces => task[w] \in {Extract(e), Resolve(e)}
          /\ pc[w] = "claim" => \E u \in Uploads : task[w] = Classify(u) /\ Content[u] = e
      BY <2>4, TasksDiffer DEF TypeOK, TaskFits, Doc, ClassifyPlaces
    <3>4. pc[w] \in RoadPlaces =>
              pc[w] \in ClaimedPlaces \cup {"claim"} \cup ExtractPlaces \cup ResolvePlaces
      BY DEF RoadPlaces, BackingPlaces, ExtractPlaces, LockedPlaces
    <3>5. pc[w] \in RoadPlaces => \/ e \in stranded' \/ Queued(e)'
                                  \/ \E u \in Uploads : Content[u] = e /\ tasks'[Classify(u)] > 0
      BY <3>1, <3>2, <3>3, <3>4 DEF Queued
    <3>6. pc[w] \in BackingPlaces => e \in stranded' \/ Queued(e)'
      <4>1. pc[w] \in BackingPlaces =>
                pc[w] \in ClaimedPlaces \cup ExtractPlaces \cup ResolvePlaces
        BY DEF BackingPlaces, ExtractPlaces, LockedPlaces
      <4>2. QED
        BY <3>1, <3>2, <3>3, <4>1 DEF Queued
    <3>7. \A v \in Workers \ {w}, d \in Docs : /\ Backing(v, d) => Backing(v, d)'
                                               /\ OnRoad(v, d) => OnRoad(v, d)'
      BY <3>1 DEF Backing, OnRoad, Doc
    <3>8. /\ \A d \in Docs : Queued(d) => Queued(d)'
          /\ \A u \in Uploads : tasks[Classify(u)] > 0 => tasks'[Classify(u)] > 0
      <4>1. \A t \in Tasks : tasks[t] \in Nat /\ tasks'[t] \in Nat
        BY DEF TypeOK
      <4>2. \A t \in Tasks : tasks[t] > 0 => tasks'[t] > 0
        BY <3>2, <4>1
      <4>3. QED
        BY <4>2, TasksDiffer DEF Queued
    <3>9. \A d \in Docs : Backed(d) => Backed(d)'
      BY <2>4, <3>1, <3>6, <3>7, <3>8 DEF Backed, Backing
    <3>10. \A d \in Docs : Traced(d) => Traced(d)'
      BY <2>4, <3>1, <3>5, <3>7, <3>8 DEF Traced, OnRoad
    <3>11. QED
      BY <2>0, <3>1, <3>9, <3>10 DEF StrandInv, ClaimsBacked, UploadsTraced
  <2>5. ASSUME NEW w \in Workers, Step(w), NEW e, e = Doc(w) PROVE StrandInv'
    <3>1. Frame(w) /\ e \in Docs /\ pc[w] # "idle"
      BY <2>5, StepFrame, StepsBusy, WorkersHold
    <3>2. \A v \in Workers \ {w}, d \in Docs : /\ Backing(v, d) => Backing(v, d)'
                                               /\ OnRoad(v, d) => OnRoad(v, d)'
      BY <3>1 DEF Backing, OnRoad, Doc, Frame
    <3>3. \A d \in Docs : /\ Queued(d) => Queued(d)'
                          /\ buffer[d] > 0 => buffer'[d] > 0
                          /\ d \in stranded => d \in stranded'
                          /\ d \in failed => d \in failed'
                          /\ d \in claims' => d \in claims \/ d = e
      BY <2>5, OnlyMore
    <3>4. \A d \in claims' : Backed(d)'
      <4> SUFFICES ASSUME NEW d \in Docs, d \in claims' PROVE Backed(d)'
        BY DEF TypeOK
      <4>1. CASE \E v \in Workers \ {w} : Backing(v, d)
        BY <3>2, <4>1 DEF Backed
      <4>2. CASE d = e /\ (Backing(w, d) \/ d \notin claims)
        <5>1. \/ Queued(d)' \/ buffer'[d] > 0 \/ d \in stranded'
              \/ pc'[w] \in BackingPlaces /\ task'[w] = task[w]
              \/ \E v \in Workers \ {w} : Backing(v, d)
          BY <2>5, <4>2, StepBacks
        <5>2. pc'[w] \in BackingPlaces /\ task'[w] = task[w] => Backing(w, d)'
          BY <2>5, <4>2 DEF Backing, Doc
        <5>3. QED
          BY <3>2, <5>1, <5>2 DEF Backed
      <4>3. CASE d \in claims /\ ~ \E v \in Workers : Backing(v, d)
        BY <3>3, <4>3 DEF StrandInv, ClaimsBacked, Backed
      <4>4. Backing(w, d) => d = e
        BY <2>5 DEF Backing
      <4>5. QED
        BY <3>3, <4>1, <4>2, <4>3, <4>4
    <3>5. \A d \in Docs : Traced(d) => Traced(d)'
      <4> SUFFICES ASSUME NEW d \in Docs, Traced(d) PROVE Traced(d)'
        OBVIOUS
      <4>1. CASE \E v \in Workers \ {w} : OnRoad(v, d)
        BY <3>2, <4>1 DEF Traced
      <4>2. CASE OnRoad(w, d)
        <5>1. d = e
          BY <2>5, <4>2 DEF OnRoad
        <5>2. \/ Queued(d)' \/ buffer'[d] > 0 \/ d \in stranded' \/ d \in failed'
              \/ pc'[w] \in RoadPlaces /\ task'[w] = task[w]
              \/ \E v \in Workers \ {w} : OnRoad(v, d)
          BY <2>5, <4>2, <5>1, StepTraces DEF StrandInv
        <5>3. pc'[w] \in RoadPlaces /\ task'[w] = task[w] => OnRoad(w, d)'
          BY <2>5, <5>1 DEF OnRoad, Doc
        <5>4. QED
          BY <3>2, <5>2, <5>3 DEF Traced
      <4>3. CASE ~ \E v \in Workers : OnRoad(v, d)
        BY <3>1, <3>3, <4>3 DEF Traced, Frame
      <4>4. QED
        BY <4>1, <4>2, <4>3
    <3>6. QED
      BY <2>0, <3>1, <3>4, <3>5 DEF StrandInv, ClaimsBacked, UploadsTraced, Frame
  <2>6. QED
    BY <2>1, <2>2, <2>3, <2>4, <2>5 DEF Next, vars, LockExpires, CacheExpires, objects, outcome,
                                        workerVars
<1>3. QED
  BY <1>1, <1>2, LockInvariant, TypeCorrect, PTL DEF Spec

\* No document is lost without a trace, whatever workers are lost, calls fail and
\* locks run out: an open claim has its document under way or in the write buffer, and
\* a content that nobody works on any more is there or has raised an alert, unless a
\* task of it was cut short where no handler of the code gives the claim back.
THEOREM NothingIsStranded == Spec => []NothingStranded
<1>1. StrandInv /\ TypeOK => NothingStranded
  <2> SUFFICES ASSUME StrandInv, TypeOK PROVE NothingStranded
    OBVIOUS
  <2>1. \A w \in Workers, d \in Docs : Backing(w, d) => Carrying(w)
    BY DEF Backing, BackingPlaces, ClaimedPlaces, ClassifyPlaces, ResolvePlaces, Carrying
  <2>2. ClaimBacked
    BY <2>1 DEF StrandInv, ClaimsBacked, Backed, ClaimBacked, Carried, Backing, TypeOK
  <2>3. \A w \in Workers, d \in Docs : OnRoad(w, d) => pc[w] # "idle" /\ Doc(w) = d
    BY DEF OnRoad, RoadPlaces, BackingPlaces, ClaimedPlaces, ClassifyPlaces, ResolvePlaces
  <2>4. NothingVanishes
    <3> SUFFICES ASSUME NEW u \in uploaded, Quiet(Content[u])
                 PROVE  \/ buffer[Content[u]] > 0 \/ Content[u] \in failed
                        \/ Content[u] \in stranded
      BY DEF NothingVanishes
    <3>1. Traced(Content[u]) /\ Content[u] \in Docs
      BY PipelineAssumption DEF StrandInv, UploadsTraced, TypeOK
    <3>2. \A v \in Uploads : Content[v] = Content[u] => ~(tasks[Classify(v)] > 0)
      BY TasksDiffer DEF Quiet, TypeOK
    <3>3. QED
      BY <2>3, <3>1, <3>2 DEF Traced, Quiet
  <2>5. QED
    BY <2>2, <2>4 DEF NothingStranded
<1>2. QED
  BY <1>1, StrandInvariant, TypeCorrect, PTL

-----------------------------------------------------------------------------
(***************************************************************************)
(* The ledger.  A document past the gate is in one pair of hands: it is    *)
(* one message of the extraction or the resolution queue, or it is with    *)
(* one worker who may still send it on, push it or give its claim back.    *)
(* While it is, its claim stands and nothing of it is in the buffer.  Two  *)
(* things break this: a worker that is lost after its send, whose message  *)
(* is delivered again, and a send that raises though the broker took the   *)
(* message, whose document the task sends again.                           *)
(***************************************************************************)
InHand(w, d) == /\ pc[w] \in ClaimedPlaces \cup (ExtractPlaces \ {"unlockFailed"})
                                \cup ResolvePlaces
                /\ Doc(w) = d

Queue(d) == tasks[Extract(d)] + tasks[Resolve(d)]

OnePlace(d) ==
    /\ Queue(d) <= 1
    /\ Queue(d) = 1 => \A w \in Workers : ~InHand(w, d)
    /\ \A v, w \in Workers : InHand(v, d) /\ InHand(w, d) => v = w

InLedger(d) ==
    /\ (Queue(d) = 1 \/ \E w \in Workers : InHand(w, d)) => d \in claims /\ buffer[d] = 0
    /\ buffer[d] <= 1
    /\ buffer[d] = 1 => d \in claims

Entered(d) == OnePlace(d) /\ InLedger(d)

EnteredInv == \A d \in Docs : Entered(d)

\* What a step of a worker does to a document: nothing that counts, or it sends it
\* on, or is done with it, or gives its claim back, or takes a claim for it.
Stays(w, d) ==
    /\ d \in claims' <=> d \in claims
    /\ buffer'[d] = buffer[d] /\ Queue(d)' = Queue(d)
    /\ InHand(w, d)' => InHand(w, d)
SentOn(w, d) ==
    /\ InHand(w, d) /\ ~InHand(w, d)'
    /\ d \in claims' <=> d \in claims
    /\ buffer'[d] = buffer[d] /\ Queue(d)' = Queue(d) + 1
GivenUp(w, d) ==
    /\ InHand(w, d) /\ ~InHand(w, d)' /\ Queue(d)' = Queue(d)
    /\ \/ buffer'[d] \in {buffer[d], buffer[d] + 1} /\ (d \in claims' <=> d \in claims)
       \/ buffer'[d] = buffer[d] /\ d \notin claims'
LetIn(w, d) ==
    /\ d \notin claims /\ d \in claims' /\ ~InHand(w, d)
    /\ buffer'[d] = buffer[d] /\ Queue(d)' = Queue(d)

\* The messages of a document's queues are counted.
LEMMA QueueType ==
    ASSUME TypeOK, NEW d \in Docs
    PROVE  Queue(d) \in Nat /\ buffer[d] \in Nat
  BY TasksDiffer DEF Queue, TypeOK

\* Each of these keeps a document in one place.
LEMMA MoveKeepsEntered ==
    ASSUME TypeOK, TypeOK', NEW w \in Workers, NEW d \in Docs, Entered(d),
           \A v \in Workers \ {w} : InHand(v, d)' <=> InHand(v, d),
           Stays(w, d) \/ SentOn(w, d) \/ GivenUp(w, d) \/ LetIn(w, d)
    PROVE  Entered(d)'
<1>0. Queue(d) \in Nat /\ buffer[d] \in Nat /\ Queue(d)' \in Nat /\ buffer'[d] \in Nat
  <2>1. Queue(d)' \in Nat /\ buffer'[d] \in Nat
    BY TasksDiffer DEF Queue, TypeOK
  <2>2. QED
    BY <2>1, QueueType
<1> USE <1>0 DEF Entered, OnePlace, InLedger
<1>1. CASE Stays(w, d)
  BY <1>1 DEF Stays
<1>2. CASE SentOn(w, d)
  BY <1>2 DEF SentOn
<1>3. CASE GivenUp(w, d)
  BY <1>3 DEF GivenUp
<1>4. CASE LetIn(w, d)
  BY <1>4 DEF LetIn
<1>5. QED
  BY <1>1, <1>2, <1>3, <1>4

\* A free worker reserves the one message of a document.
LEMMA TakeKeepsEntered ==
    ASSUME TypeOK, TypeOK', NEW w \in Workers, NEW d \in Docs, NEW t \in {Extract(d), Resolve(d)},
           Entered(d), Take(w, t)
    PROVE  Entered(d)'
<1>0. Queue(d) \in Nat /\ buffer[d] \in Nat
  BY QueueType
<1>1. /\ claims' = claims /\ buffer' = buffer /\ Queue(d)' = Queue(d) - 1 /\ Queue(d) > 0
  BY TasksDiffer DEF Take, Queue, TypeOK
<1>2. \A v \in Workers \ {w} : InHand(v, d)' <=> InHand(v, d)
  BY DEF Take, TypeOK, InHand, Doc
<1>3. QED
  BY <1>0, <1>1, <1>2 DEF Entered, OnePlace, InLedger

\* A worker's step, with no send that raises after the broker took the message.
LEMMA StepMoves ==
    ASSUME TypeOK, "confirm" \notin FaultyCalls, NEW w \in Workers, Step(w),
           NEW d \in Docs, d = Doc(w)
    PROVE  Stays(w, d) \/ SentOn(w, d) \/ GivenUp(w, d) \/ LetIn(w, d)
<1>0. pc \in [Workers -> Places] /\ task \in [Workers -> Tasks \cup {NoTask}]
  BY DEF TypeOK
<1> USE <1>0 DEF At, Goto, Fail, Done, Abandon, Stays
<1> DEFINE Hand == ClaimedPlaces \cup (ExtractPlaces \ {"unlockFailed"}) \cup ResolvePlaces
<1>1. CASE Claim(w) \/ DropDuplicate(w) \/ Ack(w)
  <2>1. pc[w] \in {"claim", "drop", "ack"} /\ pc[w] \notin Hand
    BY <1>1 DEF Claim, DropDuplicate, Ack, ClaimedPlaces, ClassifyPlaces, ExtractPlaces,
                LockedPlaces, ResolvePlaces
  <2>2. ~InHand(w, d)
    BY <2>1 DEF InHand
  <2>3. /\ UNCHANGED <<tasks, buffer>>
        /\ \/ claims' = claims /\ pc'[w] \in {"drop", "ack", "idle"}
           \/ d \notin claims /\ d \in claims'
    BY <1>1 DEF Claim, DropDuplicate, Ack
  <2>4. pc'[w] \in {"drop", "ack", "idle"} => ~InHand(w, d)'
    BY DEF InHand, ClaimedPlaces, ClassifyPlaces, ExtractPlaces, LockedPlaces, ResolvePlaces
  <2>5. QED
    BY <2>2, <2>3, <2>4 DEF LetIn, Queue
<1>2. CASE Archive(w) \/ Unstage(w) \/ ClassifyKind(w) \/ RunLane(w) \/ StoreExtraction(w)
           \/ ResolveSubgraph(w) \/ Lookup(w)
  <2>1. /\ pc[w] \in {"archive", "unstage", "kind", "lane", "store", "resolve", "lookup"}
        /\ UNCHANGED <<tasks, buffer, claims>>
    BY <1>2 DEF Archive, Unstage, ClassifyKind, RunLane, StoreExtraction, ResolveSubgraph, Lookup
  <2>2. InHand(w, d)
    BY <2>1 DEF InHand, ClaimedPlaces, ClassifyPlaces, ExtractPlaces, LockedPlaces, ResolvePlaces
  <2>3. QED
    BY <2>1, <2>2 DEF Queue
<1>3. CASE AcquireLock(w) \/ Recheck(w)
  <2>1. /\ pc[w] \in {"lock", "recheck"} /\ UNCHANGED <<tasks, buffer, claims>>
    BY <1>3 DEF AcquireLock, Recheck
  <2>2. InHand(w, d)
    BY <2>1 DEF InHand, ExtractPlaces
  <2>3. QED
    BY <2>1, <2>2 DEF Queue
<1>4. CASE ReleaseLock(w)
  <2>1. /\ pc[w] \in {"unlock", "unlockFailed"} /\ UNCHANGED <<tasks, buffer, claims>>
        /\ pc[w] = "unlockFailed" => pc'[w] = "idle"
    BY <1>4 DEF ReleaseLock
  <2>2. pc[w] = "unlock" => InHand(w, d)
    BY DEF InHand, ExtractPlaces, LockedPlaces
  <2>3. pc'[w] = "idle" => ~InHand(w, d)'
    BY DEF InHand, ClaimedPlaces, ClassifyPlaces, ExtractPlaces, LockedPlaces, ResolvePlaces
  <2>4. QED
    BY <2>1, <2>2, <2>3 DEF Queue
<1>5. CASE SendExtract(w) \/ SendCached(w) \/ SendResolve(w)
  <2>1. /\ pc[w] \in {"sendExtract", "sendCached", "sendRechecked", "sendResolve"}
        /\ UNCHANGED <<buffer, claims>>
        /\ \/ /\ pc'[w] = "ack"
              /\ \/ tasks' = [tasks EXCEPT ![Extract(d)] = @ + 1]
                 \/ tasks' = [tasks EXCEPT ![Resolve(d)] = @ + 1]
           \/ tasks' = tasks
    BY <1>5 DEF SendExtract, SendCached, SendResolve, SendRaises, Fault, CanFail, Enqueue
  <2>2. InHand(w, d)
    BY <2>1 DEF InHand, ClaimedPlaces, ClassifyPlaces, ExtractPlaces
  <2>3. pc'[w] = "ack" => ~InHand(w, d)'
    BY DEF InHand, ClaimedPlaces, ClassifyPlaces, ExtractPlaces, LockedPlaces, ResolvePlaces
  <2>4. CASE tasks' = [tasks EXCEPT ![Extract(d)] = @ + 1]
             \/ tasks' = [tasks EXCEPT ![Resolve(d)] = @ + 1]
    <3>1. Queue(d)' = Queue(d) + 1
      BY <2>4, TasksDiffer DEF Queue, TypeOK
    <3>2. tasks' # tasks
      BY <2>4, TasksDiffer DEF TypeOK
    <3>3. QED
      BY <2>1, <2>2, <2>3, <3>1, <3>2 DEF SentOn
  <2>5. CASE tasks' = tasks
    BY <2>1, <2>2, <2>5 DEF Queue
  <2>6. QED
    BY <2>1, <2>4, <2>5
<1>6. CASE QueueSubgraph(w)
  <2>1. /\ pc[w] = "push" /\ pc'[w] \in {"ack", "idle"} /\ UNCHANGED <<tasks, claims>>
        /\ buffer'[d] \in {buffer[d], buffer[d] + 1}
    BY <1>6 DEF QueueSubgraph, TypeOK
  <2>2. InHand(w, d)
    BY <2>1 DEF InHand, ResolvePlaces
  <2>3. ~InHand(w, d)'
    BY <2>1 DEF InHand, ClaimedPlaces, ClassifyPlaces, ExtractPlaces, LockedPlaces, ResolvePlaces
  <2>4. QED
    BY <2>1, <2>2, <2>3 DEF GivenUp, Queue
<1>7. CASE ReleaseDocument(w)
  <2>1. /\ pc[w] \in {"releaseIngest", "releaseLane", "releaseResolve"}
        /\ pc'[w] \in {"unlockFailed", "idle"} /\ UNCHANGED <<tasks, buffer>>
        /\ claims' = claims \/ d \notin claims'
    BY <1>7 DEF ReleaseDocument
  <2>2. InHand(w, d)
    BY <2>1 DEF InHand, ClaimedPlaces, ClassifyPlaces, ExtractPlaces, LockedPlaces, ResolvePlaces
  <2>3. ~InHand(w, d)'
    BY <2>1 DEF InHand, ClaimedPlaces, ClassifyPlaces, ExtractPlaces, LockedPlaces, ResolvePlaces
  <2>4. QED
    BY <2>1, <2>2, <2>3 DEF GivenUp, Queue
<1>8. QED
  BY <1>1, <1>2, <1>3, <1>4, <1>5, <1>6, <1>7 DEF Step

\* A worker's step is about its own document.
LEMMA StepIsLocal ==
    ASSUME TypeOK, NEW w \in Workers, Step(w), NEW d \in Docs, d # Doc(w)
    PROVE  /\ tasks'[Extract(d)] = tasks[Extract(d)] /\ tasks'[Resolve(d)] = tasks[Resolve(d)]
           /\ d \in claims' <=> d \in claims
           /\ buffer'[d] = buffer[d]
<1> USE DEF TypeOK
<1>1. CASE Claim(w) \/ DropDuplicate(w) \/ Archive(w) \/ Unstage(w) \/ ClassifyKind(w)
  BY <1>1 DEF Claim, DropDuplicate, Archive, Unstage, ClassifyKind
<1>2. CASE Lookup(w) \/ AcquireLock(w) \/ Recheck(w) \/ RunLane(w) \/ StoreExtraction(w)
           \/ ReleaseLock(w)
  BY <1>2 DEF Lookup, AcquireLock, Recheck, RunLane, StoreExtraction, ReleaseLock
<1>3. CASE SendExtract(w) \/ SendCached(w) \/ SendResolve(w)
  <2>1. Doc(w) \in Docs
    BY <1>3, StepsBusy, WorkersHold
  <2>2. /\ UNCHANGED <<claims, buffer>>
        /\ \/ tasks' = tasks
           \/ tasks' = [tasks EXCEPT ![Extract(Doc(w))] = @ + 1]
           \/ tasks' = [tasks EXCEPT ![Resolve(Doc(w))] = @ + 1]
    BY <1>3 DEF SendExtract, SendCached, SendResolve, SendRaises, Enqueue
  <2>3. QED
    BY <2>1, <2>2, TasksDiffer
<1>4. CASE ResolveSubgraph(w) \/ QueueSubgraph(w) \/ ReleaseDocument(w) \/ Ack(w)
  BY <1>4 DEF ResolveSubgraph, QueueSubgraph, ReleaseDocument, Ack
<1>5. QED
  BY <1>1, <1>2, <1>3, <1>4 DEF Step

\* What the two things above are ruled out by.  Every other call may still raise,
\* on Redis also after it was carried out, and locks may run out under their holders.
OnceEach == MaxCrashes = 0 /\ "confirm" \notin FaultyCalls

\* Every step keeps every document in one place.
LEMMA EnteredInvariant ==
    ASSUME OnceEach
    PROVE  Spec => []EnteredInv
<1>1. Init => EnteredInv
  <2> SUFFICES ASSUME Init, NEW d \in Docs PROVE Entered(d)
    BY DEF EnteredInv
  <2>1. \A w \in Workers : ~InHand(w, d)
    BY DEF Init, InHand, ClaimedPlaces, ClassifyPlaces, ExtractPlaces, LockedPlaces,
           ResolvePlaces
  <2>2. Queue(d) = 0
    BY TasksDiffer DEF Init, Queue
  <2>3. QED
    BY <2>1, <2>2 DEF Init, Entered, OnePlace, InLedger
<1>2. EnteredInv /\ TypeOK /\ TypeOK' /\ [Next]_vars => EnteredInv'
  <2> SUFFICES ASSUME EnteredInv, TypeOK, TypeOK', [Next]_vars, NEW d \in Docs
               PROVE  Entered(d)'
    BY DEF EnteredInv
  <2>0. Entered(d) /\ pc \in [Workers -> Places] /\ task \in [Workers -> Tasks \cup {NoTask}]
    BY DEF EnteredInv, TypeOK
  <2>1. ASSUME UNCHANGED <<claims, buffer, pc, task>>,
               tasks'[Extract(d)] = tasks[Extract(d)], tasks'[Resolve(d)] = tasks[Resolve(d)]
        PROVE  Entered(d)'
    BY <2>0, <2>1 DEF Entered, OnePlace, InLedger, Queue, InHand, Doc
  <2>2. ASSUME NEW u \in Uploads, Upload(u) PROVE Entered(d)'
    <3>1. tasks'[Extract(d)] = tasks[Extract(d)] /\ tasks'[Resolve(d)] = tasks[Resolve(d)]
      BY <2>2, TasksDiffer DEF Upload, Enqueue, TypeOK
    <3>2. QED
      BY <2>1, <2>2, <3>1 DEF Upload, workerVars
  <2>3. ASSUME NEW w \in Workers, NEW t \in Tasks, Take(w, t) PROVE Entered(d)'
    <3>1. CASE t \in {Extract(d), Resolve(d)}
      BY <2>0, <2>3, <3>1, TakeKeepsEntered
    <3>2. CASE t \notin {Extract(d), Resolve(d)}
      <4>1. /\ pc[w] = "idle" /\ tasks' = [tasks EXCEPT ![t] = @ - 1]
            /\ pc'[w] = FirstPlace(t) /\ task'[w] = t /\ UNCHANGED <<claims, buffer>>
            /\ \A v \in Workers \ {w} : pc'[v] = pc[v] /\ task'[v] = task[v]
        BY <2>0, <2>3 DEF Take, At
      <4>2. \/ FirstPlace(t) = "claim"
            \/ FirstPlace(t) \in {"lookup", "resolve"} /\ DocOf(t) # d
        BY <3>2 DEF FirstPlace, Tasks, DocOf, Classify, Extract, Resolve
      <4>3. ~InHand(w, d)'
        BY <4>1, <4>2 DEF InHand, Doc, ClaimedPlaces, ClassifyPlaces, ExtractPlaces,
                          LockedPlaces, ResolvePlaces
      <4>4. \A v \in Workers \ {w} : InHand(v, d)' <=> InHand(v, d)
        BY <4>1 DEF InHand, Doc
      <4>5. Queue(d)' = Queue(d)
        BY <3>2, <4>1, TasksDiffer DEF Queue, TypeOK
      <4>6. QED
        BY <2>0, <4>1, <4>3, <4>4, <4>5, MoveKeepsEntered DEF Stays
    <3>3. QED
      BY <3>1, <3>2
  <2>4. ASSUME NEW w \in Workers, WorkerLost(w) PROVE Entered(d)'
    BY <2>4 DEF WorkerLost, TypeOK, OnceEach
  <2>5. ASSUME NEW c \in Docs, LockExpires(c) \/ CacheExpires(c) PROVE Entered(d)'
    BY <2>1, <2>5 DEF LockExpires, CacheExpires, workerVars
  <2>6. ASSUME NEW w \in Workers, Step(w) PROVE Entered(d)'
    <3>1. /\ pc[w] # "idle" /\ \A v \in Workers \ {w} : pc'[v] = pc[v] /\ task'[v] = task[v]
      BY <2>6, StepFrame, StepsBusy DEF Frame
    <3>2. \A v \in Workers \ {w} : InHand(v, d)' <=> InHand(v, d)
      BY <3>1 DEF InHand, Doc
    <3>3. CASE d = Doc(w)
      BY <2>0, <2>6, <3>2, <3>3, StepMoves, MoveKeepsEntered DEF OnceEach
    <3>4. CASE d # Doc(w)
      <4>1. pc'[w] = "idle" \/ task'[w] = task[w]
        <5>1. pc'[w] # "idle" => task'[w] # NoTask
          BY <2>6, TasksDiffer DEF TypeOK, TaskFits, Places, Tasks
        <5>2. QED
          BY <2>6, <5>1, StepFrame DEF Frame
      <4>2. ~InHand(w, d)'
        BY <3>4, <4>1 DEF InHand, Doc, ClaimedPlaces, ClassifyPlaces, ExtractPlaces,
                          LockedPlaces, ResolvePlaces
      <4>3. Stays(w, d)
        BY <2>6, <3>4, <4>2, StepIsLocal DEF Stays, Queue
      <4>4. QED
        BY <2>0, <2>6, <3>2, <4>3, MoveKeepsEntered
    <3>5. QED
      BY <3>3, <3>4
  <2>7. QED
    BY <2>1, <2>2, <2>3, <2>4, <2>5, <2>6 DEF Next, vars, workerVars
<1>3. QED
  BY <1>1, <1>2, TypeCorrect, PTL DEF Spec

\* While no worker is lost and no send is carried out that raised, the handlers
\* together do what DocumentLedger says, whatever else raises and whatever locks run
\* out: each content is let in, and handed to the graph writer once or given back.
THEOREM PipelineKeepsTheLedger ==
    ASSUME OnceEach
    PROVE  Spec => LedgerSpec
<1>1. Init => Ledger!Init
  BY DEF Init, Ledger!Init
<1>2. EnteredInv /\ TypeOK /\ [Next]_vars => [Ledger!Next]_Ledger!ledgerVars
  <2> SUFFICES ASSUME EnteredInv, TypeOK, [Next]_vars
               PROVE  Ledger!Next \/ UNCHANGED <<claims, buffer>>
    BY DEF Ledger!ledgerVars
  <2>1. CASE UNCHANGED vars
    BY <2>1 DEF vars
  <2>2. CASE \E u \in Uploads : Upload(u)
    BY <2>2 DEF Upload
  <2>3. CASE \E w \in Workers, t \in Tasks : Take(w, t)
    BY <2>3 DEF Take
  <2>4. CASE \E w \in Workers : WorkerLost(w)
    BY <2>4 DEF WorkerLost
  <2>5. CASE \E d \in Docs : LockExpires(d) \/ CacheExpires(d)
    BY <2>5 DEF LockExpires, CacheExpires
  <2>6. ASSUME NEW w \in Workers, Step(w), NEW d, d = Doc(w)
        PROVE  Ledger!Next \/ UNCHANGED <<claims, buffer>>
    <3>0. d \in Docs /\ buffer \in [Docs -> Nat] /\ Entered(d)
      BY <2>6, StepsBusy, WorkersHold DEF EnteredInv, TypeOK
    <3>1. CASE Claim(w)
      <4>1. d \notin claims => buffer[d] = 0
        BY <3>0 DEF Entered, InLedger
      <4>2. \/ claims' = claims /\ buffer' = buffer
            \/ d \notin claims /\ claims' = claims \cup {d} /\ buffer' = buffer
        BY <2>6, <3>1 DEF Claim
      <4>3. QED
        BY <3>0, <4>1, <4>2 DEF Ledger!Next, Ledger!Accept
    <3>2. CASE QueueSubgraph(w) \/ ReleaseDocument(w)
      <4>1. pc[w] \in {"push", "releaseIngest", "releaseLane", "releaseResolve"}
        BY <3>2 DEF QueueSubgraph, ReleaseDocument, At
      <4>2. InHand(w, d)
        BY <2>6, <4>1 DEF InHand, ClaimedPlaces, ClassifyPlaces, ExtractPlaces, LockedPlaces,
                          ResolvePlaces
      <4>3. d \in claims /\ buffer[d] = 0
        BY <3>0, <4>2 DEF Entered, InLedger
      <4>4. \/ buffer' = buffer /\ claims' = claims
            \/ buffer' = [buffer EXCEPT ![d] = @ + 1] /\ claims' = claims
            \/ buffer' = buffer /\ claims' = claims \ {d}
        BY <2>6, <3>2 DEF QueueSubgraph, ReleaseDocument
      <4>5. buffer' = [buffer EXCEPT ![d] = @ + 1] => buffer' = [buffer EXCEPT ![d] = 1]
        BY <3>0, <4>3
      <4>6. QED
        BY <3>0, <4>3, <4>4, <4>5 DEF Ledger!Next, Ledger!Deliver, Ledger!GiveBack
    <3>3. CASE DropDuplicate(w) \/ Archive(w) \/ Unstage(w) \/ ClassifyKind(w)
               \/ SendExtract(w) \/ Lookup(w) \/ SendCached(w) \/ AcquireLock(w)
      BY <3>3 DEF DropDuplicate, Archive, Unstage, ClassifyKind, SendExtract, Lookup,
                  SendCached, AcquireLock
    <3>4. CASE Recheck(w) \/ RunLane(w) \/ StoreExtraction(w) \/ ReleaseLock(w)
               \/ SendResolve(w) \/ ResolveSubgraph(w) \/ Ack(w)
      BY <3>4 DEF Recheck, RunLane, StoreExtraction, ReleaseLock, SendResolve,
                  ResolveSubgraph, Ack
    <3>5. QED
      BY <2>6, <3>1, <3>2, <3>3, <3>4 DEF Step
  <2>7. QED
    BY <2>1, <2>2, <2>3, <2>4, <2>5, <2>6 DEF Next
<1>3. QED
  BY <1>1, <1>2, EnteredInvariant, TypeCorrect, PTL DEF Spec, LedgerSpec, Ledger!Spec

=============================================================================
