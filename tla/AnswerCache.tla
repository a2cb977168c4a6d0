----------------------------- MODULE AnswerCache -----------------------------
(***************************************************************************)
(* The semantic answer cache, and the processes that meet in it: retrieval *)
(* processes look answers up and put the ones they compute; the agents     *)
(* runtime, one process, drops what a graph delta has outdated and puts    *)
(* answers of its own; the graph writer commits and announces.  The cache  *)
(* is a Redis hash of entries and a sorted set of their last uses, and     *)
(* every call on either is a step of its own.                              *)
(*                                                                         *)
(* A version of the graph is the number of commits, a commit the nodes it  *)
(* touches.  Embeddings are left out: Alike says which entries a question  *)
(* may hit.  That the writer may fail to announce a commit is GraphWriter's*)
(* subject; here every commit comes with its delta, which the runtime gets *)
(* to when it gets to it.                                                  *)
(***************************************************************************)
EXTENDS Naturals, Sequences, FiniteSets, SequencesExt

CONSTANTS
    Questions,
    Nodes,
    Cites,        \* Cites[q]: the nodes the evidence for q comes from
    Equipment,    \* nodes that are equipment, the only ones the runtime cites
    Ahead,        \* the questions the runtime answers ahead
    Alike,        \* <<q, h>>: q is answered from the entry of h
    Askers,       \* requests to retrieval, each in a process or thread of its own
    Agents,       \* the agents runtime
    NoEntry, NoQuestion,
    MaxEntries,   \* answer_cache_max
    MaxCommits, MaxAsks, MaxSpeculations, MaxCrashes  \* bounds

CacheAssumption ==
    /\ Cites \in [Questions -> SUBSET Nodes] /\ Equipment \subseteq Nodes
    /\ Ahead \subseteq Questions /\ Alike \subseteq Questions \X Questions
    /\ Agents \notin Askers /\ NoQuestion \notin Questions
    /\ MaxEntries \in Nat /\ MaxCommits \in Nat /\ MaxAsks \in Nat
    /\ MaxSpeculations \in Nat /\ MaxCrashes \in Nat

Clients == Askers \cup {Agents}

VARIABLES
    graph,      \* the commits, in order
    cursor,     \* how many of their deltas the runtime has handled
    entries,    \* answercache:entries
    lru,        \* answercache:lru, the least recently used first
    pc,
    about,      \* the question a client is at, or the entry it found
    read,       \* the version of the graph it answers from
    victim,     \* the id it is about to remove
    doomed,     \* the runtime: entries still to be dropped for the delta in hand
    todo,       \* the runtime: questions still to be answered ahead
    overtaken,  \* how often an entry lost its last use to an invalidation of
                \* the one before it
    asks, speculations, crashes

cacheVars == <<entries, lru>>
hand == <<about, read, victim>>
runtime == <<cursor, doomed, todo, speculations>>
vars == <<graph, cursor, entries, lru, pc, about, read, victim, doomed, todo,
          overtaken, asks, speculations, crashes>>

Version == Len(graph)
Cached == {q \in Questions : entries[q] # NoEntry}
Goto(c, place) == pc' = [pc EXCEPT ![c] = place]

\* A request is over, or lost.
Rest(c) ==
    /\ Goto(c, "idle")
    /\ about' = [about EXCEPT ![c] = NoQuestion]
    /\ read' = [read EXCEPT ![c] = 0]
    /\ victim' = [victim EXCEPT ![c] = NoQuestion]

\* The deltas for which the runtime has looked through the cache.  An entry that a
\* request puts records them; the runtime, which sweeps itself, has no excuse.
Swept == IF pc[Agents] = "idle" THEN cursor ELSE cursor + 1

\* The node ids an answer is put under: seeds and documents, or the equipment alone.
CitedBy(c, q) == IF c = Agents THEN Cites[q] \cap Equipment ELSE Cites[q]

Unranked(q) == RemoveFirst(lru, q)

-----------------------------------------------------------------------------
(* The graph writer *)

Commit ==
    /\ Version < MaxCommits
    /\ \E touched \in SUBSET Nodes \ {{}} : graph' = Append(graph, touched)
    /\ UNCHANGED <<runtime, cacheVars, pc, hand, overtaken, asks, crashes>>

-----------------------------------------------------------------------------
(* Retrieval: RetrievalService.ask and ask_stream *)

Ask(a, q) ==
    /\ pc[a] = "idle" /\ asks < MaxAsks
    /\ asks' = asks + 1
    /\ about' = [about EXCEPT ![a] = q]
    /\ Goto(a, "look")
    /\ UNCHANGED <<graph, runtime, cacheVars, read, victim, overtaken, crashes>>

\* get: all entries at once, and the nearest of those near enough.
Look(a) ==
    /\ pc[a] = "look"
    /\ LET hits == {h \in Cached : <<about[a], h>> \in Alike}
       IN \/ /\ \E h \in hits : about' = [about EXCEPT ![a] = h]
             /\ Goto(a, "touch")
          \/ /\ hits = {}
             /\ Goto(a, "prepare")
             /\ UNCHANGED about
    /\ UNCHANGED <<graph, runtime, cacheVars, read, victim, overtaken, asks, crashes>>

\* The entry was used now, whether it is still there or not.
Touch(a) ==
    /\ pc[a] = "touch"
    /\ lru' = Append(Unranked(about[a]), about[a])
    /\ Rest(a)
    /\ UNCHANGED <<graph, runtime, entries, overtaken, asks, crashes>>

\* The graph is read; the answer takes a while, and may fail.
Prepare(a) ==
    /\ a \in Askers /\ pc[a] = "prepare"
    /\ read' = [read EXCEPT ![a] = Version]
    /\ Goto(a, "put")
    /\ UNCHANGED <<graph, runtime, cacheVars, about, victim, overtaken, asks, crashes>>

AnswerFails(a) ==
    /\ a \in Askers /\ pc[a] = "put"
    /\ Rest(a)
    /\ UNCHANGED <<graph, runtime, cacheVars, overtaken, asks, crashes>>

-----------------------------------------------------------------------------
(* AnswerCache.put and _evict, for any client *)

\* A put returns: the request is over, the runtime goes on to its next question.
Return(c) == IF c = Agents THEN Goto(c, "speculate") /\ UNCHANGED hand ELSE Rest(c)

Put(c) ==
    /\ pc[c] = "put"
    /\ entries' = [entries EXCEPT ![about[c]] =
                      [cited |-> CitedBy(c, about[c]), read |-> read[c],
                       swept |-> IF c = Agents THEN 0 ELSE Swept]]
    /\ Goto(c, "rank")
    /\ UNCHANGED <<graph, runtime, lru, hand, overtaken, asks, crashes>>

Rank(c) ==
    /\ pc[c] = "rank"
    /\ lru' = Append(Unranked(about[c]), about[c])
    /\ Goto(c, "count")
    /\ UNCHANGED <<graph, runtime, entries, hand, overtaken, asks, crashes>>

\* Mutant: the new entry is not counted.
CountBefore(c) ==
    /\ pc[c] = "count"
    /\ IF Cardinality(Cached \ {about[c]}) > MaxEntries
       THEN Goto(c, "pop") /\ UNCHANGED hand ELSE Return(c)
    /\ UNCHANGED <<graph, runtime, cacheVars, overtaken, asks, crashes>>

Count(c) ==
    /\ pc[c] = "count"
    /\ IF Cardinality(Cached) > MaxEntries
       THEN Goto(c, "pop") /\ UNCHANGED hand ELSE Return(c)
    /\ UNCHANGED <<graph, runtime, cacheVars, overtaken, asks, crashes>>

\* ZPOPMIN; with nothing ranked the eviction gives up.
Pop(c) ==
    /\ pc[c] = "pop"
    /\ IF lru = <<>>
       THEN Return(c) /\ UNCHANGED lru
       ELSE /\ victim' = [victim EXCEPT ![c] = Head(lru)]
            /\ lru' = Tail(lru)
            /\ Goto(c, "evict")
            /\ UNCHANGED <<about, read>>
    /\ UNCHANGED <<graph, runtime, entries, overtaken, asks, crashes>>

Evict(c) ==
    /\ pc[c] = "evict"
    /\ entries' = [entries EXCEPT ![victim[c]] = NoEntry]
    /\ victim' = [victim EXCEPT ![c] = NoQuestion]
    /\ Goto(c, "count")
    /\ UNCHANGED <<graph, runtime, lru, about, read, overtaken, asks, crashes>>

-----------------------------------------------------------------------------
(* The agents runtime: DeltaHandler.handle_delta *)

\* Mutant: an answer goes when all it cites was touched.
OutdatedWhole(n) == {q \in Cached : entries[q].cited # {} /\ entries[q].cited \subseteq graph[n]}

\* The entries that cite a node commit n touched.
Outdated(n) == {q \in Cached : entries[q].cited \cap graph[n] # {}}

\* Mutant: a delta is handled when the next one is there.
SweepLate ==
    /\ pc[Agents] = "idle" /\ cursor + 1 < Version
    /\ doomed' = Outdated(cursor + 1)
    /\ Goto(Agents, "drop")
    /\ UNCHANGED <<graph, cursor, todo, speculations, cacheVars, hand, overtaken, asks,
                   crashes>>

\* invalidate: all entries at once ...
Sweep ==
    /\ pc[Agents] = "idle" /\ cursor < Version
    /\ doomed' = Outdated(cursor + 1)
    /\ Goto(Agents, "drop")
    /\ UNCHANGED <<graph, cursor, todo, speculations, cacheVars, hand, overtaken, asks,
                   crashes>>

\* ... then HDEL and ZREM of one after the other, by their ids.
Drop ==
    /\ pc[Agents] = "drop"
    /\ \E q \in doomed :
           /\ entries' = [entries EXCEPT ![q] = NoEntry]
           /\ doomed' = doomed \ {q}
           /\ victim' = [victim EXCEPT ![Agents] = q]
    /\ Goto(Agents, "unrank")
    /\ UNCHANGED <<graph, cursor, todo, speculations, lru, about, read, overtaken, asks,
                   crashes>>

Unrank ==
    /\ pc[Agents] = "unrank"
    /\ lru' = Unranked(victim[Agents])
    /\ overtaken' = IF victim[Agents] \in Cached THEN overtaken + 1 ELSE overtaken
    /\ victim' = [victim EXCEPT ![Agents] = NoQuestion]
    /\ Goto(Agents, "drop")
    /\ UNCHANGED <<graph, runtime, entries, about, read, asks, crashes>>

\* The cache is swept, and what was answered ahead is put.
BetweenTriggers ==
    \/ pc[Agents] = "drop" /\ doomed = {}
    \/ pc[Agents] = "speculate" /\ todo = {}

\* The delta shows a failure: it is investigated, and questions are answered ahead.
Investigate ==
    /\ BetweenTriggers
    /\ speculations < MaxSpeculations
    /\ speculations' = speculations + 1
    /\ todo' = Ahead
    /\ read' = [read EXCEPT ![Agents] = Version]
    /\ Goto(Agents, "speculate")
    /\ UNCHANGED <<graph, cursor, doomed, cacheVars, about, victim, overtaken, asks,
                   crashes>>

Speculate ==
    /\ pc[Agents] = "speculate"
    /\ \E q \in todo : /\ about' = [about EXCEPT ![Agents] = q]
                       /\ todo' = todo \ {q}
    /\ Goto(Agents, "put")
    /\ UNCHANGED <<graph, cursor, doomed, speculations, cacheVars, read, victim,
                   overtaken, asks, crashes>>

Handled ==
    /\ BetweenTriggers
    /\ cursor' = cursor + 1
    /\ Rest(Agents)
    /\ UNCHANGED <<graph, doomed, todo, speculations, cacheVars, overtaken, asks, crashes>>

\* A process is lost, or an exception ends the request or the runtime, which starts
\* again at the delta it was handling.
Crash(c) ==
    /\ pc[c] # "idle" /\ crashes < MaxCrashes
    /\ crashes' = crashes + 1
    /\ Rest(c)
    /\ IF c = Agents THEN doomed' = {} /\ todo' = {} ELSE UNCHANGED <<doomed, todo>>
    /\ UNCHANGED <<graph, cursor, speculations, cacheVars, overtaken, asks>>

-----------------------------------------------------------------------------
Init ==
    /\ graph = <<>> /\ cursor = 0
    /\ entries = [q \in Questions |-> NoEntry] /\ lru = <<>>
    /\ pc = [c \in Clients |-> "idle"]
    /\ about = [c \in Clients |-> NoQuestion] /\ victim = about
    /\ read = [c \in Clients |-> 0]
    /\ doomed = {} /\ todo = {}
    /\ overtaken = 0 /\ asks = 0 /\ speculations = 0 /\ crashes = 0

PutStep(c) == Put(c) \/ Rank(c) \/ Count(c) \/ Pop(c) \/ Evict(c)

Runtime ==
    \/ Sweep \/ Drop \/ Unrank \/ Investigate \/ Speculate \/ Handled
    \/ PutStep(Agents)

Next ==
    \/ Commit
    \/ \E a \in Askers :
           \/ \E q \in Questions : Ask(a, q)
           \/ Look(a) \/ Touch(a) \/ Prepare(a) \/ AnswerFails(a) \/ PutStep(a)
    \/ Runtime
    \/ \E c \in Clients : Crash(c)

Spec == Init /\ [][Next]_vars

\* The runtime's tick comes round for ever.
FairSpec == Spec /\ WF_vars(Runtime)

-----------------------------------------------------------------------------
(* Properties *)

Entry == [cited : SUBSET Nodes, read : 0..MaxCommits, swept : 0..MaxCommits]
Putting == {"put", "rank", "count", "pop", "evict"}

\* Type invariant; last uses are a set.
TypeOK ==
    /\ graph \in Seq(SUBSET Nodes) /\ Version <= MaxCommits
    /\ cursor \in 0..Version
    /\ entries \in [Questions -> Entry \cup {NoEntry}]
    /\ lru \in Seq(Questions) /\ IsInjective(lru)
    /\ pc \in [Clients -> {"idle", "look", "touch", "prepare", "drop", "unrank",
                           "speculate"} \cup Putting]
    /\ about \in [Clients -> Questions \cup {NoQuestion}]
    /\ victim \in [Clients -> Questions \cup {NoQuestion}]
    /\ read \in [Clients -> 0..MaxCommits]
    /\ doomed \subseteq Questions /\ todo \subseteq Questions
    /\ overtaken \in Nat
    /\ asks \in 0..MaxAsks /\ speculations \in 0..MaxSpeculations
    /\ crashes \in 0..MaxCrashes

\* The answer to q was made before commit n and cites a node n touched.
Stale(q, n) == q \in Cached /\ n > entries[q].read /\ entries[q].cited \cap graph[n] # {}

\* A stale answer in the cache is about to be dropped, or was put by a request that
\* read the graph before the change and came to the cache after the sweep for it.
\* None is overlooked by a sweep, and the runtime itself leaves none.
StaleOnlyByRace ==
    \A q \in Questions : \A n \in 1..Version :
        Stale(q, n) => n > cursor \/ n <= entries[q].swept

\* "stale answers never survive a change to their subject": no answer outlives the
\* handling of the delta that outdates it (the docstring of AnswerCache.invalidate).
NeverStale == \A q \in Questions : \A n \in 1..cursor : ~Stale(q, n)

\* "LRU cap on cached answers": when nobody is putting an answer, there are no more
\* than the cap allows, and one for every put that was cut short between its two
\* writes by a crash, or by the ZREM of an invalidation of the entry before it.
CapKept ==
    (\A c \in Clients : pc[c] \notin Putting) =>
        Cardinality(Cached) <= MaxEntries + overtaken + crashes

\* An answer that was in the cache before the sweep for a change is dropped or
\* replaced in the end, whatever crashes.
Outlived(q) == \E n \in 1..Version : Stale(q, n) /\ n > entries[q].swept

Fades == \A q \in Questions : Outlived(q) ~> ~Outlived(q)

=============================================================================
