----------------------------- MODULE PathPruning -----------------------------
(***************************************************************************)
(* The paths a causal question is answered from: the trails between its    *)
(* seeds, or out of its only one, and the surroundings of each; scored by  *)
(* the resource that flows to their far end, and pruned one after the      *)
(* other, the strongest first.                                             *)
(*                                                                         *)
(* A confidence and a score are fractions <<num, den>>.  What the limit on *)
(* a query cuts off (100 paths) is left out, and paths of the same score   *)
(* come in any order, that in which the database returned them.            *)
(***************************************************************************)
EXTENDS Integers, Sequences, FiniteSets, SequencesExt

CONSTANTS
    Nodes, Label,     \* Label[n]: the kind of node n
    Edges,            \* the edges a graph may have: [type, src, dst, confidence]
    SeedLists,        \* the nodes a question may be about
    Types,            \* the edge types its wording admits (PathFinder._types_for)
    MaxHops,          \* pathrag_max_hops
    TopK,             \* pathrag_top_paths
    Alpha,            \* pathrag_decay_alpha
    MinConfidence,    \* MIN_CONFIDENCE_FACTOR
    Threshold         \* overlap_threshold

PruningAssumption ==
    /\ \A e \in Edges : {e.src, e.dst} \subseteq Nodes
    /\ SeedLists \subseteq Seq(Nodes)
    /\ MaxHops \in Nat \ {0} /\ TopK \in Nat \ {0}
    /\ {Alpha, MinConfidence, Threshold} \subseteq Nat \X (Nat \ {0})

EvidenceLabels == {"FailureMode", "Procedure", "RegulationClause"}
PlantLabels == {"Equipment", "Instrument"}

VARIABLES
    graph,    \* the edges there are
    seeds,
    pc,
    todo,     \* paths the pruner has still to look at
    kept      \* those it keeps, in the order of their scores

vars == <<graph, seeds, pc, todo, kept>>

-----------------------------------------------------------------------------
(* Trails: walks along edges, in either direction, none of them twice *)

Adjacent(types, n) == {e \in graph : e.type \in types /\ n \in {e.src, e.dst}}
Other(e, n) == IF e.src = n THEN e.dst ELSE e.src

Longer(walks, types) ==
    UNION {{[at |-> Other(e, w.at), steps |-> Append(w.steps, e)] :
               e \in Adjacent(types, w.at) \ ToSet(w.steps)} : w \in walks}

Trails(n, types, hops) ==
    LET walk[k \in 0..hops] ==
            IF k = 0 THEN {[at |-> n, steps |-> <<>>]} ELSE Longer(walk[k - 1], types)
    IN UNION {walk[k] : k \in 1..hops}

Between(a, b) == {w.steps : w \in {v \in Trails(a, Types, MaxHops) : v.at = b}}
Outward(a, labels, types, hops) ==
    {w.steps : w \in {v \in Trails(a, types, hops) : Label[v.at] \in labels}}

\* The plant within two hops of each of the first four seeds.
Surroundings ==
    UNION {Outward(seeds[i], PlantLabels, {"CONNECTED_TO"}, Min({2, MaxHops})) :
              i \in {j \in DOMAIN seeds : j <= 4}}

Candidates ==
    Surroundings
      \cup IF Len(seeds) = 1
           THEN Outward(seeds[1], EvidenceLabels, Types, MaxHops)
           ELSE UNION {Between(seeds[p[1]], seeds[p[2]]) :
                          p \in {q \in (DOMAIN seeds) \X (DOMAIN seeds) : q[1] < q[2]}}

-----------------------------------------------------------------------------
(* FlowPruner *)

Times(x, y) == <<x[1] * y[1], x[2] * y[2]>>
Exceeds(x, y) == x[1] * y[2] > y[1] * x[2]
Larger(x, y) == IF Exceeds(x, y) THEN x ELSE y

\* Every relation of a node counts, less the one the path comes by.
Degree(n) == Cardinality(Adjacent(Types, n))
Branching(e) == Max({Degree(e.src) - 1, 1})

Crossing(e) == Times(Times(Alpha, Larger(e.confidence, MinConfidence)), <<1, Branching(e)>>)

Score(path) == FoldLeft(LAMBDA flow, e : Times(flow, Crossing(e)), <<1, 1>>, path)

\* An edge is the same in both directions, and so are two of a type side by side.
Key(e) == <<e.type, {e.src, e.dst}>>
Keys(path) == {Key(path[i]) : i \in DOMAIN path}

\* The shared share of the smaller of the two.
Overlaps(p, q) ==
    LET shared == Cardinality(Keys(p) \cap Keys(q))
        smaller == Min({Cardinality(Keys(p)), Cardinality(Keys(q))})
    IN shared * Threshold[2] > Threshold[1] * smaller

\* Mutant: compared with the path before it.
RedundantToLast(path) == kept # <<>> /\ Overlaps(path, Last(kept))

Redundant(path) == \E i \in DOMAIN kept : Overlaps(path, kept[i])

Find ==
    /\ pc = "find"
    /\ todo' = Candidates
    /\ pc' = "prune"
    /\ UNCHANGED <<graph, seeds, kept>>

Prune ==
    /\ pc = "prune" /\ Len(kept) < TopK
    /\ \E path \in todo :
           /\ \A other \in todo : ~ Exceeds(Score(other), Score(path))
           /\ todo' = todo \ {path}
           /\ kept' = IF Redundant(path) THEN kept ELSE Append(kept, path)
    /\ UNCHANGED <<graph, seeds, pc>>

Assemble ==
    /\ pc = "prune" /\ (Len(kept) = TopK \/ todo = {})
    /\ pc' = "done"
    /\ UNCHANGED <<graph, seeds, todo, kept>>

Init ==
    /\ graph \in SUBSET Edges
    /\ seeds \in SeedLists
    /\ pc = "find" /\ todo = {} /\ kept = <<>>

Next == Find \/ Prune \/ Assemble

Spec == Init /\ [][Next]_vars

-----------------------------------------------------------------------------
(* Properties *)

Missed == Candidates \ ToSet(kept)

\* Of the paths the queries returned, what is left out is backed by something at least as
\* strong: a path that overlaps it, or as many others as an answer takes; and no two that
\* are kept say the same.  A path beyond the hundredth of a query (LIMIT 100) is never
\* seen, however strong: of it this says nothing.
StrongestKept ==
    pc = "done" =>
        /\ \A p \in Missed :
               \/ \E i \in DOMAIN kept : /\ Overlaps(p, kept[i])
                                         /\ ~ Exceeds(Score(p), Score(kept[i]))
               \/ Len(kept) = TopK /\ \A i \in DOMAIN kept : ~ Exceeds(Score(p), Score(kept[i]))
        /\ \A i, j \in DOMAIN kept : i # j => ~ Overlaps(kept[i], kept[j])

\* "questions like 'what is downstream of A and B' need each seed's process
\* neighbourhood too" (PathFinder.find): when there is room for more paths, the plant
\* two hops from a seed is on one of them.
NeighbourhoodShown ==
    pc = "done" /\ Len(kept) < TopK =>
        \A path \in Surroundings : \E i \in DOMAIN kept : Keys(path) \subseteq Keys(kept[i])

=============================================================================
