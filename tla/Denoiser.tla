------------------------------- MODULE Denoiser -------------------------------
(***************************************************************************)
(* One pass of the denoiser over the graph the writer keeps writing to:    *)
(* equipment that is really the name of a document is deleted, then, for   *)
(* each equipment as it was read when the pass began, the language model   *)
(* says which of its failure modes are one and which cause others, and     *)
(* the records of the failures are moved.                                  *)
(*                                                                         *)
(* A record is an edge HAS_FAILURE, <<equipment, mode, provenance>>; a     *)
(* failure mode is one node for all the plant (its id is its name).        *)
(***************************************************************************)
EXTENDS Naturals, FiniteSets, Sequences

CONSTANTS
    Equipment,
    DocRefs,      \* the equipment whose surface form is_doc_reference
    Modes,        \* failure modes
    Provenances,  \* prov_hash of a record
    MaxGroups,    \* bound: groups of a plan
    MaxWrites,    \* bound: records and corrections the writer flushes
    MaxFaults,    \* bound: refused queries, lost passes
    None

DenoiserAssumption ==
    /\ DocRefs \subseteq Equipment
    /\ MaxGroups \in Nat /\ MaxWrites \in Nat /\ MaxFaults \in Nat

Records == Equipment \X Modes \X Provenances
Groups == [canonical : Modes, variants : SUBSET Modes]

VARIABLES
    nodes,       \* the equipment in the graph
    edges,       \* HAS_FAILURE
    corrected,   \* the equipment on which a person's correction hangs
    superseded,  \* modes
    trail,       \* MERGED_INTO: <<variant, canonical>>
    causes,      \* CAUSES: <<cause, effect>>
    told,        \* every record written of the equipment there is
    cut,         \* merges that moved the edges and did not leave the trail
    at,          \* where the pass is
    rows,        \* equipment yet to be taken, with its modes as they were read
    groups,      \* what the plan of the equipment in hand has yet to merge
    links,       \* and to link, canonical ids already put in
    writes, faults
graph == <<nodes, edges, corrected, superseded, trail, causes, told, cut>>
vars == <<graph, at, rows, groups, links, writes, faults>>

Fault == faults < MaxFaults /\ faults' = faults + 1

-----------------------------------------------------------------------------
(* The writer, at any time *)

WriteRecord(e, m, p) ==
    /\ writes < MaxWrites /\ writes' = writes + 1
    /\ <<e, m, p>> \notin told
    /\ nodes' = nodes \cup {e}
    /\ edges' = edges \cup {<<e, m, p>>}
    /\ told' = told \cup {<<e, m, p>>}
    /\ UNCHANGED <<corrected, superseded, trail, causes, cut, at, rows, groups, links, faults>>

WriteCorrection(e) ==
    /\ writes < MaxWrites /\ writes' = writes + 1
    /\ e \notin corrected
    /\ nodes' = nodes \cup {e}
    /\ corrected' = corrected \cup {e}
    /\ UNCHANGED <<edges, superseded, trail, causes, told, cut, at, rows, groups, links,
                   faults>>

-----------------------------------------------------------------------------
(* Pruning *)

\* doc_reference_nodes, the equipment that is_doc_reference.
Start ==
    /\ at = "idle"
    /\ at' = "prune"
    /\ rows' = {<<e, {}>> : e \in nodes \cap DocRefs}
    /\ UNCHANGED <<graph, groups, links, writes, faults>>

\* Mutant: the rule is always right.
NeverSpared(e) == FALSE

\* prune_node: whether a person is involved is asked in the deletion itself.
Spared(e) == e \in corrected

Prune ==
    /\ at = "prune"
    /\ \E row \in rows :
          LET gone == IF Spared(row[1]) THEN {} ELSE {row[1]}
          IN  /\ rows' = rows \ {row}
              /\ nodes' = nodes \ gone
              /\ edges' = {r \in edges : r[1] \notin gone}
              /\ told' = {r \in told : r[1] \notin gone}
              /\ corrected' = corrected \ gone
    /\ UNCHANGED <<superseded, trail, causes, cut, at, groups, links, writes, faults>>

\* equipment_with_failures, read once for all the equipment.
Snapshot ==
    /\ at = "prune" /\ rows = {}
    /\ at' = "next"
    /\ rows' = {<<e, {m \in Modes \ superseded : \E p \in Provenances : <<e, m, p>> \in edges}>>
                   : e \in nodes}
    /\ UNCHANGED <<graph, groups, links, writes, faults>>

-----------------------------------------------------------------------------
(* Reconciling one equipment *)

\* validate: what names a mode that is not the equipment's is dropped.
Valid(plan, labels) ==
    LET known(g) == g.canonical \in labels
        Kept(g) == [g EXCEPT !.variants = (@ \cap labels) \ {g.canonical}]
        kept == SelectSeq(plan, known)
    IN  [i \in DOMAIN kept |-> Kept(kept[i])]

ValidLinks(asked, labels) ==
    {l \in asked : {l[1], l[2]} \subseteq labels /\ l[1] # l[2]}

\* canonical_of: the last group that names a mode says what it is.
CanonicalOf(plan, m) ==
    LET naming == {i \in DOMAIN plan : m \in plan[i].variants \cup {plan[i].canonical}}
    IN  IF naming = {} THEN m
        ELSE plan[CHOOSE i \in naming : \A j \in naming : j <= i].canonical

\* reconcile: a model that does not answer leaves the modes as they are.
Reconcile ==
    /\ at = "next"
    /\ \E row \in rows, n \in 0..MaxGroups :
       \E plan \in [1..n -> Groups], asked \in {{}} \cup {{l} : l \in Modes \X Modes} :
          LET labels == row[2]
              valid == Valid(plan, labels)
              merging(g) == g.variants # {}
          IN  /\ Cardinality(labels) >= 2
              /\ rows' = rows \ {row}
              /\ groups' = SelectSeq(valid, merging)
              /\ links' = {l \in {<<CanonicalOf(valid, k[1]), CanonicalOf(valid, k[2])>>
                                    : k \in ValidLinks(asked, labels)} : l[1] # l[2]}
              /\ at' = "merge"
    /\ UNCHANGED <<graph, writes, faults>>

PassOver ==
    /\ at = "next"
    /\ \E row \in rows : Cardinality(row[2]) < 2 /\ rows' = rows \ {row}
    /\ UNCHANGED <<graph, at, groups, links, writes, faults>>

\* merge_failure_modes, the first query: the edges of every equipment go over.
Moved(r, g) == IF r[2] \in g.variants THEN <<r[1], g.canonical, r[3]>> ELSE r

Trailed(g) == g.variants \X {g.canonical}

\* Mutant: one record of an equipment to a mode, whatever its provenance.
MoveEdgesUnkeyed ==
    LET g == Head(groups)
        moving == {r \in edges : r[2] \in g.variants}
        had(e) == \E q \in edges : q[1] = e /\ q[2] = g.canonical
    IN  /\ at = "merge" /\ groups # <<>>
        /\ edges' = (edges \ moving) \cup {Moved(r, g) : r \in {q \in moving : ~had(q[1])}}
        /\ cut' = cut \cup Trailed(g)
        /\ at' = "mark"
        /\ UNCHANGED <<nodes, corrected, superseded, trail, causes, told, rows, groups, links,
                       writes, faults>>

MoveEdges ==
    /\ at = "merge" /\ groups # <<>>
    /\ edges' = {Moved(r, Head(groups)) : r \in edges}
    /\ cut' = cut \cup Trailed(Head(groups))
    /\ at' = "mark"
    /\ UNCHANGED <<nodes, corrected, superseded, trail, causes, told, rows, groups, links,
                   writes, faults>>

\* And the second.
MarkSuperseded ==
    /\ at = "mark"
    /\ superseded' = superseded \cup Head(groups).variants
    /\ trail' = trail \cup Trailed(Head(groups))
    /\ cut' = cut \ Trailed(Head(groups))
    /\ groups' = Tail(groups)
    /\ at' = "merge"
    /\ UNCHANGED <<nodes, edges, corrected, causes, told, rows, links, writes, faults>>

LinkCauses ==
    /\ at = "merge" /\ groups = <<>>
    /\ causes' = causes \cup links
    /\ links' = {}
    /\ at' = "next"
    /\ UNCHANGED <<nodes, edges, corrected, superseded, trail, told, cut, rows, groups,
                   writes, faults>>

Finish ==
    /\ at = "next" /\ rows = {}
    /\ at' = "idle"
    /\ UNCHANGED <<graph, rows, groups, links, writes, faults>>

-----------------------------------------------------------------------------
(* Faults *)

\* An exception costs the equipment in hand the rest of its plan.
Skip ==
    /\ at \in {"merge", "mark"}
    /\ Fault
    /\ at' = "next"
    /\ groups' = <<>>
    /\ links' = {}
    /\ UNCHANGED <<graph, rows, writes>>

\* Outside of an equipment it costs the pass, as the end of the process does.
Lose ==
    /\ at # "idle"
    /\ Fault
    /\ at' = "idle"
    /\ rows' = {}
    /\ groups' = <<>>
    /\ links' = {}
    /\ UNCHANGED <<graph, writes>>

-----------------------------------------------------------------------------
(* The specification *)

Init ==
    /\ nodes = {} /\ edges = {} /\ corrected = {} /\ superseded = {}
    /\ trail = {} /\ causes = {} /\ told = {} /\ cut = {}
    /\ at = "idle" /\ rows = {} /\ groups = <<>> /\ links = {}
    /\ writes = 0 /\ faults = 0

Next ==
    \/ \E e \in Equipment, m \in Modes, p \in Provenances : WriteRecord(e, m, p)
    \/ \E e \in Equipment : WriteCorrection(e)
    \/ Start \/ Prune \/ Snapshot \/ Reconcile \/ PassOver
    \/ MoveEdges \/ MarkSuperseded \/ LinkCauses \/ Finish
    \/ Skip \/ Lose

Spec == Init /\ [][Next]_vars

-----------------------------------------------------------------------------
(* Properties *)

\* m leads to c by what was merged into what.
Leads(m, c, merged) ==
    \A S \in SUBSET Modes :
       (m \in S /\ \A t \in merged : t[1] \in S => t[2] \in S) => c \in S

\* However plans overlap, contradict each other from one equipment to the
\* next, and take turns with the writer, no record of a failure is lost: it
\* hangs, under its own provenance, from the mode it was written to or from
\* one that mode was merged into, and the graph itself shows the way there
\* unless the pass was interrupted between a merge's two queries.
RecordsTraced ==
    \A r \in told : \E t \in edges :
       t[1] = r[1] /\ t[3] = r[3] /\ Leads(r[2], t[2], trail \cup cut)

\* Equipment a person has corrected is never deleted, however late in the
\* pass the correction comes: if the rule and the engineer disagree, the
\* engineer is right.
HumanKept ==
    [][\A e \in corrected : e \in nodes' /\ e \in corrected']_vars

\* A merge can be split again: a record away from the mode it was written to
\* is at the end of a MERGED_INTO trail from there whenever no pass runs.
MergeCanBeSplit ==
    at = "idle" =>
       \A r \in told : \E t \in edges :
          t[1] = r[1] /\ t[3] = r[3] /\ Leads(r[2], t[2], trail)

=============================================================================
