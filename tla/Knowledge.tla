------------------------------ MODULE Knowledge ------------------------------
(***************************************************************************)
(* What makes and uses the plant's knowledge: how a text is cut (cut), the *)
(* extraction lanes (lanes), the denoiser (merge), the connectors (sync),  *)
(* the paths of a causal question (prune) and the answering of questions   *)
(* (ask).                                                                  *)
(*                                                                         *)
(* They meet only through the graph, the ledger and the queues, which each *)
(* of them models for itself, and are taken one at a time: a behaviour is  *)
(* of one stage, chosen at the start.  A constant or a variable that two   *)
(* modules declare is declared once, and of the stage's module; the        *)
(* variables of the other stages stay None.                                *)
(***************************************************************************)
EXTENDS Integers, Sequences, FiniteSets

CONSTANTS
    None, MaxFaults,
    \* DocumentText
    Texts, Manuals, Guesses, MaxChars,
    \* ExtractionLanes
    Lanes, Tags, Instruments, Scrawl, Names, Orders, People, NoText, Batches, MaxDocuments,
    \* Denoiser
    Equipment, DocRefs, Modes, Provenances, MaxGroups, MaxWrites,
    \* ConnectorSync, whose documents are files
    Configurations, Files, Home(_), Workers, Limit, MaxMoment,
    \* PathPruning, whose nodes are things
    Things, Label, Edges, SeedLists, Types, MaxHops, TopK, Alpha, MinConfidence, Threshold,
    \* AskPipeline: the tags of a question, the orders of a node, ..., by names in -Of
    Askers, Questions, Nodes, Docs, Unsourced, Invented, Standalone, WordsOf, TagsOf,
    Standards, Phrases, LinksOf, OrdersOf, Passages, PassageOf, NamesOf, Chains, Overdue,
    Counts, Fixes, NoAnswer, Nearest, NearestLocal, NearestPath, Named, NamedPath,
    MaxEvidence, MaxPathEvidence, MaxAsks

VARIABLES
    stage,
    pc,
    text, reached, group, chunks, manual, entries, stack, sections,
    doc, batch, dropped,
    nodes, edges, told,
    failed,
    graph,
    corrected,
    superseded, trail, causes, cut, rows, groups, links, writes,
    at, faults,
    connectors, now, modified, cursor, listing, last, submitted, owed,
    seeds, pruning, todo, kept,
    unswept, cache, request, found, given, asks

\* What the variables are of: one stage, or several.
cutVars == <<text, reached, group, chunks, manual, entries, stack, sections>>
lanesVars == <<doc, batch, dropped>>
lanesMergeVars == <<nodes, edges, told>>
mergeVars == <<superseded, trail, causes, cut, rows, groups, links, writes>>
mergeSyncVars == <<at, faults>>
syncVars == <<connectors, now, modified, cursor, listing, last, submitted, owed>>
pruneVars == <<seeds, pruning, todo, kept>>
askVars == <<unswept, cache, request, found, given, asks>>

vars == <<stage, pc, cutVars, lanesVars, lanesMergeVars, failed, graph, corrected, mergeVars,
          mergeSyncVars, syncVars, pruneVars, askVars>>

Cut == INSTANCE DocumentText
Lane == INSTANCE ExtractionLanes WITH Blank <- NoText
Merge == INSTANCE Denoiser
Pull == INSTANCE ConnectorSync WITH Docs <- Files
Paths == INSTANCE PathPruning WITH Nodes <- Things, pc <- pruning
Asking == INSTANCE AskPipeline WITH
    Tags <- TagsOf, Names <- NamesOf, Words <- WordsOf, Relations <- LinksOf,
    WorkOrders <- OrdersOf

ASSUME KnowledgeAssumption ==
    /\ Cut!TextAssumption /\ Lane!LanesAssumption /\ Merge!DenoiserAssumption
    /\ Pull!ConnectorAssumption /\ Paths!PruningAssumption /\ Asking!AskAssumption

-----------------------------------------------------------------------------
\* A variable of the stages named is None in the others, and stays so.
Of(stages, v) == IF stage \in stages THEN TRUE ELSE v = None
Still(stages, v) == IF stage \in stages THEN TRUE ELSE UNCHANGED v

Init ==
    /\ \/ stage = "cut" /\ Cut!Init
       \/ stage = "lanes" /\ Lane!Init
       \/ stage = "merge" /\ Merge!Init
       \/ stage = "sync" /\ Pull!Init
       \/ stage = "prune" /\ Paths!Init
       \/ stage = "ask" /\ Asking!Init
    /\ Of({"cut", "lanes", "ask"}, pc)
    /\ Of({"cut"}, text) /\ Of({"cut"}, reached) /\ Of({"cut"}, group) /\ Of({"cut"}, chunks)
    /\ Of({"cut"}, manual) /\ Of({"cut"}, entries) /\ Of({"cut"}, stack)
    /\ Of({"cut"}, sections)
    /\ Of({"lanes"}, doc) /\ Of({"lanes"}, batch) /\ Of({"lanes"}, dropped)
    /\ Of({"lanes", "merge"}, nodes) /\ Of({"lanes", "merge"}, edges)
    /\ Of({"lanes", "merge"}, told)
    /\ Of({"lanes", "sync"}, failed)
    /\ Of({"lanes", "prune"}, graph)
    /\ Of({"merge", "ask"}, corrected)
    /\ Of({"merge"}, superseded) /\ Of({"merge"}, trail) /\ Of({"merge"}, causes)
    /\ Of({"merge"}, cut) /\ Of({"merge"}, rows) /\ Of({"merge"}, groups)
    /\ Of({"merge"}, links) /\ Of({"merge"}, writes)
    /\ Of({"merge", "sync"}, at) /\ Of({"merge", "sync"}, faults)
    /\ Of({"sync"}, connectors) /\ Of({"sync"}, now) /\ Of({"sync"}, modified)
    /\ Of({"sync"}, cursor) /\ Of({"sync"}, listing) /\ Of({"sync"}, last)
    /\ Of({"sync"}, submitted) /\ Of({"sync"}, owed)
    /\ Of({"prune"}, seeds) /\ Of({"prune"}, pruning) /\ Of({"prune"}, todo)
    /\ Of({"prune"}, kept)
    /\ Of({"ask"}, unswept) /\ Of({"ask"}, cache) /\ Of({"ask"}, request)
    /\ Of({"ask"}, found) /\ Of({"ask"}, given) /\ Of({"ask"}, asks)

Next ==
    /\ UNCHANGED stage
    /\ \/ stage = "cut" /\ Cut!Next
       \/ stage = "lanes" /\ Lane!Next
       \/ stage = "merge" /\ Merge!Next
       \/ stage = "sync" /\ Pull!Next
       \/ stage = "prune" /\ Paths!Next
       \/ stage = "ask" /\ Asking!Next
    /\ Still({"cut", "lanes", "ask"}, pc) /\ Still({"cut"}, cutVars)
    /\ Still({"lanes"}, lanesVars) /\ Still({"lanes", "merge"}, lanesMergeVars)
    /\ Still({"lanes", "sync"}, failed) /\ Still({"lanes", "prune"}, graph)
    /\ Still({"merge", "ask"}, corrected) /\ Still({"merge"}, mergeVars)
    /\ Still({"merge", "sync"}, mergeSyncVars) /\ Still({"sync"}, syncVars)
    /\ Still({"prune"}, pruneVars) /\ Still({"ask"}, askVars)

Spec == Init /\ [][Next]_vars

-----------------------------------------------------------------------------
(* The properties of the modules, each of its own stage *)

\* Chunks and sections lose nothing and overlap nowhere they should not: see DocumentText.
CutSound == stage = "cut" => Cut!TextKept /\ Cut!TreeSound

\* What a lane reads lands, and lands whole: see ExtractionLanes.
LandsWhole == stage = "lanes" => Lane!EdgesLand /\ Lane!LandsWhole

\* No failure record is lost to the denoiser: see Denoiser.
RecordsTraced == stage = "merge" => Merge!RecordsTraced

\* No document falls behind its source's cursor unread: see ConnectorSync.
NothingPassedOver == stage = "sync" => Pull!NothingPassedOver

\* What an answer is made of: a path that was found is left out only for one as strong, and
\* an answer that is made, not taken from the cache, says of a corrected source it lists
\* that it is.  See PathPruning and AskPipeline.
RetrievalSound ==
    /\ stage = "prune" => Paths!StrongestKept
    /\ stage = "ask" => Asking!CorrectionTold

\* Equipment a person has corrected is never deleted: see Denoiser.
HumanKept ==
    [][stage = "merge" =>
          \A x \in corrected : x \in nodes' /\ x \in corrected']_vars

=============================================================================
