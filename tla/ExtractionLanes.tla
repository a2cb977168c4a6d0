--------------------------- MODULE ExtractionLanes ---------------------------
(***************************************************************************)
(* From a document's bytes to its part of the graph: the lane that reads   *)
(* it (ExtractionService and the extractor of each kind), the resolver     *)
(* that stamps its nodes, and the grouping that lets its edges land.       *)
(*                                                                         *)
(* A name is <<kind, value>>: a document's own, what is scoped to it (its  *)
(* section, its chunk), a word off its pages, or a person.  A node is      *)
(* <<type, name>>, an edge <<type, name, name>>: extractors write edges in *)
(* surface forms.  A document's text is reduced to the tags found in it,   *)
(* one section and one chunk; how text is cut is in DocumentText.  Whether *)
(* a task is retried, and what it does to the claim, is DocumentPipeline's.*)
(***************************************************************************)
EXTENDS Naturals, FiniteSets, FiniteSetsExt

CONSTANTS
    Lanes,          \* the lanes documents come through
    Tags,           \* words shaped like a tag
    Instruments,    \* those with the letter code of an instrument
    Scrawl,         \* a word that is no tag
    Names,          \* of failure modes, procedures and standards
    Orders,         \* numbers of work orders
    People,
    Blank,          \* an empty cell
    Batches,        \* relation calls a text takes
    MaxDocuments

LanesAssumption ==
    /\ Lanes \subseteq {"text", "manual", "email", "image", "pnid", "table", "correction"}
    /\ Instruments \subseteq Tags /\ Scrawl \notin Tags
    /\ Blank \notin Tags \cup Names \cup Orders
    /\ Batches \in Nat \ {0} /\ MaxDocuments \in Nat \ {0}

Words == Tags \cup {Scrawl}

\* The types a node can be stamped with; FaultMode has no prefix.
ID_PREFIX == {"Equipment", "Instrument", "Line", "Document", "Section", "Chunk", "WorkOrder",
              "FailureMode", "Procedure", "RegulationClause", "Person"}

VARIABLES
    doc,        \* the document in hand: [id, lane, named, people, wrong]
    pc,
    nodes, edges,
    batch,      \* relation calls made
    told,       \* what the model's answers assert: edges that were asked for
    failed,     \* the call that raised
    graph,      \* the nodes stored, by id
    dropped     \* edges of the last document that matched no node

vars == <<doc, pc, nodes, edges, batch, told, failed, graph, dropped>>

Doc(d) == <<"doc", d>>
Section(d) == <<"section", d>>
Chunk(d) == <<"chunk", d>>
Word(w) == <<"word", w>>
This == Doc(doc.id)

TagNode(t) == <<IF t \in Instruments THEN "Instrument" ELSE "Equipment", Word(t)>>
Mention(t) == <<"MENTIONED_IN", Word(t), This>>

Add(ns, es) == nodes' = nodes \cup ns /\ edges' = edges \cup es
GoTo(place) == pc' = place /\ UNCHANGED failed
Raise(call) ==
    /\ pc' = "raised" /\ failed' = call
    /\ UNCHANGED <<doc, nodes, edges, batch, told, graph, dropped>>

-----------------------------------------------------------------------------
(* A document arrives; a correction names the documents its answer leaned on *)

Receive ==
    /\ pc \in {"idle", "raised", "landed"} /\ doc.id < MaxDocuments
    /\ \E lane \in Lanes, named \in SUBSET Tags, people \in SUBSET People, wrong \in SUBSET (1..doc.id) :
           /\ lane = "email" \/ people = {}
           /\ lane = "correction" \/ wrong = {}
           /\ doc' = [id |-> doc.id + 1, lane |-> lane, named |-> named, people |-> people, wrong |-> wrong]
           /\ pc' = CASE lane \in {"text", "manual", "email"} -> "shell"
                      [] lane = "image" -> "classify"
                      [] lane = "pnid" -> "components"
                      [] OTHER -> lane
    /\ nodes' = {} /\ edges' = {} /\ batch' = 0 /\ told' = {} /\ failed' = "" /\ dropped' = {}
    /\ UNCHANGED graph

-----------------------------------------------------------------------------
(* Prose: text, manuals, mail and transcripts *)

\* Sections and chunks; a document without text ends here.
SectionLayer ==
    /\ pc = "shell"
    /\ \/ Raise("text")
       \/ /\ Add({<<"Document", This>>, <<"Section", Section(doc.id)>>},
                 {<<"PART_OF", Section(doc.id), This>>, <<"PART_OF", Chunk(doc.id), Section(doc.id)>>})
          /\ GoTo("embed")
          /\ UNCHANGED <<doc, batch, told, graph, dropped>>

EmbedLayer ==
    /\ pc = "embed"
    /\ \/ Raise("embed")
       \/ /\ Add({<<"Chunk", Chunk(doc.id)>>}, {})
          /\ GoTo("mentions")
          /\ UNCHANGED <<doc, batch, told, graph, dropped>>

MentionPass ==
    /\ pc = "mentions"
    /\ Add({TagNode(t) : t \in doc.named}, {Mention(t) : t \in doc.named})
    /\ GoTo("relations")
    /\ UNCHANGED <<doc, batch, told, graph, dropped>>

\* What an answer may hold: the tag may be any word, though it was told to keep to the list.
Relations == {"HAS_FAILURE", "FIXED_BY", "GOVERNED_BY"}
Findings == Relations \X Words \X Names
NodeOf(relation) ==
    CASE relation = "HAS_FAILURE" -> "FailureMode"
      [] relation = "FIXED_BY" -> "Procedure"
      [] relation = "GOVERNED_BY" -> "RegulationClause"

\* Mutant: a tag the text does not name is not made a node.
ApplyUnensured(found) ==
    LET good == {f \in found : f[2] \in Tags}
    IN /\ Add({<<NodeOf(f[1]), Word(f[3])>> : f \in good},
              {<<f[1], Word(f[2]), Word(f[3])>> : f \in good})
       /\ told' = told \cup {<<f[1], Word(f[2]), Word(f[3])>> : f \in good}

Apply(found) ==
    LET good == {f \in found : f[2] \in Tags}
    IN /\ Add({TagNode(f[2]) : f \in good} \cup {<<NodeOf(f[1]), Word(f[3])>> : f \in good},
              {<<f[1], Word(f[2]), Word(f[3])>> : f \in good})
       /\ told' = told \cup {<<f[1], Word(f[2]), Word(f[3])>> : f \in good}

\* Mutant: a batch whose answer is cut off takes the document with it.
ReadBatchOrRaise ==
    /\ pc = "relations" /\ batch < Batches
    /\ \/ Raise("relations")
       \/ /\ batch' = batch + 1
          /\ \E found \in {{}} \cup {{f} : f \in Findings} : Apply(found)
          /\ UNCHANGED <<doc, pc, failed, graph, dropped>>

\* A batch that fails costs its relations.
ReadBatch ==
    /\ pc = "relations" /\ batch < Batches
    /\ batch' = batch + 1
    /\ \/ UNCHANGED <<nodes, edges, told>>
       \/ \E found \in {{}} \cup {{f} : f \in Findings} : Apply(found)
    /\ UNCHANGED <<doc, pc, failed, graph, dropped>>

\* Of mail, whom it is from and to.
Close ==
    /\ pc = "relations" /\ batch = Batches
    /\ Add({<<"Person", <<"person", p>>>> : p \in doc.people},
           {<<"MENTIONED_IN", <<"person", p>>, This>> : p \in doc.people})
    /\ GoTo("extracted")
    /\ UNCHANGED <<doc, batch, told, graph, dropped>>

-----------------------------------------------------------------------------
(* Images and drawings *)

Classify ==
    /\ pc = "classify"
    /\ \/ Raise("classify")
       \/ /\ \E place \in {"components", "chart", "nameplate", "ocr"} : GoTo(place)
          /\ UNCHANGED <<doc, nodes, edges, batch, told, graph, dropped>>

\* A specialist that cannot read the picture leaves it to transcription.
Specialist ==
    /\ pc \in {"chart", "nameplate"}
    /\ \/ GoTo("ocr") /\ UNCHANGED <<nodes, edges>>
       \/ /\ GoTo("extracted")
          /\ \/ /\ pc = "chart"
                /\ Add({<<"Document", This>>, <<"Chunk", Chunk(doc.id)>>} \cup {TagNode(t) : t \in doc.named},
                       {<<"PART_OF", Chunk(doc.id), This>>} \cup {Mention(t) : t \in doc.named})
             \/ /\ pc = "nameplate"
                /\ \E plate \in {{}} \cup {{t} : t \in Tags} :
                       Add({<<"Document", This>>} \cup {TagNode(t) : t \in plate}, {Mention(t) : t \in plate})
    /\ UNCHANGED <<doc, batch, told, graph, dropped>>

Transcribe ==
    /\ pc = "ocr"
    /\ \/ Raise("ocr")
       \/ GoTo("shell") /\ UNCHANGED <<doc, nodes, edges, batch, told, graph, dropped>>

\* What the model calls an instrument is one, whatever its letters say.
Components ==
    /\ pc = "components"
    /\ \/ Raise("components")
       \/ /\ \E listed \in SUBSET Words : \E called \in SUBSET listed :
                 LET known == listed \cap Tags
                 IN Add({IF t \in called THEN <<"Instrument", Word(t)>> ELSE TagNode(t) : t \in known}
                          \cup {<<"Document", This>>},
                        {Mention(t) : t \in known})
          /\ GoTo("connections")
          /\ UNCHANGED <<doc, batch, told, graph, dropped>>

\* Only between two components of the first pass.
Connections ==
    /\ pc = "connections"
    /\ \/ Raise("connections")
       \/ /\ \E lines \in {{}} \cup {{l} : l \in Words \X Words} :
                 LET known == {t \in Tags : Mention(t) \in edges}
                 IN Add({}, {<<"CONNECTED_TO", Word(l[1]), Word(l[2])>> :
                                l \in {k \in lines : k[1] # k[2] /\ {k[1], k[2]} \subseteq known}})
          /\ GoTo("extracted")
          /\ UNCHANGED <<doc, batch, told, graph, dropped>>

-----------------------------------------------------------------------------
(* Tables: a row is <<order, tag, code>> or <<tag, standard>>, with blanks *)

Rows(width) == kSubset(0, width) \cup kSubset(1, width) \cup kSubset(2, width)

WorkOrders ==
    \E rows \in Rows((Orders \cup {Blank}) \X (Words \cup {Blank}) \X (Names \cup {Blank})) :
        LET kept == {r \in rows : Blank \notin {r[1], r[2]}}
            coded == {r \in kept : r[3] # Blank}
        IN Add({<<"Document", This>>} \cup {<<"WorkOrder", Word(r[1])>> : r \in kept}
                 \cup {<<"Equipment", Word(r[2])>> : r \in kept} \cup {<<"FailureMode", Word(r[3])>> : r \in coded},
               {<<"MENTIONED_IN", Word(r[2]), Word(r[1])>> : r \in kept}
                 \cup {<<"MENTIONED_IN", Word(r[1]), This>> : r \in kept}
                 \cup {<<"HAS_FAILURE", Word(r[2]), Word(r[3])>> : r \in coded})

Inspections ==
    \E rows \in Rows((Words \cup {Blank}) \X (Names \cup {Blank})) :
        LET kept == {r \in rows : r[1] # Blank}
            governed == {r \in kept : r[2] # Blank}
        IN Add({<<"Document", This>>} \cup {<<"Equipment", Word(r[1])>> : r \in kept}
                 \cup {<<"RegulationClause", Word(r[2])>> : r \in governed},
               {Mention(r[1]) : r \in kept} \cup {<<"GOVERNED_BY", Word(r[1]), Word(r[2])>> : r \in governed})

\* The columns come from the headers, or else from the model; without them there is no table.
ParseTable ==
    /\ pc = "table"
    /\ \/ Raise("mapping")
       \/ /\ WorkOrders \/ Inspections
          /\ GoTo("extracted")
          /\ UNCHANGED <<doc, batch, told, graph, dropped>>

-----------------------------------------------------------------------------
(* Corrections *)

\* The types offered are all there are; one that is none of them is taken for equipment.
FactTypes == {"Equipment", "FailureMode", "FaultMode"}

\* Every document the wrong answer cited, and the correction once there is one.
MistakeRecord ==
    IF doc.wrong = {} THEN [nodes |-> {}, edges |-> {}]
    ELSE [nodes |-> {<<"Document", Doc(d)>> : d \in doc.wrong \cup {doc.id}},
          edges |-> {<<"CORRECTED_BY", Doc(d), This>> : d \in doc.wrong}]

\* The facts may relate things that are not listed; when they cannot be read there are none.
Correct ==
    /\ pc = "correction"
    /\ \E things \in {{}} \cup {{x} : x \in FactTypes \X Words},
          facts \in {{}} \cup {{<<"HAS_FAILURE", Word(e[1]), Word(e[2])>>} : e \in Words \X Words} :
           /\ Add(MistakeRecord.nodes \cup {<<x[1], Word(x[2])>> : x \in things},
                  MistakeRecord.edges \cup facts)
           /\ told' = facts
    /\ GoTo("extracted")
    /\ UNCHANGED <<doc, batch, graph, dropped>>

-----------------------------------------------------------------------------
(* Resolution and the write *)

\* Resolver.resolve: a type without a prefix stops the subgraph.
Resolve ==
    /\ pc = "extracted"
    /\ \/ /\ \E n \in nodes : n[1] \notin ID_PREFIX
          /\ Raise("resolve")
       \/ /\ \A n \in nodes : n[1] \in ID_PREFIX
          /\ GoTo("resolved")
          /\ UNCHANGED <<doc, nodes, edges, batch, told, graph, dropped>>

\* group_batch and the write: an edge's ends are looked up among the nodes of its own
\* document, and what is not there is taken for an id and matches nothing.
Land ==
    /\ pc = "resolved"
    /\ LET surfaces == {n[2] : n \in nodes}
       IN dropped' = {e \in edges : ~ {e[2], e[3]} \subseteq surfaces}
    /\ graph' = graph \cup nodes
    /\ GoTo("landed")
    /\ UNCHANGED <<doc, nodes, edges, batch, told>>

Init ==
    /\ doc = [id |-> 0, lane |-> "text", named |-> {}, people |-> {}, wrong |-> {}]
    /\ pc = "idle" /\ nodes = {} /\ edges = {} /\ batch = 0 /\ told = {} /\ failed = ""
    /\ graph = {} /\ dropped = {}

Next ==
    \/ Receive
    \/ SectionLayer \/ EmbedLayer \/ MentionPass \/ ReadBatch \/ Close
    \/ Classify \/ Specialist \/ Transcribe \/ Components \/ Connections
    \/ ParseTable \/ Correct
    \/ Resolve \/ Land

Spec == Init /\ [][Next]_vars

-----------------------------------------------------------------------------
(* Properties *)

\* No edge an extractor writes is lost at the write for want of its ends; only the facts of
\* a correction may be, for they name their ends freely.
EdgesLand == pc = "landed" => IF doc.lane = "correction" THEN dropped \subseteq told ELSE dropped = {}

\* A call that has a fallback never costs the document: a relation batch, a specialist, a
\* correction's facts.  And what landed is whole: the tags of its prose are mentioned, what
\* the model answered is there, and every document a correction is about points to it.
LandsWhole ==
    /\ failed \notin {"relations", "chart", "nameplate", "facts"}
    /\ pc = "landed" =>
          /\ told \subseteq edges
          /\ <<"Section", Section(doc.id)>> \in nodes =>
                 \A t \in doc.named : \E n \in nodes : n[2] = Word(t) /\ Mention(t) \in edges
          /\ \A d \in doc.wrong : <<"CORRECTED_BY", Doc(d), This>> \in edges \ dropped

\* "The same pump named 'P-101A', 'p 101a' or 'P101A' in any document always resolves to
\* equip:P-101A", resolver.py:3-5: one tag, one node, whichever lane names it.
OneEntityPerTag ==
    \A n1, n2 \in {n \in graph : n[1] \in {"Equipment", "Instrument"}} :
        n1[2] = n2[2] => n1[1] = n2[1]

=============================================================================
