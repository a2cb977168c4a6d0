-------------------------- MODULE KnowledgeProofs ---------------------------
(***************************************************************************)
(* What holds of the stages of Knowledge for all values of the constants:  *)
(* what a lane reads lands whole; answers tell of corrections, and the     *)
(* paths they rest on are the strongest; no document is passed over by a   *)
(* connector; the denoiser loses no record and no corrected equipment; and *)
(* nothing of a text is lost where it is cut.                              *)
(*                                                                         *)
(* Each section proves an inductive invariant of one module, and from it   *)
(* the property of its stage.                                              *)
(***************************************************************************)
EXTENDS Knowledge, FiniteSetTheorems, SequenceTheorems, WellFoundedInduction, TLAPS

\* The stage stays, and a step is one of its module or leaves that alone.
LEMMA StageSteps ==
    ASSUME [Next]_vars
    PROVE  /\ stage' = stage
           /\ stage = "cut" => [Cut!Next]_Cut!vars
           /\ stage = "lanes" => [Lane!Next]_Lane!vars
           /\ stage = "merge" => [Merge!Next]_Merge!vars
           /\ stage = "sync" => [Pull!Next]_Pull!vars
           /\ stage = "prune" => [Paths!Next]_Paths!vars
           /\ stage = "ask" => [Asking!Next]_Asking!vars
<1>1. CASE Next
  BY <1>1 DEF Next
<1>2. CASE UNCHANGED vars
  <2>1. /\ UNCHANGED <<stage, pc, failed, graph, corrected>>
        /\ UNCHANGED <<cutVars, lanesVars, lanesMergeVars, mergeVars>>
        /\ UNCHANGED <<mergeSyncVars, syncVars, pruneVars, askVars>>
    BY <1>2 DEF vars
  <2>2. UNCHANGED <<Cut!vars, Lane!vars, Merge!vars>>
    BY <2>1 DEF Cut!vars, Lane!vars, Merge!vars, Merge!graph, cutVars, lanesVars, lanesMergeVars,
                mergeVars, mergeSyncVars
  <2>3. UNCHANGED <<Pull!vars, Paths!vars, Asking!vars>>
    BY <2>1 DEF Pull!vars, Paths!vars, Asking!vars, mergeSyncVars, syncVars, pruneVars, askVars
  <2>4. QED
    BY <2>1, <2>2, <2>3
<1>3. QED
  BY <1>1, <1>2

-----------------------------------------------------------------------------
(* The extraction lanes: what a lane reads lands, and lands whole *)

\* An edge that lands: each end is the name of a node of the document.
Lands(e) == (\E n \in nodes : n[2] = e[2]) /\ (\E n \in nodes : n[2] = e[3])

Lost == {e \in edges : ~ Lands(e)}

\* The facts of a correction name their ends freely.
Free == IF doc.lane = "correction" THEN told ELSE {}

Prose == {"mentions", "relations"}
Untouched == {"shell", "classify", "components", "chart", "nameplate", "ocr", "table", "correction"}
Over == {"extracted", "resolved", "landed"}
InHand == \E n \in nodes : n[2] = Lane!This

\* The tags of the prose are mentioned, once the pass for them is over.
Mentioned == \A t \in doc.named : (\E n \in nodes : n[2] = Lane!Word(t)) /\ Lane!Mention(t) \in edges

\* Every document a correction is about points to it.
Pointed == \A d \in doc.wrong :
              LET e == <<"CORRECTED_BY", Lane!Doc(d), Lane!This>> IN e \in edges /\ Lands(e)

LaneInv ==
    /\ failed \in {"", "text", "embed", "classify", "ocr", "components", "connections", "mapping",
                   "resolve"}
    /\ told \subseteq edges
    /\ doc.lane # "correction" => doc.wrong = {}
    /\ doc.lane = "correction" => pc \in {"correction", "raised"} \cup Over
    /\ pc = "correction" => doc.lane = "correction"
    /\ pc \in {"idle", "raised", "embed", "connections"} \cup Prose \cup Untouched \cup Over
    /\ pc \in Untouched => nodes = {} /\ edges = {}
    /\ pc = "embed" =>
          /\ InHand /\ \E n \in nodes : n[2] = Lane!Section(doc.id)
          /\ edges = {<<"PART_OF", Lane!Section(doc.id), Lane!This>>,
                      <<"PART_OF", Lane!Chunk(doc.id), Lane!Section(doc.id)>>}
    /\ pc \in Prose \cup {"connections"} => InHand
    /\ pc \in Prose \cup Over \cup {"connections"} => \A e \in edges \ Free : Lands(e)
    /\ pc \in Over \cup {"relations"} =>
          (<<"Section", Lane!Section(doc.id)>> \in nodes => Mentioned)
    /\ pc \in Over => Pointed
    /\ pc = "connections" => <<"Section", Lane!Section(doc.id)>> \notin nodes
    /\ pc = "landed" => dropped = Lost

LEMMA LaneInit == Lane!Init => LaneInv
<1> SUFFICES ASSUME Lane!Init PROVE LaneInv
  OBVIOUS
<1>1. pc = "idle" /\ edges = {} /\ told = {} /\ failed = "" /\ doc.lane = "text" /\ doc.wrong = {}
  BY DEF Lane!Init
<1>2. QED
  BY <1>1 DEF LaneInv, Prose, Untouched, Over

LEMMA InvIsWhole == LaneInv => Lane!EdgesLand /\ Lane!LandsWhole
<1> SUFFICES ASSUME LaneInv PROVE Lane!EdgesLand /\ Lane!LandsWhole
  OBVIOUS
<1>1. ASSUME pc = "landed"
      PROVE  /\ dropped \subseteq Free
             /\ \A d \in doc.wrong : <<"CORRECTED_BY", Lane!Doc(d), Lane!This>> \in edges \ dropped
             /\ <<"Section", Lane!Section(doc.id)>> \in nodes => Mentioned
  BY <1>1 DEF LaneInv, Over, Pointed, Lost
<1>2. Lane!EdgesLand
  BY <1>1 DEF Lane!EdgesLand, Free
<1>3. Lane!LandsWhole
  BY <1>1 DEF Lane!LandsWhole, LaneInv, Mentioned
<1>4. QED
  BY <1>2, <1>3

LEMMA NodeNames ==
  ASSUME NEW ns, NEW type, NEW name, <<type, name>> \in ns
  PROVE  \E n \in ns : n[2] = name
<1>1. <<type, name>>[2] = name
  OBVIOUS
<1>2. QED
  BY <1>1

LEMMA TagNames ==
  ASSUME NEW ns, NEW t, Lane!TagNode(t) \in ns
  PROVE  \E n \in ns : n[2] = Lane!Word(t)
<1>1. Lane!TagNode(t)[2] = Lane!Word(t)
  BY DEF Lane!TagNode
<1>2. QED
  BY <1>1

LEMMA RaiseKeeps ==
  ASSUME LaneInv, NEW call \in {"text", "embed", "classify", "ocr", "components", "connections",
                                "mapping", "resolve"},
         Lane!Raise(call)
  PROVE  LaneInv'
<1>1. pc' = "raised" /\ failed' = call /\ UNCHANGED <<doc, edges, told>>
  BY DEF Lane!Raise
<1>2. QED
  BY <1>1 DEF LaneInv, Prose, Untouched, Over

LEMMA ReceiveKeeps ==
  ASSUME Lane!LanesAssumption, Lane!Receive
  PROVE  LaneInv'
<1>1. PICK lane \in Lanes, named \in SUBSET Tags, people \in SUBSET People, wrong \in SUBSET (1..doc.id) :
        /\ lane = "correction" \/ wrong = {}
        /\ doc' = [id |-> doc.id + 1, lane |-> lane, named |-> named, people |-> people, wrong |-> wrong]
        /\ pc' = CASE lane \in {"text", "manual", "email"} -> "shell"
                   [] lane = "image" -> "classify"
                   [] lane = "pnid" -> "components"
                   [] OTHER -> lane
  BY DEF Lane!Receive
<1>2. doc'.lane = lane /\ doc'.wrong = wrong
  BY <1>1
<1>3. nodes' = {} /\ edges' = {} /\ told' = {} /\ failed' = ""
  BY DEF Lane!Receive
<1>4. lane \in {"text", "manual", "email", "image", "pnid", "table", "correction"}
  BY DEF Lane!LanesAssumption
<1>5. /\ pc' \in {"shell", "classify", "components", "table", "correction"}
      /\ lane = "correction" => pc' = "correction"
  BY <1>1, <1>4
<1>6. QED
  BY <1>1, <1>2, <1>3, <1>5 DEF LaneInv, Prose, Untouched, Over

\* The prose: its own nodes and edges, and what each batch adds, land.
LEMMA ProseKeeps ==
  ASSUME Lane!LanesAssumption, LaneInv,
         Lane!SectionLayer \/ Lane!EmbedLayer \/ Lane!MentionPass \/ Lane!ReadBatch \/ Lane!Close
  PROVE  LaneInv'
<1>1. CASE Lane!SectionLayer
  <2>1. CASE Lane!Raise("text")
    BY <2>1, RaiseKeeps
  <2>2. CASE ~ Lane!Raise("text")
    <3>1. /\ pc = "shell" /\ pc' = "embed"
          /\ nodes' = nodes \cup {<<"Document", Lane!This>>, <<"Section", Lane!Section(doc.id)>>}
          /\ edges' = edges \cup {<<"PART_OF", Lane!Section(doc.id), Lane!This>>,
                                  <<"PART_OF", Lane!Chunk(doc.id), Lane!Section(doc.id)>>}
          /\ UNCHANGED <<doc, told, failed>>
      BY <1>1, <2>2 DEF Lane!SectionLayer, Lane!Add, Lane!GoTo
    <3>2. nodes = {} /\ edges = {}
      BY <3>1 DEF LaneInv, Untouched
    <3>3. (\E n \in nodes' : n[2] = Lane!This) /\ \E n \in nodes' : n[2] = Lane!Section(doc.id)
      <4>1. <<"Document", Lane!This>> \in nodes' /\ <<"Section", Lane!Section(doc.id)>> \in nodes'
        BY <3>1
      <4>2. QED
        BY <4>1, NodeNames, Zenon
    <3>5. InHand' /\ \E n \in nodes' : n[2] = Lane!Section(doc'.id)
      BY <3>1, <3>3 DEF InHand, Lane!This
    <3>4. QED
      BY <3>1, <3>2, <3>5 DEF LaneInv, Prose, Untouched, Over, Lane!This
  <2>3. QED
    BY <2>1, <2>2
<1>2. CASE Lane!EmbedLayer
  <2>1. CASE Lane!Raise("embed")
    BY <2>1, RaiseKeeps
  <2>2. CASE ~ Lane!Raise("embed")
    <3>1. /\ pc = "embed" /\ pc' = "mentions"
          /\ nodes' = nodes \cup {<<"Chunk", Lane!Chunk(doc.id)>>}
          /\ UNCHANGED <<doc, edges, told, failed>>
      BY <1>2, <2>2 DEF Lane!EmbedLayer, Lane!Add, Lane!GoTo
    <3>2. /\ InHand /\ \E n \in nodes : n[2] = Lane!Section(doc.id)
          /\ edges = {<<"PART_OF", Lane!Section(doc.id), Lane!This>>,
                      <<"PART_OF", Lane!Chunk(doc.id), Lane!Section(doc.id)>>}
      BY <3>1 DEF LaneInv
    <3>3. InHand' /\ \E n \in nodes' : n[2] = Lane!Section(doc.id)
      BY <3>1, <3>2 DEF InHand, Lane!This
    <3>4. \E n \in nodes' : n[2] = Lane!Chunk(doc.id)
      <4>1. <<"Chunk", Lane!Chunk(doc.id)>> \in nodes'
        BY <3>1
      <4>2. QED
        BY <4>1, NodeNames, Zenon
    <3>5. \A e \in edges' : Lands(e)'
      BY <3>1, <3>2, <3>3, <3>4 DEF Lands, InHand, Lane!This
    <3>6. QED
      BY <3>1, <3>3, <3>5 DEF LaneInv, Prose, Untouched, Over
  <2>3. QED
    BY <2>1, <2>2
<1>3. CASE Lane!MentionPass
  <2>1. /\ pc = "mentions" /\ pc' = "relations"
        /\ nodes' = nodes \cup {Lane!TagNode(t) : t \in doc.named}
        /\ edges' = edges \cup {Lane!Mention(t) : t \in doc.named}
        /\ UNCHANGED <<doc, told, failed>>
    BY <1>3 DEF Lane!MentionPass, Lane!Add, Lane!GoTo
  <2>2. InHand /\ (\A e \in edges \ Free : Lands(e)) /\ Free = {}
    BY <2>1 DEF LaneInv, Prose, Over, Free
  <2>3. \A t \in doc.named : (\E n \in nodes' : n[2] = Lane!Word(t)) /\ Lane!Mention(t) \in edges'
    <3>1. \A t \in doc.named : Lane!TagNode(t) \in nodes' /\ Lane!Mention(t) \in edges'
      BY <2>1
    <3>2. QED
      BY <3>1, TagNames, Zenon
  <2>4. InHand'
    BY <2>1, <2>2 DEF InHand, Lane!This
  <2>5. \A e \in edges' : Lands(e)'
    BY <2>1, <2>2, <2>3, <2>4 DEF Lands, InHand, Lane!Mention, Lane!This
  <2>6. Mentioned'
    BY <2>1, <2>3 DEF Mentioned, Lane!Mention, Lane!This, Lane!Word, Lane!Doc
  <2>7. QED
    BY <2>1, <2>4, <2>5, <2>6 DEF LaneInv, Prose, Untouched, Over
<1>4. CASE Lane!ReadBatch
  <2>1. pc = "relations" /\ UNCHANGED <<doc, pc, failed>>
    BY <1>4 DEF Lane!ReadBatch
  <2>2. CASE UNCHANGED <<nodes, edges, told>>
    BY <2>1, <2>2 DEF LaneInv, Prose, Untouched, Over, InHand, Lands, Free, Mentioned, Lane!Mention, Lane!This
  <2>3. CASE ~ UNCHANGED <<nodes, edges, told>>
    <3>1. PICK facts \in {{}} \cup {{f} : f \in Lane!Findings} : Lane!Apply(facts)
      BY <1>4, <2>3 DEF Lane!ReadBatch
    <3> DEFINE good == {f \in facts : f[2] \in Tags}
               fresh == {<<f[1], Lane!Word(f[2]), Lane!Word(f[3])>> : f \in good}
    <3>2. /\ nodes' = nodes \cup ({Lane!TagNode(f[2]) : f \in good}
                                   \cup {<<Lane!NodeOf(f[1]), Lane!Word(f[3])>> : f \in good})
          /\ edges' = edges \cup fresh /\ told' = told \cup fresh
      BY <3>1 DEF Lane!Apply, Lane!Add
    <3>3. InHand /\ (\A e \in edges \ Free : Lands(e)) /\ doc.lane # "correction"
      BY <2>1 DEF LaneInv, Prose, Over
    <3>4. (\A e \in edges : Lands(e)) /\ Free' = {}
      BY <2>1, <3>3 DEF Free
    <3>5. \A f \in good : /\ \E n \in nodes' : n[2] = Lane!Word(f[2])
                          /\ \E n \in nodes' : n[2] = Lane!Word(f[3])
      <4>1. \A f \in good : Lane!TagNode(f[2]) \in nodes' /\ <<Lane!NodeOf(f[1]), Lane!Word(f[3])>> \in nodes'
        BY <3>2
      <4> HIDE DEF good
      <4>2. QED
        BY <4>1, TagNames, NodeNames, Zenon
    <3>6. \A e \in fresh : Lands(e)'
      BY <3>5 DEF Lands
    <3>7. \A e \in edges' : Lands(e)'
      BY <3>2, <3>4, <3>6 DEF Lands
    <3>8. InHand' /\ told' \subseteq edges'
      BY <2>1, <3>2, <3>3 DEF InHand, Lane!This, LaneInv
    <3>9. <<"Section", Lane!Section(doc.id)>> \in nodes => Mentioned
      BY <2>1 DEF LaneInv
    <3>10. <<"Section", Lane!Section(doc.id)>> \in nodes' => <<"Section", Lane!Section(doc.id)>> \in nodes
      BY <3>2 DEF Lane!TagNode, Lane!NodeOf, Lane!Section, Lane!Word
    <3> HIDE DEF good, fresh
    <3>11. (<<"Section", Lane!Section(doc.id)>> \in nodes => Mentioned)'
      BY <2>1, <3>2, <3>9, <3>10 DEF Mentioned, Lane!Mention, Lane!This
    <3>12. QED
      BY <2>1, <3>7, <3>8, <3>11 DEF LaneInv, Prose, Untouched, Over
  <2>4. QED
    BY <2>2, <2>3
<1>5. CASE Lane!Close
  <2>1. /\ pc = "relations" /\ pc' = "extracted"
        /\ nodes' = nodes \cup {<<"Person", <<"person", p>>>> : p \in doc.people}
        /\ edges' = edges \cup {<<"MENTIONED_IN", <<"person", p>>, Lane!This>> : p \in doc.people}
        /\ UNCHANGED <<doc, told, failed>>
    BY <1>5 DEF Lane!Close, Lane!Add, Lane!GoTo
  <2>2. InHand /\ (\A e \in edges \ Free : Lands(e)) /\ doc.lane # "correction" /\ doc.wrong = {}
    BY <2>1 DEF LaneInv, Prose, Over
  <2>3. \A e \in edges : Lands(e)
    BY <2>2 DEF Free
  <2>4. \A p \in doc.people : \E n \in nodes' : n[2] = <<"person", p>>
    <3>1. \A p \in doc.people : <<"Person", <<"person", p>>>> \in nodes'
      BY <2>1
    <3>2. QED
      BY <3>1, NodeNames, Zenon
  <2>5. InHand'
    BY <2>1, <2>2 DEF InHand, Lane!This
  <2>6. \A e \in edges' : Lands(e)'
    <3>1. \A e \in edges : Lands(e)'
      BY <2>1, <2>3 DEF Lands
    <3>2. \A p \in doc.people : Lands(<<"MENTIONED_IN", <<"person", p>>, Lane!This>>)'
      BY <2>1, <2>4, <2>5 DEF Lands, InHand, Lane!This
    <3>3. ASSUME NEW e \in edges' PROVE e \in edges \/ \E p \in doc.people : e = <<"MENTIONED_IN", <<"person", p>>, Lane!This>>
      BY <2>1
    <3>4. ASSUME NEW e \in edges' PROVE Lands(e)'
      <4>1. CASE e \in edges
        BY <3>1, <4>1
      <4>2. CASE \E p \in doc.people : e = <<"MENTIONED_IN", <<"person", p>>, Lane!This>>
        <5>1. PICK p \in doc.people : e = <<"MENTIONED_IN", <<"person", p>>, Lane!This>>
          BY <4>2
        <5>2. Lane!This' = Lane!This
          BY <2>1 DEF Lane!This
        <5>3. QED
          BY <3>2, <5>1, <5>2 DEF Lands
      <4>3. QED
        BY <3>3, <4>1, <4>2
    <3>5. QED
      BY <3>4
  <2>7. <<"Section", Lane!Section(doc.id)>> \in nodes => Mentioned
    BY <2>1 DEF LaneInv
  <2>8. <<"Section", Lane!Section(doc.id)>> \in nodes' => <<"Section", Lane!Section(doc.id)>> \in nodes
    BY <2>1
  <2>9. (<<"Section", Lane!Section(doc.id)>> \in nodes => Mentioned)'
    BY <2>1, <2>7, <2>8 DEF Mentioned, Lane!Mention, Lane!This
  <2>10. Pointed'
    BY <2>1, <2>2 DEF Pointed
  <2>11. QED
    BY <2>1, <2>5, <2>6, <2>9, <2>10 DEF LaneInv, Prose, Untouched, Over
<1>6. QED
  BY <1>1, <1>2, <1>3, <1>4, <1>5

\* Pictures: what a specialist or a reader of drawings writes lands, and holds no section.
LEMMA PicturesKeep ==
  ASSUME Lane!LanesAssumption, LaneInv,
         Lane!Classify \/ Lane!Specialist \/ Lane!Transcribe \/ Lane!Components \/ Lane!Connections
  PROVE  LaneInv'
<1>1. CASE Lane!Classify
  <2>1. CASE Lane!Raise("classify")
    BY <2>1, RaiseKeeps
  <2>2. CASE ~ Lane!Raise("classify")
    <3>1. /\ pc = "classify" /\ pc' \in {"components", "chart", "nameplate", "ocr"}
          /\ UNCHANGED <<doc, nodes, edges, told, failed>>
      BY <1>1, <2>2 DEF Lane!Classify, Lane!GoTo
    <3>2. QED
      BY <3>1 DEF LaneInv, Prose, Untouched, Over
  <2>3. QED
    BY <2>1, <2>2
<1>2. CASE Lane!Transcribe
  <2>1. CASE Lane!Raise("ocr")
    BY <2>1, RaiseKeeps
  <2>2. CASE ~ Lane!Raise("ocr")
    <3>1. /\ pc = "ocr" /\ pc' = "shell"
          /\ UNCHANGED <<doc, nodes, edges, told, failed>>
      BY <1>2, <2>2 DEF Lane!Transcribe, Lane!GoTo
    <3>2. QED
      BY <3>1 DEF LaneInv, Prose, Untouched, Over
  <2>3. QED
    BY <2>1, <2>2
<1>3. CASE Lane!Specialist
  <2>1. /\ pc \in {"chart", "nameplate"} /\ nodes = {} /\ edges = {} /\ doc.wrong = {} /\ told = {}
        /\ doc.lane # "correction"
        /\ UNCHANGED <<doc, told, failed>>
    BY <1>3 DEF Lane!Specialist, Lane!GoTo, LaneInv, Untouched, Over
  <2>2. CASE pc' = "ocr" /\ UNCHANGED <<nodes, edges>>
    BY <2>1, <2>2 DEF LaneInv, Prose, Untouched, Over
  <2>3. ASSUME NEW tags, NEW ns, NEW es, pc' = "extracted",
               nodes' = ns \cup {<<"Document", Lane!This>>} \cup {Lane!TagNode(t) : t \in tags},
               edges' = es \cup {Lane!Mention(t) : t \in tags},
               \/ ns = {} /\ es = {}
               \/ ns = {<<"Chunk", Lane!Chunk(doc.id)>>} /\ es = {<<"PART_OF", Lane!Chunk(doc.id), Lane!This>>}
        PROVE  LaneInv'
    <3>1. \E n \in nodes' : n[2] = Lane!This
      <4>1. <<"Document", Lane!This>> \in nodes'
        BY <2>3
      <4>2. QED
        BY <4>1, NodeNames, Zenon
    <3>2. \A t \in tags : \E n \in nodes' : n[2] = Lane!Word(t)
      <4>1. \A t \in tags : Lane!TagNode(t) \in nodes'
        BY <2>3
      <4>2. QED
        BY <4>1, TagNames, Zenon
    <3>3. \A e \in es : (\E n \in nodes' : n[2] = e[2]) /\ (\E n \in nodes' : n[2] = e[3])
      <4>1. CASE es = {}
        BY <4>1
      <4>2. CASE ns = {<<"Chunk", Lane!Chunk(doc.id)>>} /\ es = {<<"PART_OF", Lane!Chunk(doc.id), Lane!This>>}
        <5>1. <<"Chunk", Lane!Chunk(doc.id)>> \in nodes'
          BY <2>3, <4>2
        <5>2. \E n \in nodes' : n[2] = Lane!Chunk(doc.id)
          BY <5>1, NodeNames, Zenon
        <5>3. QED
          BY <4>2, <5>2, <3>1
      <4>3. QED
        BY <2>3, <4>1, <4>2
    <3>4. \A e \in edges' : Lands(e)'
      BY <2>3, <3>1, <3>2, <3>3 DEF Lands, Lane!Mention
    <3>5. <<"Section", Lane!Section(doc.id)>> \notin nodes'
      BY <2>3 DEF Lane!TagNode
    <3>6. Pointed'
      BY <2>1 DEF Pointed
    <3>7. (<<"Section", Lane!Section(doc.id)>> \notin nodes)'
      BY <2>1, <3>5
    <3>8. QED
      BY <2>1, <2>3, <3>4, <3>6, <3>7 DEF LaneInv, Prose, Untouched, Over
  <2>4. CASE pc = "chart" /\ pc' = "extracted"
    <3>1. /\ nodes' = nodes \cup ({<<"Document", Lane!This>>, <<"Chunk", Lane!Chunk(doc.id)>>}
                                   \cup {Lane!TagNode(t) : t \in doc.named})
          /\ edges' = edges \cup ({<<"PART_OF", Lane!Chunk(doc.id), Lane!This>>}
                                   \cup {Lane!Mention(t) : t \in doc.named})
      BY <1>3, <2>4 DEF Lane!Specialist, Lane!Add, Lane!GoTo
    <3>2. /\ nodes' = {<<"Chunk", Lane!Chunk(doc.id)>>} \cup {<<"Document", Lane!This>>}
                        \cup {Lane!TagNode(t) : t \in doc.named}
          /\ edges' = {<<"PART_OF", Lane!Chunk(doc.id), Lane!This>>} \cup {Lane!Mention(t) : t \in doc.named}
      BY <2>1, <3>1
    <3>3. QED
      BY <2>3, <2>4, <3>2
  <2>5. CASE pc = "nameplate" /\ pc' = "extracted"
    <3>1. PICK plate \in {{}} \cup {{t} : t \in Tags} :
             Lane!Add({<<"Document", Lane!This>>} \cup {Lane!TagNode(t) : t \in plate},
                      {Lane!Mention(t) : t \in plate})
      BY <1>3, <2>5 DEF Lane!Specialist, Lane!GoTo
    <3>2. /\ nodes' = {} \cup {<<"Document", Lane!This>>} \cup {Lane!TagNode(t) : t \in plate}
          /\ edges' = {} \cup {Lane!Mention(t) : t \in plate}
      BY <2>1, <3>1 DEF Lane!Add
    <3>3. QED
      BY <2>3, <2>5, <3>2
  <2>6. QED
    BY <1>3, <2>1, <2>2, <2>4, <2>5 DEF Lane!Specialist, Lane!GoTo
<1>4. CASE Lane!Components
  <2>1. CASE Lane!Raise("components")
    BY <2>1, RaiseKeeps
  <2>2. CASE ~ Lane!Raise("components")
    <3>1. PICK listed \in SUBSET Lane!Words : \E called \in SUBSET listed :
             LET known == listed \cap Tags
             IN Lane!Add({IF t \in called THEN <<"Instrument", Lane!Word(t)>> ELSE Lane!TagNode(t) : t \in known}
                          \cup {<<"Document", Lane!This>>},
                        {Lane!Mention(t) : t \in known})
      BY <1>4, <2>2 DEF Lane!Components
    <3>2. PICK called \in SUBSET listed :
             Lane!Add({IF t \in called THEN <<"Instrument", Lane!Word(t)>> ELSE Lane!TagNode(t) : t \in listed \cap Tags}
                       \cup {<<"Document", Lane!This>>},
                      {Lane!Mention(t) : t \in listed \cap Tags})
      BY <3>1
    <3>3. /\ pc = "components" /\ pc' = "connections" /\ UNCHANGED <<doc, told, failed>>
          /\ nodes = {} /\ edges = {} /\ told = {}
          /\ doc.lane # "correction" /\ doc.wrong = {}
      BY <1>4, <2>2 DEF Lane!Components, Lane!GoTo, LaneInv, Untouched, Over
    <3>4. /\ nodes' = {IF t \in called THEN <<"Instrument", Lane!Word(t)>> ELSE Lane!TagNode(t) : t \in listed \cap Tags}
                       \cup {<<"Document", Lane!This>>}
          /\ edges' = {Lane!Mention(t) : t \in listed \cap Tags}
      BY <3>2, <3>3 DEF Lane!Add
    <3>5. \E n \in nodes' : n[2] = Lane!This
      <4>1. <<"Document", Lane!This>> \in nodes'
        BY <3>4
      <4>2. QED
        BY <4>1, NodeNames, Zenon
    <3>6. \A t \in listed \cap Tags : \E n \in nodes' : n[2] = Lane!Word(t)
      <4>1. \A t \in listed \cap Tags : <<"Instrument", Lane!Word(t)>> \in nodes' \/ Lane!TagNode(t) \in nodes'
        BY <3>4
      <4>2. QED
        BY <4>1, TagNames, NodeNames, Zenon
    <3>7. \A e \in edges' : Lands(e)'
      BY <3>4, <3>5, <3>6 DEF Lands, Lane!Mention
    <3>8. <<"Section", Lane!Section(doc.id)>> \notin nodes'
      BY <3>4 DEF Lane!TagNode
    <3>9. InHand' /\ (<<"Section", Lane!Section(doc.id)>> \notin nodes)'
      BY <3>3, <3>5, <3>8 DEF InHand, Lane!This
    <3>10. QED
      BY <3>3, <3>7, <3>9 DEF LaneInv, Prose, Untouched, Over
  <2>3. QED
    BY <2>1, <2>2
<1>5. CASE Lane!Connections
  <2>1. CASE Lane!Raise("connections")
    BY <2>1, RaiseKeeps
  <2>2. CASE ~ Lane!Raise("connections")
    <3> DEFINE known == {t \in Tags : Lane!Mention(t) \in edges}
    <3>1. PICK line \in {{}} \cup {{l} : l \in Lane!Words \X Lane!Words} :
             Lane!Add({}, {<<"CONNECTED_TO", Lane!Word(l[1]), Lane!Word(l[2])>> :
                             l \in {k \in line : k[1] # k[2] /\ {k[1], k[2]} \subseteq known}})
      BY <1>5, <2>2 DEF Lane!Connections
    <3>2. /\ pc = "connections" /\ pc' = "extracted" /\ UNCHANGED <<doc, told, failed>>
          /\ doc.lane # "correction" /\ doc.wrong = {}
          /\ (\A e \in edges \ Free : Lands(e)) /\ <<"Section", Lane!Section(doc.id)>> \notin nodes
      BY <1>5, <2>2 DEF Lane!Connections, Lane!GoTo, LaneInv, Prose, Over
    <3>3. \A e \in edges : Lands(e)
      BY <3>2 DEF Free
    <3>4. \A t \in known : \E n \in nodes : n[2] = Lane!Word(t)
      BY <3>3 DEF Lands, Lane!Mention
    <3>5. /\ nodes' = nodes
          /\ \A e \in edges' : e \in edges \/ \E t, u \in known : e = <<"CONNECTED_TO", Lane!Word(t), Lane!Word(u)>>
          /\ edges \subseteq edges'
      BY <3>1 DEF Lane!Add
    <3> HIDE DEF known
    <3>6. \A e \in edges' : Lands(e)'
      BY <3>3, <3>4, <3>5 DEF Lands
    <3>7. Pointed'
      BY <3>2 DEF Pointed
    <3>8. (<<"Section", Lane!Section(doc.id)>> \notin nodes)'
      BY <3>2, <3>5
    <3>9. QED
      BY <3>2, <3>5, <3>6, <3>7, <3>8 DEF LaneInv, Prose, Untouched, Over
  <2>3. QED
    BY <2>1, <2>2
<1>6. QED
  BY <1>1, <1>2, <1>3, <1>4, <1>5

\* Tables: both ends of a row's edge are in the row.
LEMMA TableKeeps ==
  ASSUME LaneInv, Lane!ParseTable
  PROVE  LaneInv'
<1>1. CASE Lane!Raise("mapping")
  BY <1>1, RaiseKeeps
<1>2. CASE ~ Lane!Raise("mapping")
  <2>1. /\ pc = "table" /\ pc' = "extracted" /\ UNCHANGED <<doc, told, failed>>
        /\ Lane!WorkOrders \/ Lane!Inspections
    BY <1>2 DEF Lane!ParseTable, Lane!GoTo
  <2>2. nodes = {} /\ edges = {} /\ told = {} /\ doc.lane # "correction" /\ doc.wrong = {}
    BY <2>1 DEF LaneInv, Untouched, Over
  <2>3. SUFFICES (\A e \in edges' : Lands(e)') /\ <<"Section", Lane!Section(doc.id)>> \notin nodes'
    <3>1. ASSUME \A e \in edges' : Lands(e)', <<"Section", Lane!Section(doc.id)>> \notin nodes'
          PROVE  LaneInv'
      <4>1. Pointed'
        BY <2>1, <2>2 DEF Pointed
      <4>2. (<<"Section", Lane!Section(doc.id)>> \notin nodes)'
        BY <2>1, <3>1
      <4>3. QED
        BY <2>1, <2>2, <3>1, <4>1, <4>2 DEF LaneInv, Prose, Untouched, Over
    <3>2. QED
      BY <3>1
  <2>4. CASE Lane!WorkOrders
    <3>1. PICK line :
            LET full == {r \in line : NoText \notin {r[1], r[2]}}
                coded == {r \in full : r[3] # NoText}
            IN Lane!Add({<<"Document", Lane!This>>} \cup {<<"WorkOrder", Lane!Word(r[1])>> : r \in full}
                 \cup {<<"Equipment", Lane!Word(r[2])>> : r \in full} \cup {<<"FailureMode", Lane!Word(r[3])>> : r \in coded},
               {<<"MENTIONED_IN", Lane!Word(r[2]), Lane!Word(r[1])>> : r \in full}
                 \cup {<<"MENTIONED_IN", Lane!Word(r[1]), Lane!This>> : r \in full}
                 \cup {<<"HAS_FAILURE", Lane!Word(r[2]), Lane!Word(r[3])>> : r \in coded})
      BY <2>4 DEF Lane!WorkOrders
    <3> DEFINE full == {r \in line : NoText \notin {r[1], r[2]}}
               coded == {r \in full : r[3] # NoText}
    <3>2. /\ nodes' = {<<"Document", Lane!This>>} \cup {<<"WorkOrder", Lane!Word(r[1])>> : r \in full}
                 \cup {<<"Equipment", Lane!Word(r[2])>> : r \in full} \cup {<<"FailureMode", Lane!Word(r[3])>> : r \in coded}
          /\ edges' = {<<"MENTIONED_IN", Lane!Word(r[2]), Lane!Word(r[1])>> : r \in full}
                 \cup {<<"MENTIONED_IN", Lane!Word(r[1]), Lane!This>> : r \in full}
                 \cup {<<"HAS_FAILURE", Lane!Word(r[2]), Lane!Word(r[3])>> : r \in coded}
      BY <3>1, <2>2 DEF Lane!Add
    <3>3. coded \subseteq full
      OBVIOUS
    <3> HIDE DEF full, coded
    <3>4. /\ <<"Document", Lane!This>> \in nodes'
          /\ \A r \in full : <<"WorkOrder", Lane!Word(r[1])>> \in nodes'
          /\ \A r \in full : <<"Equipment", Lane!Word(r[2])>> \in nodes'
          /\ \A r \in coded : <<"FailureMode", Lane!Word(r[3])>> \in nodes'
      BY <3>2
    <3>5. /\ \E n \in nodes' : n[2] = Lane!This
          /\ \A r \in full : \E n \in nodes' : n[2] = Lane!Word(r[1])
          /\ \A r \in full : \E n \in nodes' : n[2] = Lane!Word(r[2])
          /\ \A r \in coded : \E n \in nodes' : n[2] = Lane!Word(r[3])
      BY <3>4, NodeNames, Zenon
    <3>6. \A e \in edges' : Lands(e)'
      <4>1. \A r \in full : Lands(<<"MENTIONED_IN", Lane!Word(r[2]), Lane!Word(r[1])>>)'
        BY <3>5 DEF Lands
      <4>2. \A r \in full : Lands(<<"MENTIONED_IN", Lane!Word(r[1]), Lane!This>>)'
        <5>1. Lane!This' = Lane!This
          BY <2>1 DEF Lane!This
        <5>2. QED
          BY <3>5, <5>1 DEF Lands
      <4>3. \A r \in coded : Lands(<<"HAS_FAILURE", Lane!Word(r[2]), Lane!Word(r[3])>>)'
        BY <3>3, <3>5 DEF Lands
      <4>4. \A e \in edges' :
              \/ \E r \in full : e = <<"MENTIONED_IN", Lane!Word(r[2]), Lane!Word(r[1])>>
              \/ \E r \in full : e = <<"MENTIONED_IN", Lane!Word(r[1]), Lane!This>>
              \/ \E r \in coded : e = <<"HAS_FAILURE", Lane!Word(r[2]), Lane!Word(r[3])>>
        BY <3>2
      <4>5. Lane!This' = Lane!This
        BY <2>1 DEF Lane!This
      <4>6. QED
        BY <4>1, <4>2, <4>3, <4>4, <4>5
    <3>7. <<"Section", Lane!Section(doc.id)>> \notin nodes'
      BY <3>2
    <3>8. QED
      BY <3>6, <3>7
  <2>5. CASE Lane!Inspections
    <3>1. PICK line :
            LET full == {r \in line : r[1] # NoText}
                governed == {r \in full : r[2] # NoText}
            IN Lane!Add({<<"Document", Lane!This>>} \cup {<<"Equipment", Lane!Word(r[1])>> : r \in full}
                 \cup {<<"RegulationClause", Lane!Word(r[2])>> : r \in governed},
               {Lane!Mention(r[1]) : r \in full} \cup {<<"GOVERNED_BY", Lane!Word(r[1]), Lane!Word(r[2])>> : r \in governed})
      BY <2>5 DEF Lane!Inspections
    <3> DEFINE full == {r \in line : r[1] # NoText}
               governed == {r \in full : r[2] # NoText}
    <3>2. /\ nodes' = {<<"Document", Lane!This>>} \cup {<<"Equipment", Lane!Word(r[1])>> : r \in full}
                 \cup {<<"RegulationClause", Lane!Word(r[2])>> : r \in governed}
          /\ edges' = {Lane!Mention(r[1]) : r \in full}
                 \cup {<<"GOVERNED_BY", Lane!Word(r[1]), Lane!Word(r[2])>> : r \in governed}
      BY <3>1, <2>2 DEF Lane!Add
    <3>3. governed \subseteq full
      OBVIOUS
    <3> HIDE DEF full, governed
    <3>4. /\ <<"Document", Lane!This>> \in nodes'
          /\ \A r \in full : <<"Equipment", Lane!Word(r[1])>> \in nodes'
          /\ \A r \in governed : <<"RegulationClause", Lane!Word(r[2])>> \in nodes'
      BY <3>2
    <3>5. /\ \E n \in nodes' : n[2] = Lane!This
          /\ \A r \in full : \E n \in nodes' : n[2] = Lane!Word(r[1])
          /\ \A r \in governed : \E n \in nodes' : n[2] = Lane!Word(r[2])
      BY <3>4, NodeNames, Zenon
    <3>6. \A e \in edges' : Lands(e)'
      BY <3>2, <3>3, <3>5 DEF Lands, Lane!Mention
    <3>7. <<"Section", Lane!Section(doc.id)>> \notin nodes'
      BY <3>2
    <3>8. QED
      BY <3>6, <3>7
  <2>6. QED
    BY <2>1, <2>4, <2>5
<1>3. QED
  BY <1>1, <1>2

\* A correction: the documents it is about are nodes of it, and so is the correction itself.
LEMMA CorrectKeeps ==
  ASSUME LaneInv, Lane!Correct
  PROVE  LaneInv'
<1>1. PICK things, facts :
        /\ Lane!Add(Lane!MistakeRecord.nodes \cup {<<x[1], Lane!Word(x[2])>> : x \in things},
                    Lane!MistakeRecord.edges \cup facts)
        /\ told' = facts
        /\ things \in {{}} \cup {{x} : x \in Lane!FactTypes \X Lane!Words}
  BY DEF Lane!Correct
<1>2. /\ pc = "correction" /\ pc' = "extracted" /\ UNCHANGED <<doc, failed>>
      /\ nodes = {} /\ edges = {}
  BY DEF Lane!Correct, Lane!GoTo, LaneInv, Untouched
<1>3. /\ \A d \in doc.wrong : <<"Document", Lane!Doc(d)>> \in nodes' /\ <<"Document", Lane!This>> \in nodes'
      /\ \A d \in doc.wrong : <<"CORRECTED_BY", Lane!Doc(d), Lane!This>> \in edges'
      /\ \A e \in edges' : e \in facts \/ \E d \in doc.wrong : e = <<"CORRECTED_BY", Lane!Doc(d), Lane!This>>
      /\ facts \subseteq edges'
  <2>1. CASE doc.wrong = {}
    BY <1>1, <1>2, <2>1 DEF Lane!Add, Lane!MistakeRecord
  <2>2. CASE doc.wrong # {}
    BY <1>1, <1>2, <2>2 DEF Lane!Add, Lane!MistakeRecord, Lane!This
  <2>3. QED
    BY <2>1, <2>2
<1>4. \A d \in doc.wrong : (\E n \in nodes' : n[2] = Lane!Doc(d)) /\ (\E n \in nodes' : n[2] = Lane!This)
  BY <1>3, NodeNames, Zenon
<1>5. \A d \in doc.wrong : Lands(<<"CORRECTED_BY", Lane!Doc(d), Lane!This>>)'
  <2>1. TAKE d \in doc.wrong
  <2>2. /\ <<"CORRECTED_BY", Lane!Doc(d), Lane!This>>[2] = Lane!Doc(d)
        /\ <<"CORRECTED_BY", Lane!Doc(d), Lane!This>>[3] = Lane!This
    OBVIOUS
  <2>3. Lane!This' = Lane!This
    BY <1>2 DEF Lane!This
  <2>4. QED
    BY <1>4, <2>2, <2>3 DEF Lands
<1>6. Pointed'
  BY <1>2, <1>3, <1>5 DEF Pointed, Lane!This
<1>7. \A e \in (edges \ Free)' : Lands(e)'
  <2>1. CASE doc.lane = "correction"
    <3>1. Lane!This' = Lane!This /\ Free' = facts
      BY <1>1, <1>2, <2>1 DEF Lane!This, Free
    <3>2. QED
      BY <1>3, <1>5, <3>1 DEF Lands
  <2>2. CASE doc.lane # "correction"
    BY <1>2, <2>2 DEF LaneInv
  <2>3. QED
    BY <2>1, <2>2
<1>8. <<"Section", Lane!Section(doc.id)>> \notin nodes'
  <2>1. CASE doc.wrong = {}
    BY <1>1, <1>2, <2>1 DEF Lane!Add, Lane!MistakeRecord, Lane!FactTypes
  <2>2. CASE doc.wrong # {}
    BY <1>1, <1>2, <2>2 DEF Lane!Add, Lane!MistakeRecord, Lane!FactTypes
  <2>3. QED
    BY <2>1, <2>2
<1>9. (<<"Section", Lane!Section(doc.id)>> \notin nodes)'
  BY <1>2, <1>8
<1>10. doc.lane # "correction" => doc.wrong = {}
  BY DEF LaneInv
<1>11. QED
  BY <1>1, <1>2, <1>3, <1>6, <1>7, <1>9, <1>10 DEF LaneInv, Prose, Untouched, Over

LEMMA LandKeeps ==
  ASSUME LaneInv, Lane!Resolve \/ Lane!Land
  PROVE  LaneInv'
<1>1. CASE Lane!Resolve /\ Lane!Raise("resolve")
  BY <1>1, RaiseKeeps
<1>2. CASE Lane!Resolve /\ ~ Lane!Raise("resolve")
  <2>1. pc = "extracted" /\ pc' = "resolved" /\ UNCHANGED <<doc, nodes, edges, told, failed>>
    BY <1>2 DEF Lane!Resolve, Lane!GoTo
  <2>2. QED
    BY <2>1 DEF LaneInv, Prose, Untouched, Over, Lands, Free, Mentioned, Pointed, Lane!Mention, Lane!This
<1>3. CASE Lane!Land
  <2>1. /\ pc = "resolved" /\ pc' = "landed" /\ UNCHANGED <<doc, nodes, edges, told, failed>>
        /\ dropped' = {e \in edges : ~ {e[2], e[3]} \subseteq {n[2] : n \in nodes}}
    BY <1>3 DEF Lane!Land, Lane!GoTo
  <2>2. dropped' = Lost
    BY <2>1 DEF Lands, Lost
  <2>3. (dropped = Lost)'
    BY <2>1, <2>2 DEF Lands, Lost
  <2>4. QED
    BY <2>1, <2>3 DEF LaneInv, Prose, Untouched, Over, Lands, Free, Mentioned, Pointed, Lane!Mention, Lane!This
<1>4. QED
  BY <1>1, <1>2, <1>3

LEMMA LaneKeeps == Lane!LanesAssumption /\ LaneInv /\ [Lane!Next]_Lane!vars => LaneInv'
<1> SUFFICES ASSUME Lane!LanesAssumption, LaneInv, [Lane!Next]_Lane!vars
             PROVE  LaneInv'
  OBVIOUS
<1>1. CASE UNCHANGED Lane!vars
  <2>1. UNCHANGED <<doc, pc, nodes, edges, told, failed, dropped>>
    BY <1>1 DEF Lane!vars
  <2>2. /\ Free' = Free /\ (InHand' <=> InHand) /\ (Mentioned' <=> Mentioned)
        /\ \A e : Lands(e)' <=> Lands(e)
    BY <2>1 DEF InHand, Lands, Free, Mentioned, Lane!Mention, Lane!This
  <2>3. Pointed' <=> Pointed
    BY <2>1, <2>2 DEF Pointed, Lane!This
  <2>4. Lost' = Lost
    BY <2>1, <2>2 DEF Lost
  <2>5. Lane!This' = Lane!This
    BY <2>1 DEF Lane!This
  <2>6. (\A e \in edges \ Free : Lands(e))' <=> \A e \in edges \ Free : Lands(e)
    BY <2>1, <2>2
  <2>7. (\E n \in nodes : n[2] = Lane!Section(doc.id))' <=> \E n \in nodes : n[2] = Lane!Section(doc.id)
    BY <2>1
  <2>8. /\ Lane!Section(doc.id)' = Lane!Section(doc.id) /\ Lane!Chunk(doc.id)' = Lane!Chunk(doc.id)
        /\ (<<"Section", Lane!Section(doc.id)>> \in nodes)' <=> <<"Section", Lane!Section(doc.id)>> \in nodes
    BY <2>1
  <2>9. (pc = "embed" =>
          /\ InHand /\ \E n \in nodes : n[2] = Lane!Section(doc.id)
          /\ edges = {<<"PART_OF", Lane!Section(doc.id), Lane!This>>,
                      <<"PART_OF", Lane!Chunk(doc.id), Lane!Section(doc.id)>>})'
    BY <2>1, <2>2, <2>5, <2>7, <2>8 DEF LaneInv
  <2>10. (pc \in Prose \cup Over \cup {"connections"} => \A e \in edges \ Free : Lands(e))'
    BY <2>1, <2>6 DEF LaneInv, Prose, Over
  <2>11. (pc \in Prose \cup {"connections"} => InHand)'
    BY <2>1, <2>2 DEF LaneInv, Prose
  <2>12. (pc \in Over \cup {"relations"} => (<<"Section", Lane!Section(doc.id)>> \in nodes => Mentioned))'
    BY <2>1, <2>2, <2>8 DEF LaneInv, Over
  <2>13. (pc = "connections" => <<"Section", Lane!Section(doc.id)>> \notin nodes)'
    BY <2>1, <2>8 DEF LaneInv
  <2>14. (pc \in Over => Pointed)' /\ (pc = "landed" => dropped = Lost)'
    BY <2>1, <2>3, <2>4 DEF LaneInv, Over
  <2>15. QED
    BY <2>1, <2>9, <2>10, <2>11, <2>12, <2>13, <2>14 DEF LaneInv, Prose, Untouched, Over
<1>2. CASE Lane!Next
  BY <1>2, ReceiveKeeps, ProseKeeps, PicturesKeep, TableKeeps, CorrectKeeps, LandKeeps DEF Lane!Next
<1>3. QED
  BY <1>1, <1>2

\* Of a document that lands, nothing a lane read is lost at the write: every edge finds its ends
\* among the document's own nodes, but for a correction's free facts; the tags of its prose are
\* mentioned; every answer a correction is about points to it; and no call with a fallback
\* costs the document.
THEOREM LanesLandWhole == Spec => []LandsWhole
<1> DEFINE Inv == stage = "lanes" => LaneInv
<1>1. Init => Inv
  BY LaneInit DEF Init
<1>2. Inv /\ [Next]_vars => Inv'
  BY StageSteps, LaneKeeps, KnowledgeAssumption
<1>3. Inv => LandsWhole
  BY InvIsWhole DEF LandsWhole
<1>4. QED
  BY <1>1, <1>2, <1>3, PTL DEF Spec

-----------------------------------------------------------------------------
(* The answers: a corrected source that is listed is said to be *)

\* What a record tells.
IsRequest(r) == {"known", "fresh"} \subseteq DOMAIN r
IsPrepared(r) == {"evidence", "shown", "corrections"} \subseteq DOMAIN r

\* The corrections of what is listed were looked up after the question was asked.
AskerInv(a) ==
    /\ IsRequest(request[a]) /\ IsPrepared(found[a])
    /\ request[a].known \subseteq corrected
    /\ pc[a] \in {"look", "overrule", "answer"} => ~request[a].fresh
    /\ pc[a] = "answer" =>
          \A c \in request[a].known :
             c[1] \in Asking!DocsOf(found[a].evidence) => c \in found[a].corrections
    /\ Asking!Answered(a) =>
          \A c \in request[a].known : c[1] \in given[a].citations => c \in given[a].notes

AskInv ==
    /\ pc = [a \in Askers |-> pc[a]] /\ request = [a \in Askers |-> request[a]]
    /\ found = [a \in Askers |-> found[a]] /\ given = [a \in Askers |-> given[a]]
    /\ \A a \in Askers : AskerInv(a)

LEMMA FreshRequest ==
    ASSUME NEW r, IsRequest(r)
    PROVE  /\ IsRequest([r EXCEPT !.fresh = TRUE])
           /\ [r EXCEPT !.fresh = TRUE].known = r.known
  BY DEF IsRequest

LEMMA AskInit == Asking!Init => AskInv
<1> SUFFICES ASSUME Asking!Init PROVE AskInv
  OBVIOUS
<1>1. IsRequest(Asking!Nothing) /\ Asking!Nothing.known = {} /\ IsPrepared(Asking!Prepared)
  BY DEF IsRequest, IsPrepared, Asking!Nothing, Asking!Prepared
<1>2. ASSUME NEW a \in Askers PROVE AskerInv(a)
  BY <1>1 DEF Asking!Init, AskerInv, Asking!Answered
<1>3. QED
  BY <1>2 DEF AskInv, Asking!Init

\* Whom a step does not concern.
LEMMA OthersKeep ==
    ASSUME NEW a \in Askers, AskerInv(a), corrected \subseteq corrected',
           UNCHANGED <<pc[a], request[a], found[a], given[a]>>
    PROVE  AskerInv(a)'
  BY DEF AskerInv, IsRequest, IsPrepared, Asking!Answered, Asking!DocsOf

\* A step of one asker, who is left as it should be.
LEMMA OneKeeps ==
    ASSUME AskInv, NEW a \in Askers, NEW f, NEW g, NEW h, NEW k, corrected' = corrected,
           pc' = [pc EXCEPT ![a] = f], request' = [request EXCEPT ![a] = g],
           found' = [found EXCEPT ![a] = h], given' = [given EXCEPT ![a] = k],
           AskerInv(a)'
    PROVE  AskInv'
<1>1. ASSUME NEW b \in Askers PROVE AskerInv(b)'
  <2>1. CASE b = a
    BY <2>1
  <2>2. CASE b # a
    <3>1. UNCHANGED <<pc[b], request[b], found[b], given[b]>>
      BY <2>2 DEF AskInv
    <3>2. QED
      BY <3>1, OthersKeep DEF AskInv
  <2>3. QED
    BY <2>1, <2>2
<1>2. QED
  BY <1>1 DEF AskInv

LEMMA AskerKeeps ==
    ASSUME AskInv, NEW a \in Askers,
           \/ \E q \in Questions : Asking!Ask(a, q)
           \/ Asking!GiveCached(a) \/ Asking!Read(a) \/ Asking!Overrule(a) \/ Asking!Answer(a)
           \/ Asking!Put(a) \/ Asking!Fail(a)
    PROVE  AskInv'
<1>0. /\ a \in DOMAIN pc /\ a \in DOMAIN request /\ a \in DOMAIN found /\ a \in DOMAIN given
      /\ AskerInv(a)
  BY DEF AskInv
<1>a. /\ pc = [pc EXCEPT ![a] = pc[a]] /\ request = [request EXCEPT ![a] = request[a]]
      /\ found = [found EXCEPT ![a] = found[a]] /\ given = [given EXCEPT ![a] = given[a]]
  BY DEF AskInv
<1>1. ASSUME NEW q \in Questions, Asking!Ask(a, q) PROVE AskInv'
  <2>1. PICK standalone, plain, embedded :
           request' = [request EXCEPT ![a] = [q |-> standalone, plain |-> plain,
                          embedded |-> embedded, known |-> corrected, fresh |-> FALSE]]
    BY <1>1 DEF Asking!Ask
  <2>2. pc' = [pc EXCEPT ![a] = "look"] /\ UNCHANGED <<corrected, found, given>>
    BY <1>1 DEF Asking!Ask, Asking!Goto
  <2>3. /\ IsRequest(request'[a]) /\ request'[a].known = corrected /\ ~request'[a].fresh
        /\ pc'[a] = "look"
    BY <1>0, <2>1, <2>2 DEF IsRequest
  <2>4. AskerInv(a)'
    BY <1>0, <2>2, <2>3 DEF AskerInv, IsRequest, IsPrepared, Asking!Answered
  <2>5. QED
    BY <1>a, <2>1, <2>2, <2>4, OneKeeps
<1>2. CASE Asking!GiveCached(a)
  <2>1. /\ pc[a] = "look" /\ pc' = [pc EXCEPT ![a] = "idle"]
        /\ given' = [given EXCEPT ![a] = cache[request[a].q].answer]
        /\ UNCHANGED <<corrected, found, request>>
    BY <1>2 DEF Asking!GiveCached, Asking!Goto
  <2>2. AskerInv(a)'
    BY <1>0, <2>1 DEF AskerInv, IsRequest, IsPrepared, Asking!Answered
  <2>3. QED
    BY <1>a, <2>1, <2>2, OneKeeps
<1>3. CASE Asking!Read(a)
  <2>1. /\ pc[a] = "look" /\ pc' = [pc EXCEPT ![a] = "overrule"]
        /\ UNCHANGED <<corrected, request, given>>
    BY <1>3 DEF Asking!Read, Asking!Goto
  <2>2. PICK m, e, s : found' = [found EXCEPT ![a] =
                          [mode |-> m, evidence |-> e, shown |-> s, corrections |-> {}]]
    BY <1>3 DEF Asking!Read
  <2>3. IsPrepared(found'[a])
    BY <1>0, <2>2 DEF IsPrepared
  <2>4. AskerInv(a)'
    BY <1>0, <2>1, <2>3 DEF AskerInv, IsRequest, IsPrepared, Asking!Answered
  <2>5. QED
    BY <1>a, <2>1, <2>2, <2>4, OneKeeps
<1>4. CASE Asking!Overrule(a)
  <2> DEFINE fixes == Asking!CorrectionsOf(found[a].evidence)
             more == found[a].shown \cup UNION {{c[1], c[2]} : c \in fixes}
  <2>1. /\ pc[a] = "overrule" /\ pc' = [pc EXCEPT ![a] = "answer"]
        /\ UNCHANGED <<corrected, request, given>>
    BY <1>4 DEF Asking!Overrule, Asking!Goto
  <2> DEFINE new == [[found[a] EXCEPT !.corrections = fixes] EXCEPT !.shown = more]
  <2>2. found' = [found EXCEPT ![a].corrections = fixes, ![a].shown = more]
    BY <1>0, <1>4 DEF Asking!Overrule, AskerInv, IsPrepared
  <2> HIDE DEF fixes, more
  <2>3. found' = [found EXCEPT ![a] = new]
    BY <1>0, <2>2 DEF AskInv
  <2>4. /\ IsPrepared(found'[a]) /\ found'[a].evidence = found[a].evidence
        /\ found'[a].corrections = fixes
    <3>1. IsPrepared(new) /\ new.corrections = fixes /\ new.evidence = found[a].evidence
      <4> DEFINE r == found[a]
      <4>1. IsPrepared(r)
        BY <1>0 DEF AskerInv
      <4>2. new = [[r EXCEPT !.corrections = fixes] EXCEPT !.shown = more]
        OBVIOUS
      <4> HIDE DEF new, r
      <4>3. IsPrepared(new) /\ new.corrections = fixes /\ new.evidence = r.evidence
        BY ONLY <4>1, <4>2 DEF IsPrepared
      <4>4. QED
        BY <4>3 DEF r
    <3> HIDE DEF new
    <3>2. QED
      BY <1>0, <2>3, <3>1
  <2>5. \A c \in corrected : c[1] \in Asking!DocsOf(found[a].evidence) => c \in fixes
    BY DEF fixes, Asking!CorrectionsOf
  <2>6. \A c \in request[a].known : c[1] \in Asking!DocsOf(found'[a].evidence) => c \in fixes
    BY <1>0, <2>4, <2>5 DEF AskerInv
  <2>7. AskerInv(a)'
    BY <1>0, <2>1, <2>4, <2>6 DEF AskerInv, IsRequest, Asking!Answered, IsPrepared, Asking!DocsOf
  <2>8. QED
    BY <1>a, <2>1, <2>3, <2>7, OneKeeps
<1>5. CASE Asking!Answer(a)
  <2> DEFINE next == IF request[a].plain THEN "put" ELSE "idle"
             new == [request[a] EXCEPT !.fresh = TRUE]
  <2>1. /\ pc[a] = "answer" /\ UNCHANGED <<corrected, found>>
        /\ pc' = [pc EXCEPT ![a] = next] /\ request' = [request EXCEPT ![a] = new]
    BY <1>5 DEF Asking!Answer, Asking!Goto
  <2>2. PICK cited : given' = [given EXCEPT ![a] = Asking!Build(cited, found[a])]
    BY <1>5 DEF Asking!Answer
  <2>3. IsRequest(new) /\ new.known = request[a].known
    BY <1>0, FreshRequest DEF AskerInv
  <2>n. next \notin {"look", "overrule", "answer"}
    OBVIOUS
  <2> HIDE DEF new, next
  <2>4. IsRequest(request'[a]) /\ request'[a].known = request[a].known
    BY <1>0, <2>1, <2>3
  <2>5. /\ given'[a].citations = Asking!DocsOf(found[a].evidence) \cap cited
        /\ given'[a].notes = {c \in found[a].corrections : c[1] \in cited \/ c[2] \in cited}
    BY <1>0, <2>2 DEF Asking!Build
  <2>6. \A c \in request'[a].known : c[1] \in given'[a].citations => c \in given'[a].notes
    BY <1>0, <2>1, <2>4, <2>5 DEF AskerInv
  <2>7. pc'[a] \notin {"look", "overrule", "answer"}
    BY <1>0, <2>1, <2>n
  <2>8. AskerInv(a)'
    BY <1>0, <2>1, <2>4, <2>6, <2>7 DEF AskerInv, IsRequest, IsPrepared, Asking!Answered
  <2>9. QED
    BY <1>a, <2>1, <2>2, <2>8, OneKeeps
<1>6. CASE Asking!Put(a)
  <2>1. pc' = [pc EXCEPT ![a] = "idle"] /\ UNCHANGED <<corrected, found, request, given>>
    BY <1>6 DEF Asking!Put, Asking!Goto
  <2>2. AskerInv(a)'
    BY <1>0, <2>1 DEF AskerInv, IsRequest, IsPrepared, Asking!Answered
  <2>3. QED
    BY <1>a, <2>1, <2>2, OneKeeps
<1>7. CASE Asking!Fail(a)
  <2>1. /\ pc' = [pc EXCEPT ![a] = "idle"] /\ given' = [given EXCEPT ![a] = NoAnswer]
        /\ UNCHANGED <<corrected, found, request>>
    BY <1>7 DEF Asking!Fail, Asking!Goto
  <2>2. AskerInv(a)'
    BY <1>0, <2>1 DEF AskerInv, IsRequest, IsPrepared, Asking!Answered
  <2>3. QED
    BY <1>a, <2>1, <2>2, OneKeeps
<1>8. QED
  BY <1>1, <1>2, <1>3, <1>4, <1>5, <1>6, <1>7

LEMMA AskKeeps == AskInv /\ [Asking!Next]_Asking!vars => AskInv'
<1> SUFFICES ASSUME AskInv, [Asking!Next]_Asking!vars PROVE AskInv'
  OBVIOUS
<1>1. CASE Asking!Correct \/ Asking!Sweep \/ UNCHANGED Asking!vars
  <2>1. corrected \subseteq corrected' /\ UNCHANGED <<pc, request, found, given>>
    BY <1>1 DEF Asking!Correct, Asking!Sweep, Asking!vars
  <2>2. \A a \in Askers : AskerInv(a)'
    BY <2>1, OthersKeep DEF AskInv
  <2>3. QED
    BY <2>1, <2>2 DEF AskInv
<1>2. QED
  BY <1>1, AskerKeeps DEF Asking!Next

LEMMA AskSuffices == AskInv => Asking!CorrectionTold
  BY DEF AskInv, AskerInv, Asking!CorrectionTold

-----------------------------------------------------------------------------
(* The paths of an answer: what is left out is backed by something stronger *)

NoStronger(p, q) == ~ Paths!Exceeds(Paths!Score(p), Paths!Score(q))

\* A path that is kept stands for another: it shares too much with it and is no weaker.
StandsFor(p, q) == Paths!Overlaps(p, q) /\ NoStronger(p, q)

Weighed(p) ==
    \/ p \in todo
    \/ \E i \in DOMAIN kept : kept[i] = p
    \/ \E i \in DOMAIN kept : StandsFor(p, kept[i])

PruneInv ==
    /\ kept \in Seq(Paths!Candidates)
    /\ todo \subseteq Paths!Candidates
    /\ pruning \in {"find", "prune", "done"}
    /\ pruning = "find" => kept = <<>>
    /\ pruning # "find" => \A p \in Paths!Candidates : Weighed(p)
    /\ \A p \in todo : \A i \in DOMAIN kept : NoStronger(p, kept[i])
    /\ \A i, j \in DOMAIN kept : i # j => ~ Paths!Overlaps(kept[i], kept[j])
    /\ pruning = "done" => Len(kept) = TopK \/ todo = {}

LEMMA OverlapsBothWays == ASSUME NEW p, NEW q PROVE Paths!Overlaps(p, q) <=> Paths!Overlaps(q, p)
<1>1. Paths!Keys(p) \cap Paths!Keys(q) = Paths!Keys(q) \cap Paths!Keys(p)
  OBVIOUS
<1>2. {Paths!Cardinality(Paths!Keys(p)), Paths!Cardinality(Paths!Keys(q))} =
      {Paths!Cardinality(Paths!Keys(q)), Paths!Cardinality(Paths!Keys(p))}
  OBVIOUS
<1>3. QED
  BY <1>1, <1>2, Zenon DEF Paths!Overlaps

LEMMA PruneInit == Paths!Init => PruneInv
  BY DEF Paths!Init, PruneInv

\* The candidates are a function of the graph and the seeds.
LEMMA SameCandidates ==
    ASSUME UNCHANGED <<graph, seeds>> PROVE Paths!Candidates' = Paths!Candidates
  BY DEF Paths!Candidates, Paths!Surroundings, Paths!Outward, Paths!Between, Paths!Trails,
         Paths!Longer, Paths!Adjacent

LEMMA SameScores ==
    ASSUME UNCHANGED graph, NEW p PROVE Paths!Score(p)' = Paths!Score(p)
<1>1. \A e : Paths!Crossing(e)' = Paths!Crossing(e)
  BY DEF Paths!Crossing, Paths!Branching, Paths!Degree, Paths!Adjacent, Paths!Cardinality
<1>2. QED
  BY <1>1 DEF Paths!Score, Paths!FoldLeft, Paths!MapThenFoldSet

LEMMA PruneKeeps == PruneInv /\ [Paths!Next]_Paths!vars => PruneInv'
<1> SUFFICES ASSUME PruneInv, [Paths!Next]_Paths!vars PROVE PruneInv'
  OBVIOUS
<1>0. UNCHANGED <<graph, seeds>> => Paths!Candidates' = Paths!Candidates
  BY SameCandidates
<1>s. UNCHANGED graph => \A p : Paths!Score(p)' = Paths!Score(p)
  BY SameScores
<1>1. CASE Paths!Find
  <2>1. /\ pruning = "find" /\ pruning' = "prune" /\ kept = <<>> /\ kept' = <<>>
        /\ todo' = Paths!Candidates /\ Paths!Candidates' = Paths!Candidates
    BY <1>0, <1>1 DEF Paths!Find, PruneInv
  <2>2. QED
    BY <2>1 DEF PruneInv, Weighed
<1>2. CASE Paths!Prune
  <2>1. PICK path \in todo :
           /\ \A other \in todo : NoStronger(other, path)
           /\ todo' = todo \ {path}
           /\ kept' = IF Paths!Redundant(path) THEN kept ELSE Append(kept, path)
    BY <1>2 DEF Paths!Prune, NoStronger
  <2>2. /\ pruning = "prune" /\ pruning' = pruning /\ Paths!Candidates' = Paths!Candidates
        /\ todo' \subseteq todo /\ path \in Paths!Candidates
    BY <1>0, <1>2, <2>1 DEF Paths!Prune, PruneInv
  <2>s. UNCHANGED graph
    BY <1>2 DEF Paths!Prune
  <2>3. CASE Paths!Redundant(path)
    <3>1. PICK i \in DOMAIN kept : Paths!Overlaps(path, kept[i])
      BY <2>3 DEF Paths!Redundant
    <3>2. StandsFor(path, kept[i])
      BY <3>1 DEF StandsFor, PruneInv
    <3>3. kept' = kept
      BY <2>1, <2>3
    <3>4. ASSUME NEW p \in Paths!Candidates PROVE Weighed(p)'
      <4>1. Weighed(p)
        BY <2>2 DEF PruneInv
      <4>2. QED
        BY <1>s, <2>1, <2>s, <3>2, <3>3, <4>1 DEF Weighed, StandsFor, NoStronger, Paths!Exceeds
    <3>5. QED
      BY <1>s, <2>1, <2>2, <2>s, <3>3, <3>4 DEF PruneInv, NoStronger, Paths!Exceeds
  <2>4. CASE ~ Paths!Redundant(path)
    <3>1. kept' = Append(kept, path) /\ kept \in Seq(Paths!Candidates)
      BY <2>1, <2>4 DEF PruneInv
    <3>2. /\ kept' \in Seq(Paths!Candidates)
          /\ DOMAIN kept = 1..Len(kept) /\ Len(kept) \in Nat
          /\ DOMAIN kept' = 1..(Len(kept) + 1)
          /\ \A i \in DOMAIN kept : i \in DOMAIN kept' /\ kept'[i] = kept[i]
          /\ kept'[Len(kept) + 1] = path
      BY <2>2, <3>1
    <3>3. \A i \in DOMAIN kept' : i \in DOMAIN kept \/ (kept'[i] = path /\ i = Len(kept) + 1)
      BY <3>2
    <3>4. \A i \in DOMAIN kept : ~ Paths!Overlaps(path, kept[i]) /\ ~ Paths!Overlaps(kept[i], path)
      BY <2>4, OverlapsBothWays DEF Paths!Redundant
    <3>5. ASSUME NEW p \in Paths!Candidates PROVE Weighed(p)'
      <4>1. Weighed(p)
        BY <2>2 DEF PruneInv
      <4>2. p = path => \E i \in DOMAIN kept' : kept'[i] = p
        BY <3>2
      <4>3. QED
        BY <1>s, <2>1, <2>s, <3>2, <4>1, <4>2 DEF Weighed, StandsFor, NoStronger, Paths!Exceeds
    <3>6. ASSUME NEW p \in todo', NEW i \in DOMAIN kept' PROVE NoStronger(p, kept'[i])
      BY <2>1, <2>2, <3>2, <3>3 DEF PruneInv
    <3>7. ASSUME NEW i \in DOMAIN kept', NEW j \in DOMAIN kept', i # j
          PROVE ~ Paths!Overlaps(kept'[i], kept'[j])
      BY <3>2, <3>3, <3>4, <3>7 DEF PruneInv
    <3>8. QED
      BY <1>s, <2>2, <2>s, <3>2, <3>5, <3>6, <3>7 DEF PruneInv, NoStronger, Paths!Exceeds
  <2>5. QED
    BY <2>3, <2>4
<1>3. CASE Paths!Assemble
  BY <1>0, <1>s, <1>3 DEF Paths!Assemble, PruneInv, Weighed, StandsFor, NoStronger, Paths!Exceeds
<1>4. CASE UNCHANGED Paths!vars
  BY <1>0, <1>s, <1>4 DEF Paths!vars, PruneInv, Weighed, StandsFor, NoStronger, Paths!Exceeds
<1>5. QED
  BY <1>1, <1>2, <1>3, <1>4 DEF Paths!Next

LEMMA PruneSuffices == PruneInv => Paths!StrongestKept
<1> SUFFICES ASSUME PruneInv, pruning = "done" PROVE Paths!StrongestKept
  BY DEF Paths!StrongestKept
<1>1. ASSUME NEW p \in Paths!Missed
      PROVE \/ \E i \in DOMAIN kept : /\ Paths!Overlaps(p, kept[i])
                                      /\ ~ Paths!Exceeds(Paths!Score(p), Paths!Score(kept[i]))
            \/ Len(kept) = TopK
                 /\ \A i \in DOMAIN kept : ~ Paths!Exceeds(Paths!Score(p), Paths!Score(kept[i]))
  <2>1. p \in Paths!Candidates /\ ~ \E i \in DOMAIN kept : kept[i] = p
    BY DEF Paths!Missed, Paths!ToSet
  <2>2. Weighed(p)
    BY <2>1 DEF PruneInv
  <2>3. CASE p \in todo
    BY <2>3 DEF PruneInv, NoStronger
  <2>4. CASE \E i \in DOMAIN kept : StandsFor(p, kept[i])
    BY <2>4 DEF StandsFor, NoStronger
  <2>5. QED
    BY <2>1, <2>2, <2>3, <2>4 DEF Weighed
<1>2. QED
  BY <1>1 DEF Paths!StrongestKept, PruneInv

\* What an answer is made of, whatever the graph, the question and the corrections: a path
\* is left out only for one that overlaps it and is no weaker, or for as many as an answer
\* takes, no two that are kept overlap (FlowPruner), and an answer made afresh tells every
\* correction there was of a source it lists when the question came (corrections_of).
THEOREM RetrievalIsSound == Spec => []RetrievalSound
<1> DEFINE Inv == (stage = "prune" => PruneInv) /\ (stage = "ask" => AskInv)
<1>1. Init => Inv
  BY PruneInit, AskInit DEF Init
<1>2. Inv /\ [Next]_vars => Inv'
  BY StageSteps, PruneKeeps, AskKeeps
<1>3. Inv => RetrievalSound
  BY PruneSuffices, AskSuffices DEF RetrievalSound
<1>4. QED
  BY <1>1, <1>2, <1>3, PTL DEF Spec

-----------------------------------------------------------------------------
(* The connectors: a document behind the cursor was read *)

\* A pass has asked the source it is at, and has not moved its cursor yet.
Asked(w) == at[w] > 0 /\ last[w] # None

PullTypes ==
    /\ connectors \in Seq(UNION {{configured[i] : i \in DOMAIN configured} :
                                    configured \in Configurations})
    /\ \A i, j \in DOMAIN connectors : connectors[i].id = connectors[j].id => i = j
    /\ \A i \in DOMAIN connectors :
          connectors[i].kind \in {"folder", "bucket", "drive", "share", "mail"}
    /\ now \in Nat /\ modified \in [Files -> Nat] /\ cursor \in [DOMAIN connectors -> Nat]
    /\ at \in [Workers -> Nat] /\ \A w \in Workers : at[w] > 0 => at[w] \in DOMAIN connectors
    /\ listing \in [Workers -> SUBSET (Files \X Nat)] /\ last \in [Workers -> Nat \cup {None}]
    /\ owed \subseteq Files \X Nat

\* A version that is owed to the pipeline came there, or one as old did.
Came(e) == e \in submitted \cup failed \/ Pull!Twin(e)

\* Not in the listing, which has no younger version than it, nor has one been submitted.
LaterThanListed(w, e) ==
    /\ connectors[at[w]].kind # "folder" /\ last[w] < e[2]
    /\ \A x \in listing[w] : x[2] <= e[2] /\ x[1] # e[1]

\* What a pass that has asked does with the versions that are owed: those that came, or
\* will with the rest of the listing, or are left to a later pass.
UnderWay ==
    \A w \in Workers, e \in owed :
        (Asked(w) /\ modified[e[1]] = e[2] /\ Home(e[1]) = connectors[at[w]].id)
            => Came(e) \/ e \in listing[w] \/ LaterThanListed(w, e)

PullInv ==
    /\ PullTypes
    /\ \A w \in Workers : at[w] = 0 => last[w] = None
    /\ \A w \in Workers : listing[w] # {} => Asked(w)
    /\ \A e \in owed : 0 < e[2] /\ e[2] < now
    /\ \A w \in Workers : Asked(w) =>
          \A x \in listing[w] : Home(x[1]) = connectors[at[w]].id
    /\ UnderWay
    /\ Pull!NothingPassedOver

\* What a source lists is newer than its cursor; what it leaves out is not older.
LEMMA ListingsAre ==
    ASSUME PullTypes, NEW c \in DOMAIN connectors, NEW files \in Pull!Listings(c)
    PROVE  /\ files \subseteq Pull!Newer(c)
           /\ \A d \in Pull!Newer(c) \ files :
                 connectors[c].kind # "folder" /\ \A x \in files : modified[x] <= modified[d]
<1> USE DEF Pull!Newer, Pull!In
<1>1. CASE connectors[c].kind \in {"folder", "bucket"}
  <2>1. files = Pull!Newer(c)
    BY <1>1 DEF Pull!Listings
  <2>2. QED
    BY <2>1
<1>2. CASE connectors[c].kind = "drive"
  <2>1. files \in Pull!Oldest(Pull!Newer(c)) \cup {{}}
    BY <1>2 DEF Pull!Listings
  <2>2. QED
    BY <1>2, <2>1 DEF Pull!Oldest
<1>3. CASE connectors[c].kind \in {"share", "mail"}
  <2>1. files \in Pull!Kept(c) \cup {{}}
    BY <1>3 DEF Pull!Listings
  <2>2. QED
    BY <1>3, <2>1 DEF Pull!Kept, Pull!Oldest
<1>4. QED
  BY <1>1, <1>2, <1>3 DEF PullTypes

LEMMA PullInit == ASSUME Pull!ConnectorAssumption PROVE Pull!Init => PullInv
<1> SUFFICES ASSUME Pull!Init PROVE PullInv
  OBVIOUS
<1> USE DEF Pull!Init
<1>1. PICK configured \in Configurations : connectors = Pull!Load(configured)
  OBVIOUS
<1>2. /\ connectors \in Seq({configured[i] : i \in DOMAIN configured})
      /\ \A i, j \in DOMAIN connectors : connectors[i].id = connectors[j].id => i = j
      /\ \A i \in DOMAIN connectors :
            connectors[i].kind \in {"folder", "bucket", "drive", "share", "mail"}
  BY <1>1 DEF Pull!ConnectorAssumption
<1>3. connectors \in Seq(UNION {{conf[i] : i \in DOMAIN conf} : conf \in Configurations})
  <2>1. {configured[i] : i \in DOMAIN configured}
          \subseteq UNION {{conf[i] : i \in DOMAIN conf} : conf \in Configurations}
    OBVIOUS
  <2>2. QED
    BY <1>2, <2>1
<1>4. PullTypes
  BY <1>2, <1>3 DEF PullTypes
<1>5. QED
  BY <1>4 DEF PullInv, UnderWay, Asked, Pull!NothingPassedOver

\* What came stays, with whatever else comes.
LEMMA CameStays ==
    ASSUME submitted \subseteq submitted', failed \subseteq failed', NEW e, Came(e)
    PROVE  Came(e)'
  BY DEF Came, Pull!Twin

\* The places at which a document is looked for: one at most.
LEMMA OneHome ==
    ASSUME PullTypes, NEW c \in DOMAIN connectors, NEW d \in Pull!In(c),
           NEW k \in DOMAIN connectors, Home(d) = connectors[k].id
    PROVE  c = k
  BY DEF PullTypes, Pull!In

LEMMA BeginKeeps ==
    ASSUME PullInv, NEW w \in Workers, Pull!Begin(w)
    PROVE  PullInv'
<1> USE DEF PullInv
<1>0. listing' = listing /\ \A v \in Workers : listing'[v] # {} => Asked(v)'
  BY DEF Pull!Begin, Asked, PullTypes
<1>1. /\ at[w] = 0 /\ connectors # <<>> /\ at' = [at EXCEPT ![w] = 1]
      /\ UNCHANGED <<connectors, now, modified, cursor, listing, last, submitted, failed, faults>>
      /\ owed' = IF \A v \in Workers : at[v] = 0
                 THEN owed \cup {Pull!Entry(d) : d \in Pull!Settled} ELSE owed
  BY DEF Pull!Begin
<1>2. \A e \in owed' : \/ e \in owed
                       \/ (\A v \in Workers : at[v] = 0) /\ (\E d \in Pull!Settled : e = Pull!Entry(d))
  BY <1>1
<1>3. ASSUME NEW d \in Pull!Settled
      PROVE  /\ d \in Files /\ modified[d] \in Nat /\ modified[d] > 0 /\ modified[d] < now
             /\ \A c \in DOMAIN connectors : d \in Pull!In(c) => cursor[c] < modified[d]
  <2>1. PICK c \in DOMAIN connectors : d \in Pull!Newer(c)
    BY <1>3 DEF Pull!Settled
  <2>2. d \in Files /\ modified[d] < now
    BY <1>3 DEF Pull!Settled
  <2>3. modified[d] > 0 /\ modified[d] > cursor[c] /\ Home(d) = connectors[c].id
    BY <2>1 DEF Pull!Newer, Pull!In
  <2>4. \A k \in DOMAIN connectors : d \in Pull!In(k) => k = c
    BY <2>3, OneHome
  <2>5. modified[d] \in Nat /\ cursor[c] \in Nat
    BY <2>2 DEF PullTypes
  <2>6. QED
    BY <2>2, <2>3, <2>4, <2>5
<1>4. PullTypes'
  <2>1. 1 \in DOMAIN connectors
    BY <1>1 DEF PullTypes
  <2>2. owed' \subseteq Files \X Nat
    BY <1>2, <1>3 DEF PullTypes, Pull!Entry
  <2>3. at' \in [Workers -> Nat] /\ \A v \in Workers : at'[v] > 0 => at'[v] \in DOMAIN connectors
    BY <1>1, <2>1 DEF PullTypes
  <2>4. QED
    BY <1>1, <2>2, <2>3 DEF PullTypes
<1>5. at'[w] = 1 /\ last[w] = None /\ \A v \in Workers \ {w} : at'[v] = at[v]
  BY <1>1 DEF PullTypes
<1>6. \A v \in Workers : Asked(v)' => v # w /\ Asked(v)
  BY <1>1, <1>5 DEF Asked
<1>7. \A e \in owed' : 0 < e[2] /\ e[2] < now
  BY <1>2, <1>3 DEF Pull!Entry
<1>8. UnderWay'
  <2>1. SUFFICES ASSUME NEW v \in Workers, NEW e \in owed', Asked(v)', modified[e[1]] = e[2],
                        Home(e[1]) = connectors[at'[v]].id
                 PROVE  Came(e)' \/ e \in listing[v] \/ LaterThanListed(v, e)'
    BY <1>1 DEF UnderWay
  <2>2. v # w /\ Asked(v) /\ at'[v] = at[v]
    BY <1>5, <1>6, <2>1
  <2>3. e \in owed
    BY <1>2, <2>2 DEF Asked
  <2>4. Came(e) \/ e \in listing[v] \/ LaterThanListed(v, e)
    BY <2>1, <2>2, <2>3 DEF UnderWay
  <2>5. QED
    BY <1>1, <2>2, <2>4, CameStays DEF LaterThanListed
<1>9. Pull!NothingPassedOver'
  <2>1. SUFFICES ASSUME NEW c \in DOMAIN connectors, NEW e \in owed', e[1] \in Pull!In(c),
                        modified[e[1]] = e[2], cursor[c] >= e[2]
                 PROVE  Came(e)
    BY <1>1 DEF Pull!NothingPassedOver, Came, Pull!Twin, Pull!In
  <2>2. CASE e \in owed
    BY <2>1, <2>2 DEF Pull!NothingPassedOver, Came
  <2>3. ASSUME NEW d \in Pull!Settled, e = Pull!Entry(d) PROVE FALSE
    <3>1. e[1] = d /\ e[2] = modified[d]
      BY <2>3 DEF Pull!Entry
    <3>2. cursor[c] \in Nat /\ cursor[c] < modified[d] /\ modified[d] \in Nat
      BY <1>3, <2>1, <3>1 DEF PullTypes
    <3>3. QED
      BY <2>1, <3>1, <3>2
  <2>4. QED
    BY <1>2, <2>2, <2>3
<1>10. QED
  BY <1>0, <1>1, <1>4, <1>5, <1>6, <1>7, <1>8, <1>9

LEMMA FetchKeeps ==
    ASSUME None \notin Nat, PullInv, NEW w \in Workers, Pull!Fetch(w)
    PROVE  PullInv'
<1> USE DEF PullInv
<1>1. PICK files \in Pull!Listings(at[w]) :
         listing' = [listing EXCEPT ![w] = {Pull!Entry(d) : d \in files}]
  BY DEF Pull!Fetch
<1>2. /\ at[w] > 0 /\ last' = [last EXCEPT ![w] = 0] /\ at[w] \in DOMAIN connectors
      /\ UNCHANGED <<connectors, now, modified, cursor, at, submitted, failed, owed, faults>>
  BY DEF Pull!Fetch, PullTypes
<1>3. /\ files \subseteq Pull!Newer(at[w])
      /\ \A d \in Pull!Newer(at[w]) \ files :
            connectors[at[w]].kind # "folder" /\ \A x \in files : modified[x] <= modified[d]
  BY <1>2, ListingsAre
<1> DEFINE newest == {Pull!Entry(d) : d \in files}
<1>4. \A x \in newest : \E d \in files : x = <<d, modified[d]>> /\ d \in Files /\ modified[d] \in Nat
                            /\ Home(d) = connectors[at[w]].id
  BY <1>3 DEF Pull!Entry, Pull!Newer, Pull!In, PullTypes
<1>5. newest \in SUBSET (Files \X Nat) /\ \A x \in newest : Home(x[1]) = connectors[at[w]].id
  BY <1>4
<1>6. \A d \in files : <<d, modified[d]>> \in newest
  BY DEF Pull!Entry
<1>7. listing' = [listing EXCEPT ![w] = newest]
  BY <1>1
<1> HIDE DEF newest
<1>8. PullTypes'
  <2>1. listing' \in [Workers -> SUBSET (Files \X Nat)] /\ last' \in [Workers -> Nat \cup {None}]
    BY <1>2, <1>5, <1>7 DEF PullTypes
  <2>2. QED
    BY <1>2, <2>1 DEF PullTypes
<1>9. /\ listing'[w] = newest /\ last'[w] = 0
      /\ \A v \in Workers \ {w} : listing'[v] = listing[v] /\ last'[v] = last[v]
  BY <1>2, <1>7 DEF PullTypes
<1>10. /\ \A v \in Workers : at'[v] = 0 => last'[v] = None
       /\ \A v \in Workers : listing'[v] # {} => Asked(v)'
  BY <1>2, <1>9 DEF Asked
<1>11. \A v \in Workers : Asked(v)' => \A x \in listing'[v] : Home(x[1]) = connectors[at[v]].id
  BY <1>2, <1>5, <1>9 DEF Asked
<1>12. UnderWay'
  <2>1. SUFFICES ASSUME NEW v \in Workers, NEW e \in owed, Asked(v)', modified[e[1]] = e[2],
                        Home(e[1]) = connectors[at[v]].id
                 PROVE  Came(e) \/ e \in listing'[v] \/ LaterThanListed(v, e)'
    BY <1>2, CameStays DEF UnderWay
  <2>2. CASE v # w
    <3>1. Asked(v)
      BY <1>2, <1>9, <2>1, <2>2 DEF Asked
    <3>2. Came(e) \/ e \in listing[v] \/ LaterThanListed(v, e)
      BY <2>1, <3>1 DEF UnderWay
    <3>3. QED
      BY <1>2, <1>9, <2>2, <3>2 DEF LaterThanListed
  <2>3. CASE v = w
    <3>1. e = <<e[1], e[2]>> /\ e[1] \in Files /\ e[2] \in Nat /\ e[2] > 0
      BY DEF PullTypes
    <3>2. e[1] \in Pull!In(at[w])
      BY <2>1, <2>3, <3>1 DEF Pull!In
    <3>3. cursor[at[w]] \in Nat
      BY <1>2 DEF PullTypes
    <3>4. CASE cursor[at[w]] >= e[2]
      BY <1>2, <2>1, <3>2, <3>4 DEF Pull!NothingPassedOver, Came
    <3>5. CASE e[1] \in files
      BY <1>6, <1>9, <2>1, <2>3, <3>1, <3>5
    <3>6. CASE cursor[at[w]] < e[2] /\ e[1] \notin files
      <4>1. e[1] \in Pull!Newer(at[w]) \ files
        BY <2>1, <3>1, <3>2, <3>3, <3>6 DEF Pull!Newer
      <4>2. connectors[at[w]].kind # "folder" /\ \A x \in files : modified[x] <= e[2]
        BY <1>3, <2>1, <4>1
      <4>3. \A x \in newest : x[2] <= e[2] /\ x[1] # e[1]
        BY <1>4, <3>6, <4>2
      <4>4. QED
        BY <1>2, <1>9, <2>3, <3>1, <4>2, <4>3 DEF LaterThanListed
    <3>7. QED
      BY <3>1, <3>3, <3>4, <3>5, <3>6
  <2>4. QED
    BY <2>2, <2>3
<1>13. Pull!NothingPassedOver'
  BY <1>2 DEF Pull!NothingPassedOver, Pull!Twin, Pull!In
<1>14. QED
  BY <1>2, <1>8, <1>10, <1>11, <1>12, <1>13

\* The next of a listing is sent, or its download fails and it is passed over.
LEMMA EntryKeeps ==
    ASSUME None \notin Nat, PullInv, NEW w \in Workers, Asked(w), NEW x \in listing[w], Pull!NextEntry(w, x),
           listing' = [listing EXCEPT ![w] = @ \ {x}],
           UNCHANGED <<connectors, now, modified, cursor, at, owed>>,
           \/ /\ failed' = failed \cup {x} /\ UNCHANGED <<submitted, last>>
              /\ connectors[at[w]].kind # "folder"
           \/ \E version \in Files \X Nat :
                 /\ version = IF connectors[at[w]].kind = "folder" THEN Pull!Entry(x[1]) ELSE x
                 /\ submitted' = submitted \cup {version} /\ UNCHANGED failed
                 /\ last' = [last EXCEPT ![w] = version[2]]
    PROVE  PullInv'
<1> USE DEF PullInv
<1>1. /\ listing'[w] = listing[w] \ {x} /\ \A v \in Workers \ {w} : listing'[v] = listing[v]
      /\ listing' \in [Workers -> SUBSET (Files \X Nat)]
      /\ x \in Files \X Nat /\ x = <<x[1], x[2]>> /\ Home(x[1]) = connectors[at[w]].id
  BY DEF PullTypes
<1>2. last' \in [Workers -> Nat \cup {None}] /\ \A v \in Workers \ {w} : last'[v] = last[v]
  <2>1. last \in [Workers -> Nat \cup {None}]
    BY DEF PullTypes
  <2>2. last' = last \/ \E m \in Nat : last' = [last EXCEPT ![w] = m]
    OBVIOUS
  <2>3. QED
    BY <2>1, <2>2
<1>3. PullTypes'
  BY <1>1, <1>2 DEF PullTypes
<1>4. /\ \A v \in Workers : at'[v] = 0 => last'[v] = None
      /\ \A v \in Workers : listing'[v] # {} => Asked(v)'
  <2>1. last'[w] = last[w] \/ last'[w] \in Nat
    BY DEF PullTypes
  <2>2. Asked(w)'
    BY <2>1 DEF Asked
  <2>3. QED
    BY <1>1, <1>2, <2>2 DEF Asked
<1>5. \A v \in Workers : Asked(v)' => Asked(v)
  BY <1>2 DEF Asked
<1>6. \A v \in Workers : Asked(v)' => \A y \in listing'[v] : Home(y[1]) = connectors[at[v]].id
  BY <1>1, <1>5
<1>7. \A e : Came(e) => Came(e)'
  BY CameStays
<1>8. UnderWay'
  <2>1. SUFFICES ASSUME NEW v \in Workers, NEW e \in owed, Asked(v), modified[e[1]] = e[2],
                        Home(e[1]) = connectors[at[v]].id
                 PROVE  Came(e)' \/ e \in listing'[v] \/ LaterThanListed(v, e)'
    BY <1>5 DEF UnderWay
  <2>2. Came(e) \/ e \in listing[v] \/ LaterThanListed(v, e)
    BY <2>1 DEF UnderWay
  <2>3. CASE Came(e)
    BY <1>7, <2>3
  <2>4. CASE v # w
    BY <1>1, <1>2, <1>7, <2>2, <2>4 DEF LaterThanListed
  <2>5. CASE v = w /\ e \in listing[v]
    <3>1. CASE e = x
      <4>1. e \in submitted' \cup failed'
        BY <1>1, <2>1, <3>1 DEF Pull!Entry
      <4>2. QED
        BY <4>1 DEF Came
    <3>2. CASE e # x
      BY <1>1, <2>5, <3>2
    <3>3. QED
      BY <3>1, <3>2
  <2>6. CASE v = w /\ LaterThanListed(w, e)
    <3>1. /\ connectors[at[w]].kind # "folder" /\ last[w] < e[2]
          /\ x[2] <= e[2] /\ x[1] # e[1] /\ \A y \in listing'[w] : y[2] <= e[2] /\ y[1] # e[1]
      BY <1>1, <2>6 DEF LaterThanListed
    <3>2. CASE last'[w] < e[2]
      BY <2>6, <3>1, <3>2 DEF LaterThanListed
    <3>3. CASE ~(last'[w] < e[2])
      <4>1. submitted' = submitted \cup {x} /\ last'[w] = x[2]
        BY <3>1, <3>3 DEF PullTypes
      <4>2. x[2] = e[2]
        BY <1>1, <3>1, <3>3, <4>1 DEF PullTypes
      <4>3. Came(e)'
        BY <1>1, <2>1, <2>6, <3>1, <4>1, <4>2 DEF Came, Pull!Twin
      <4>4. QED
        BY <4>3
    <3>4. QED
      BY <3>2, <3>3
  <2>7. QED
    BY <2>2, <2>3, <2>4, <2>5, <2>6
<1>9. Pull!NothingPassedOver'
  <2>1. SUFFICES ASSUME NEW c \in DOMAIN connectors, NEW e \in owed, e[1] \in Pull!In(c),
                        modified[e[1]] = e[2], cursor[c] >= e[2]
                 PROVE  Came(e)'
    BY DEF Pull!NothingPassedOver, Came, Pull!Twin, Pull!In
  <2>2. Came(e)
    BY <2>1 DEF Pull!NothingPassedOver, Came
  <2>3. QED
    BY <1>7, <2>2
<1>10. \A e \in owed' : 0 < e[2] /\ e[2] < now'
  OBVIOUS
<1>11. \A v \in Workers : Asked(v)' => \A y \in listing'[v] : Home(y[1]) = connectors'[at'[v]].id
  BY <1>6
<1>12. QED
  BY <1>3, <1>4, <1>8, <1>9, <1>10, <1>11

LEMMA SubmitKeeps ==
    ASSUME None \notin Nat, PullInv, NEW w \in Workers, Pull!Submit(w)
    PROVE  PullInv'
<1>1. PICK x \in listing[w] :
         /\ Pull!NextEntry(w, x) /\ listing' = [listing EXCEPT ![w] = @ \ {x}]
         /\ UNCHANGED <<connectors, now, modified, cursor, at, failed, owed, faults>>
         /\ LET version == IF connectors[at[w]].kind = "folder" THEN Pull!Entry(x[1]) ELSE x
            IN submitted' = submitted \cup {version} /\ last' = [last EXCEPT ![w] = version[2]]
  BY DEF Pull!Submit
<1>2. Asked(w)
  BY DEF PullInv
<1>3. x \in Files \X Nat /\ Pull!Entry(x[1]) \in Files \X Nat
  BY DEF PullInv, PullTypes, Pull!Entry
<1>4. QED
  BY <1>1, <1>2, <1>3, EntryKeeps

LEMMA FailureKeeps ==
    ASSUME None \notin Nat, PullInv, NEW w \in Workers, Pull!DownloadFails(w)
    PROVE  PullInv'
<1>1. PICK x \in listing[w] :
         /\ Pull!NextEntry(w, x) /\ connectors[at[w]].kind \in {"drive", "share"}
         /\ failed' = failed \cup {x} /\ listing' = [listing EXCEPT ![w] = @ \ {x}]
         /\ UNCHANGED <<connectors, now, modified, cursor, at, last, submitted, owed>>
  BY DEF Pull!DownloadFails
<1>2. Asked(w)
  BY DEF PullInv
<1>3. QED
  BY <1>1, <1>2, EntryKeeps

\* A pass leaves its source, with its cursor moved or as it was.
LEMMA LeaveKeeps ==
    ASSUME PullInv, NEW w \in Workers,
           UNCHANGED <<connectors, now, modified, submitted, failed, owed>>,
           NEW c \in {0} \cup DOMAIN connectors, at' = [at EXCEPT ![w] = c],
           last' = [last EXCEPT ![w] = None],
           listing' = [listing EXCEPT ![w] = {}],
           \/ cursor' = cursor
           \/ /\ Asked(w) /\ listing[w] = {} /\ last[w] # 0
              /\ cursor' = [cursor EXCEPT ![at[w]] = last[w]]
    PROVE  PullInv'
<1> USE DEF PullInv
<1>1. /\ at'[w] = c /\ last'[w] = None /\ listing'[w] = {} /\ c \in Nat
      /\ \A v \in Workers \ {w} : at'[v] = at[v] /\ last'[v] = last[v] /\ listing'[v] = listing[v]
  BY DEF PullTypes
<1>2. PullTypes'
  <2>1. cursor' \in [DOMAIN connectors -> Nat]
    BY DEF PullTypes, Asked
  <2>2. /\ at' \in [Workers -> Nat] /\ listing' \in [Workers -> SUBSET (Files \X Nat)]
        /\ last' \in [Workers -> Nat \cup {None}]
        /\ \A v \in Workers : at'[v] > 0 => at'[v] \in DOMAIN connectors
    BY <1>1 DEF PullTypes
  <2>3. QED
    BY <2>1, <2>2 DEF PullTypes
<1>3. \A v \in Workers : Asked(v)' => v # w /\ Asked(v) /\ at'[v] = at[v]
  BY <1>1 DEF Asked
<1>4. /\ \A v \in Workers : at'[v] = 0 => last'[v] = None
      /\ \A v \in Workers : listing'[v] # {} => Asked(v)'
      /\ \A v \in Workers : Asked(v)' => \A x \in listing'[v] : Home(x[1]) = connectors[at'[v]].id
  BY <1>1, <1>3 DEF Asked
<1>5. UnderWay'
  <2>1. SUFFICES ASSUME NEW v \in Workers, NEW e \in owed, v # w, Asked(v), at'[v] = at[v],
                        modified[e[1]] = e[2], Home(e[1]) = connectors[at[v]].id
                 PROVE  Came(e) \/ e \in listing'[v] \/ LaterThanListed(v, e)'
    BY <1>3, CameStays DEF UnderWay
  <2>2. Came(e) \/ e \in listing[v] \/ LaterThanListed(v, e)
    BY <2>1 DEF UnderWay
  <2>3. QED
    BY <1>1, <2>1, <2>2 DEF LaterThanListed
<1>6. Pull!NothingPassedOver'
  <2>1. SUFFICES ASSUME NEW k \in DOMAIN connectors, NEW e \in owed, e[1] \in Pull!In(k),
                        modified[e[1]] = e[2], cursor'[k] >= e[2]
                 PROVE  Came(e)
    BY DEF Pull!NothingPassedOver, Came, Pull!Twin, Pull!In
  <2>2. CASE cursor'[k] = cursor[k]
    BY <2>1, <2>2 DEF Pull!NothingPassedOver, Came
  <2>3. CASE cursor'[k] # cursor[k]
    <3>1. Asked(w) /\ listing[w] = {} /\ k = at[w] /\ cursor'[k] = last[w] /\ last[w] \in Nat
      BY <2>3 DEF PullTypes, Asked
    <3>2. Home(e[1]) = connectors[at[w]].id
      BY <2>1, <3>1 DEF Pull!In
    <3>3. Came(e) \/ LaterThanListed(w, e)
      BY <2>1, <3>1, <3>2 DEF UnderWay
    <3>4. ~LaterThanListed(w, e)
      BY <2>1, <3>1 DEF LaterThanListed, PullTypes
    <3>5. QED
      BY <3>3, <3>4
  <2>4. QED
    BY <2>2, <2>3
<1>7. QED
  BY <1>2, <1>4, <1>5, <1>6

LEMMA LeavingKeeps ==
    ASSUME PullInv, NEW w \in Workers, Pull!SetCursor(w) \/ Pull!PassFails(w)
    PROVE  PullInv'
<1>1. CASE Pull!SetCursor(w)
  <2>1. /\ Asked(w) /\ listing[w] = {} /\ at[w] \in DOMAIN connectors
        /\ UNCHANGED <<connectors, now, modified, listing, submitted, failed, owed>>
        /\ last' = [last EXCEPT ![w] = None]
        /\ cursor' = [cursor EXCEPT ![at[w]] = IF last[w] = 0 THEN @ ELSE last[w]]
    BY <1>1 DEF Pull!SetCursor, Asked, PullInv, PullTypes
  <2>2. PICK c \in {0} \cup DOMAIN connectors : at' = [at EXCEPT ![w] = c]
    <3>1. at' = [at EXCEPT ![w] = IF at[w] = Len(connectors) THEN 0 ELSE at[w] + 1]
      BY <1>1 DEF Pull!SetCursor, PullInv, PullTypes
    <3>2. DOMAIN connectors = 1..Len(connectors) /\ Len(connectors) \in Nat
      BY DEF PullInv, PullTypes
    <3>3. (IF at[w] = Len(connectors) THEN 0 ELSE at[w] + 1) \in {0} \cup DOMAIN connectors
      BY <2>1, <3>2
    <3>4. QED
      BY <3>1, <3>3
  <2>3. listing' = [listing EXCEPT ![w] = {}]
    BY <2>1 DEF PullInv, PullTypes
  <2>4. cursor' = cursor \/ (last[w] # 0 /\ cursor' = [cursor EXCEPT ![at[w]] = last[w]])
    BY <2>1 DEF PullInv, PullTypes
  <2>5. QED
    BY <2>1, <2>2, <2>3, <2>4, LeaveKeeps
<1>2. CASE Pull!PassFails(w)
  BY <1>2, LeaveKeeps DEF Pull!PassFails
<1>3. QED
  BY <1>1, <1>2

\* A document that is modified is no longer the version that was owed.
LEMMA WorldKeeps ==
    ASSUME PullInv, Pull!Modify \/ Pull!Wait
    PROVE  PullInv'
<1> USE DEF PullInv, Pull!pass
<1>1. /\ UNCHANGED <<connectors, cursor, at, listing, last, submitted, failed, owed>>
      /\ now' \in Nat /\ now' >= now
      /\ \/ modified' = modified
         \/ \E d \in Files : modified' = [modified EXCEPT ![d] = now]
  BY DEF Pull!Modify, Pull!Wait, PullTypes
<1>2. PullTypes'
  <2>1. modified' \in [Files -> Nat]
    BY <1>1 DEF PullTypes
  <2>2. QED
    BY <1>1, <2>1 DEF PullTypes
<1>3. \A e \in owed : /\ e[1] \in Files /\ e[2] \in Nat /\ e[2] < now
                      /\ modified'[e[1]] = e[2] => modified[e[1]] = e[2]
  BY <1>1 DEF PullTypes
<1>4. \A e \in owed : 0 < e[2] /\ e[2] < now'
  BY <1>1, <1>3 DEF PullTypes
<1>5. UnderWay'
  BY <1>1, <1>3 DEF UnderWay, Asked, Came, Pull!Twin, LaterThanListed
<1>6. Pull!NothingPassedOver'
  <2>1. \A c \in DOMAIN connectors, e \in owed :
           e[1] \in Pull!In(c)' /\ modified'[e[1]] = e[2] => e[1] \in Pull!In(c)
    BY <1>1, <1>3 DEF Pull!In
  <2>2. QED
    BY <1>1, <1>3, <2>1 DEF Pull!NothingPassedOver, Pull!Twin
<1>7. QED
  BY <1>1, <1>2, <1>4, <1>5, <1>6 DEF Asked

LEMMA PullKeeps ==
    ASSUME Pull!ConnectorAssumption, PullInv, [Pull!Next]_(Pull!vars)
    PROVE  PullInv'
<1>1. None \notin Nat
  BY DEF Pull!ConnectorAssumption
<1>2. CASE UNCHANGED Pull!vars
  BY <1>2 DEF Pull!vars, PullInv, PullTypes, UnderWay, Asked, Came, Pull!Twin, LaterThanListed,
              Pull!NothingPassedOver, Pull!In
<1>3. QED
  BY <1>1, <1>2, BeginKeeps, FetchKeeps, SubmitKeeps, FailureKeeps, LeavingKeeps, WorldKeeps
  DEF Pull!Next, Pull!Sync

\* However passes overlap, whatever fails and whenever documents change: what was there
\* before a pass is behind its source's cursor only if it was read, or one as old was.
THEOREM SyncPassesNothingOver == Spec => []NothingPassedOver
<1> DEFINE Inv == stage = "sync" => PullInv
<1>1. Init => Inv
  BY PullInit, KnowledgeAssumption DEF Init
<1>2. Inv /\ [Next]_vars => Inv'
  BY StageSteps, PullKeeps, KnowledgeAssumption
<1>3. Inv => NothingPassedOver
  BY DEF PullInv, NothingPassedOver
<1>4. QED
  BY <1>1, <1>2, <1>3, PTL DEF Spec

-----------------------------------------------------------------------------
(* The denoiser: no record of a failure is lost, no corrected equipment deleted *)

\* The more was merged, the further a mode leads.
LEMMA LeadsOn ==
    ASSUME NEW m, NEW c, NEW merged, NEW more, merged \subseteq more,
           Merge!Leads(m, c, merged)
    PROVE  Merge!Leads(m, c, more)
  BY DEF Merge!Leads

\* A record of an equipment, under a provenance, still hangs from where its mode leads to.
Hangs(r, records, merged) ==
    \E t \in records : t[1] = r[1] /\ t[3] = r[3] /\ Merge!Leads(r[2], t[2], merged)

LEMMA TracedInit == Merge!Init => Merge!RecordsTraced /\ corrected \subseteq nodes
  BY DEF Merge!Init, Merge!RecordsTraced

LEMMA TracedKeeps ==
    Merge!RecordsTraced /\ [Merge!Next]_Merge!vars => Merge!RecordsTraced'
<1> SUFFICES ASSUME Merge!RecordsTraced, [Merge!Next]_Merge!vars
             PROVE  \A r \in told' : Hangs(r, edges', trail' \cup cut')
  BY DEF Merge!RecordsTraced, Hangs, Merge!Leads
<1>0. \A r \in told : Hangs(r, edges, trail \cup cut)
  BY DEF Merge!RecordsTraced, Hangs
<1>1. CASE UNCHANGED <<edges, told, trail, cut>>
  BY <1>0, <1>1
<1>2. ASSUME NEW e \in Equipment, NEW m \in Modes, NEW p \in Provenances, Merge!WriteRecord(e, m, p)
      PROVE  \A r \in told' : Hangs(r, edges', trail' \cup cut')
  <2>1. /\ edges' = edges \cup {<<e, m, p>>} /\ told' = told \cup {<<e, m, p>>}
        /\ UNCHANGED <<trail, cut>>
    BY <1>2 DEF Merge!WriteRecord
  <2>2. Hangs(<<e, m, p>>, edges', trail \cup cut)
    BY <2>1 DEF Hangs, Merge!Leads
  <2>3. \A r \in told : Hangs(r, edges', trail \cup cut)
    BY <1>0, <2>1 DEF Hangs
  <2>4. QED
    BY <2>1, <2>2, <2>3
<1>3. CASE Merge!Prune
  <2>1. PICK row \in rows :
           LET gone == IF Merge!Spared(row[1]) THEN {} ELSE {row[1]}
           IN  /\ edges' = {r \in edges : r[1] \notin gone}
               /\ told' = {r \in told : r[1] \notin gone}
    BY <1>3 DEF Merge!Prune
  <2>2. UNCHANGED <<trail, cut>>
    BY <1>3 DEF Merge!Prune
  <2>3. QED
    BY <1>0, <2>1, <2>2 DEF Hangs
<1>4. CASE Merge!MoveEdges
  <2> DEFINE g == Head(groups)
  <2>1. /\ edges' = {Merge!Moved(t, g) : t \in edges}
        /\ cut' = cut \cup Merge!Trailed(g) /\ UNCHANGED <<told, trail>>
    BY <1>4 DEF Merge!MoveEdges
  <2> HIDE DEF g
  <2>2. ASSUME NEW r \in told PROVE Hangs(r, edges', trail' \cup cut')
    <3>1. PICK t \in edges : t[1] = r[1] /\ t[3] = r[3] /\ Merge!Leads(r[2], t[2], trail \cup cut)
      BY <1>0 DEF Hangs
    <3>2. Merge!Leads(r[2], t[2], trail' \cup cut')
      BY <2>1, <3>1, LeadsOn
    <3>3. Merge!Moved(t, g) \in edges'
      BY <2>1
    <3>4. CASE t[2] \in g.variants
      <4>1. Merge!Moved(t, g) = <<t[1], g.canonical, t[3]>>
        BY <3>4 DEF Merge!Moved
      <4>2. <<t[2], g.canonical>> \in trail' \cup cut'
        BY <2>1, <3>4 DEF Merge!Trailed
      <4>3. Merge!Leads(r[2], g.canonical, trail' \cup cut')
        BY <3>2, <4>2 DEF Merge!Leads
      <4>4. QED
        BY <3>1, <3>3, <4>1, <4>3 DEF Hangs
    <3>5. CASE t[2] \notin g.variants
      BY <3>1, <3>2, <3>3, <3>5 DEF Hangs, Merge!Moved
    <3>6. QED
      BY <3>4, <3>5
  <2>3. QED
    BY <2>1, <2>2
<1>5. CASE Merge!MarkSuperseded
  <2>1. trail \cup cut \subseteq trail' \cup cut' /\ UNCHANGED <<edges, told>>
    BY <1>5 DEF Merge!MarkSuperseded
  <2>2. QED
    BY <1>0, <2>1, LeadsOn DEF Hangs
<1>6. CASE \/ \E e \in Equipment : Merge!WriteCorrection(e)
           \/ Merge!Start \/ Merge!Snapshot \/ Merge!Reconcile \/ Merge!PassOver
           \/ Merge!LinkCauses \/ Merge!Finish \/ Merge!Skip \/ Merge!Lose
           \/ UNCHANGED Merge!vars
  <2>1. UNCHANGED <<edges, told, trail, cut>>
    BY <1>6 DEF Merge!WriteCorrection, Merge!Start, Merge!Snapshot, Merge!Reconcile,
         Merge!PassOver, Merge!LinkCauses, Merge!Finish, Merge!Skip, Merge!Lose,
         Merge!vars, Merge!graph
  <2>2. QED
    BY <1>1, <2>1
<1>7. QED
  BY <1>2, <1>3, <1>4, <1>5, <1>6 DEF Merge!Next

\* However plans overlap and whatever queries fail, every failure record written and not
\* pruned with its equipment hangs, under its own provenance, from its mode or from one
\* that mode was merged into (the merge queries of the denoiser).
THEOREM RecordsAreTraced == Spec => []RecordsTraced
<1>1. Init => RecordsTraced
  BY TracedInit DEF Init, RecordsTraced
<1>2. RecordsTraced /\ [Next]_vars => RecordsTraced'
  BY StageSteps, TracedKeeps DEF RecordsTraced
<1>3. QED
  BY <1>1, <1>2, PTL DEF Spec

LEMMA CorrectedKeeps ==
    ASSUME corrected \subseteq nodes, [Merge!Next]_Merge!vars
    PROVE  /\ (corrected \subseteq nodes)'
           /\ \A e \in corrected : e \in nodes' /\ e \in corrected'
<1>1. CASE Merge!Prune
  <2>1. PICK row \in rows :
           LET gone == IF Merge!Spared(row[1]) THEN {} ELSE {row[1]}
           IN  nodes' = nodes \ gone /\ corrected' = corrected \ gone
    BY <1>1 DEF Merge!Prune
  <2>2. QED
    BY <2>1 DEF Merge!Spared
<1>2. ASSUME NEW e \in Equipment, NEW m \in Modes, NEW p \in Provenances, Merge!WriteRecord(e, m, p)
      PROVE  nodes \subseteq nodes' /\ corrected' = corrected
  BY <1>2 DEF Merge!WriteRecord
<1>3. ASSUME NEW e \in Equipment, Merge!WriteCorrection(e)
      PROVE  nodes' = nodes \cup {e} /\ corrected' = corrected \cup {e}
  BY <1>3 DEF Merge!WriteCorrection
<1>4. CASE \/ Merge!Start \/ Merge!Snapshot \/ Merge!Reconcile \/ Merge!PassOver
           \/ Merge!MoveEdges \/ Merge!MarkSuperseded
           \/ Merge!LinkCauses \/ Merge!Finish \/ Merge!Skip \/ Merge!Lose
           \/ UNCHANGED Merge!vars
  <2>1. UNCHANGED <<nodes, corrected>>
    BY <1>4 DEF Merge!Start, Merge!Snapshot, Merge!Reconcile, Merge!PassOver, Merge!MoveEdges,
         Merge!MarkSuperseded, Merge!LinkCauses, Merge!Finish, Merge!Skip, Merge!Lose,
         Merge!vars, Merge!graph
  <2>2. QED
    BY <2>1
<1>5. QED
  BY <1>1, <1>2, <1>3, <1>4 DEF Merge!Next

\* No step of a pass deletes equipment that a person has corrected, however late in the
\* pass the correction comes (the prune query looks again when it runs).
THEOREM HumansAreKept == Spec => HumanKept
<1> DEFINE Kept == stage = "merge" => corrected \subseteq nodes
           Spared == stage = "merge" => \A x \in corrected : x \in nodes' /\ x \in corrected'
<1>1. Init => Kept
  BY TracedInit DEF Init
<1>2. Kept /\ [Next]_vars => Kept' /\ [Spared]_vars
  BY StageSteps, CorrectedKeeps
<1>3. QED
  BY <1>1, <1>2, PTL DEF Spec, HumanKept

-----------------------------------------------------------------------------
(* The cutting of text: nothing is lost between two chunks or two sections *)

\* The greatest of some positions: the shortest of the intervals that begin at one.
LEMMA GreatestPosition ==
    ASSUME NEW n \in Nat, NEW places \in SUBSET (0..n), places # {}
    PROVE  Cut!Max(places) \in places /\ \A m \in places : m <= Cut!Max(places)
<1>1. IsFiniteSet(0..n)
  BY FS_Interval
<1>2. IsWellFoundedOn(StrictSubsetOrdering(0..n), SUBSET (0..n))
  BY <1>1, FS_StrictSubsetOrderingWellFounded, FS_FiniteSubsetsOfFinite
<1> DEFINE spans == {k..n : k \in places}
<1>3. spans \subseteq SUBSET (0..n) /\ spans # {}
  <2>1. \A k \in places : k..n \in SUBSET (0..n)
    OBVIOUS
  <2>2. QED
    BY <2>1
<1>4. PICK s \in spans : \A r \in spans : <<r, s>> \notin StrictSubsetOrdering(0..n)
  <2> HIDE DEF spans
  <2>1. QED
    BY <1>2, <1>3, WFMin
<1>5. PICK k \in places : s = k..n
  BY <1>4
<1>6. ASSUME NEW m \in places, k < m PROVE FALSE
  <2>1. m..n \in spans /\ m..n \subseteq s /\ m..n # s /\ m..n \in SUBSET (0..n) /\ s \in SUBSET (0..n)
    BY <1>5, <1>6
  <2>2. <<m..n, s>> \in StrictSubsetOrdering(0..n)
    BY <2>1 DEF StrictSubsetOrdering
  <2>3. QED
    BY <1>4, <2>1, <2>2
<1>7. \A m \in places : k >= m
  BY <1>6
<1>8. QED
  BY <1>7 DEF Cut!Max

\* What a chunk holds.
Kept(c) ==
    /\ \A i \in c[1]..c[2] : text[i].kind # "heading"
    /\ (\A i \in c[1]..c[2] : text[i].kind = "text") \/ Cut!Size(c) <= MaxChars

\* The spans hold the text of the first lines, up to r, and each line once.
Holds(spans, r) ==
    /\ spans \in Seq(Nat \X Nat)
    /\ \A k \in DOMAIN spans :
          1 <= spans[k][1] /\ spans[k][1] <= spans[k][2] /\ spans[k][2] <= r /\ Kept(spans[k])
    /\ \A k, l \in DOMAIN spans : k < l => spans[k][2] < spans[l][1]
    /\ \A i \in 1..r : text[i].kind = "text" =>
          \E k \in DOMAIN spans : i \in spans[k][1]..spans[k][2]

Lines == [kind : {"heading", "blank", "text"}, upto : Nat]
Prosaic == text \in Seq(Lines) /\ Cut!Counted(text)

ScanInv ==
    /\ Prosaic /\ manual = <<>>
    /\ reached \in 0..Len(text) /\ (pc = "done" => reached = Len(text))
    /\ chunks \in Seq(Nat \X Nat)
    /\ group = <<>> \/ (group \in Nat \X Nat /\ group[2] = reached)
    /\ pc = "done" => group = <<>>
    /\ Holds(Cut!Flushed, reached)

\* Behind lines without text.
LEMMA HoldsOn ==
    ASSUME Prosaic, NEW spans, NEW r \in Nat, NEW s \in Nat, Holds(spans, r), r <= s,
           \A i \in (r + 1)..s : text[i].kind # "text"
    PROVE  Holds(spans, s)
  BY DEF Holds

\* With the next paragraph as a span of its own.
LEMMA HoldsMore ==
    ASSUME Prosaic, NEW spans, NEW r \in Nat, Holds(spans, r), NEW p \in Nat \X Nat,
           r < p[1], p[1] <= p[2], \A i \in (r + 1)..(p[1] - 1) : text[i].kind # "text",
           \A i \in p[1]..p[2] : text[i].kind = "text"
    PROVE  Holds(Append(spans, p), p[2])
<1> DEFINE more == Append(spans, p)
<1>1. /\ more \in Seq(Nat \X Nat) /\ Len(spans) \in Nat
      /\ DOMAIN spans = 1..Len(spans) /\ DOMAIN more = 1..(Len(spans) + 1)
      /\ \A k \in DOMAIN spans : more[k] = spans[k]
      /\ more[Len(spans) + 1] = p
  BY DEF Holds
<1>2. Kept(p)
  BY DEF Kept
<1> HIDE DEF more
<1>3. \A k \in DOMAIN more : k \in DOMAIN spans \/ k = Len(spans) + 1
  BY <1>1
<1>4. \A k \in DOMAIN more :
         1 <= more[k][1] /\ more[k][1] <= more[k][2] /\ more[k][2] <= p[2] /\ Kept(more[k])
  <2>1. ASSUME NEW k \in DOMAIN spans
        PROVE  /\ 1 <= spans[k][1] /\ spans[k][1] <= spans[k][2] /\ spans[k][2] <= p[2]
               /\ Kept(spans[k])
    <3>1. spans[k] \in Nat \X Nat /\ spans[k][2] <= r
      BY DEF Holds
    <3>2. QED
      BY <3>1 DEF Holds
  <2>2. ASSUME NEW k \in DOMAIN more
        PROVE  /\ 1 <= more[k][1] /\ more[k][1] <= more[k][2] /\ more[k][2] <= p[2]
               /\ Kept(more[k])
    <3>1. CASE k \in DOMAIN spans
      <4>1. more[k] = spans[k]
        BY <1>1, <3>1
      <4>2. QED
        BY <2>1, <3>1, <4>1
    <3>2. CASE k = Len(spans) + 1
      <4>1. more[k] = p
        BY <1>1, <3>2
      <4>2. QED
        BY <1>2, <4>1
    <3>3. QED
      BY <1>3, <3>1, <3>2
  <2>3. QED
    BY <2>2
<1>5. \A k, l \in DOMAIN more : k < l => more[k][2] < more[l][1]
  <2> SUFFICES ASSUME NEW k \in DOMAIN more, NEW l \in DOMAIN more, k < l
               PROVE  more[k][2] < more[l][1]
    OBVIOUS
  <2>1. k \in DOMAIN spans /\ spans[k] \in Nat \X Nat /\ spans[k][2] <= r
    <3>1. k \in DOMAIN spans
      BY <1>1
    <3>2. QED
      BY <3>1 DEF Holds
  <2>2. CASE l \in DOMAIN spans
    BY <1>1, <2>1, <2>2 DEF Holds
  <2>3. CASE l = Len(spans) + 1
    BY <1>1, <2>1, <2>3
  <2>4. QED
    BY <1>3, <2>2, <2>3
<1>6. ASSUME NEW i \in 1..p[2], text[i].kind = "text"
      PROVE  \E k \in DOMAIN more : i \in more[k][1]..more[k][2]
  <2>1. CASE i <= r
    <3>1. PICK k \in DOMAIN spans : i \in spans[k][1]..spans[k][2]
      BY <1>6, <2>1 DEF Holds
    <3>2. QED
      BY <1>1, <3>1, SMTT(30)
  <2>2. CASE r < i
    <3>1. i \in p[1]..p[2]
      BY <1>6, <2>2
    <3>2. Len(spans) + 1 \in DOMAIN more /\ i \in more[Len(spans) + 1][1]..more[Len(spans) + 1][2]
      BY <1>1, <3>1
    <3>3. QED
      BY <3>2
  <2>3. QED
    BY <2>1, <2>2
<1>7. QED
  BY <1>1, <1>4, <1>5, <1>6 DEF Holds, more

\* With the next paragraph in the last of its spans, where there is room for it.
LEMMA HoldsWider ==
    ASSUME Prosaic, MaxChars \in Nat, NEW spans \in Seq(Nat \X Nat), NEW g \in Nat \X Nat,
           g[2] <= Len(text), Holds(Append(spans, g), g[2]), NEW p \in Nat \X Nat,
           g[2] < p[1], p[1] <= p[2], p[2] <= Len(text),
           \A i \in (g[2] + 1)..(p[1] - 1) : text[i].kind = "blank",
           \A i \in p[1]..p[2] : text[i].kind = "text",
           Cut!Size(g) + Cut!Size(p) <= MaxChars
    PROVE  Holds(Append(spans, <<g[1], p[2]>>), p[2])
<1> DEFINE some == Append(spans, g)
           wide == <<g[1], p[2]>>
           more == Append(spans, wide)
<1>1. /\ Len(spans) \in Nat /\ wide \in Nat \X Nat /\ more \in Seq(Nat \X Nat)
      /\ DOMAIN more = 1..(Len(spans) + 1) /\ DOMAIN some = 1..(Len(spans) + 1)
      /\ \A k \in 1..Len(spans) : more[k] = spans[k] /\ some[k] = spans[k]
      /\ more[Len(spans) + 1] = wide /\ some[Len(spans) + 1] = g
      /\ wide[1] = g[1] /\ wide[2] = p[2]
  OBVIOUS
<1>2. /\ \A k \in DOMAIN some :
            1 <= some[k][1] /\ some[k][1] <= some[k][2] /\ some[k][2] <= g[2] /\ Kept(some[k])
      /\ \A k, l \in DOMAIN some : k < l => some[k][2] < some[l][1]
      /\ \A i \in 1..g[2] : text[i].kind = "text" =>
            \E k \in DOMAIN some : i \in some[k][1]..some[k][2]
  BY DEF Holds
<1> HIDE DEF some, wide, more
<1>3. 1 <= g[1] /\ g[1] <= g[2] /\ Kept(g)
  BY <1>1, <1>2, SMTT(30)
<1>4. Cut!Upto(text, g[2]) = Cut!Upto(text, p[1] - 1)
  <2>1. CASE g[2] = p[1] - 1
    BY <2>1
  <2>2. CASE g[2] < p[1] - 1
    <3>1. g[2] \in 0..Len(text) /\ p[1] - 1 \in 0..Len(text)
      OBVIOUS
    <3>2. ~ \E k \in (g[2] + 1)..(p[1] - 1) : text[k].kind = "text"
      OBVIOUS
    <3>3. \A i, j \in 0..Len(text) : i < j =>
             IF \E k \in (i + 1)..j : text[k].kind = "text"
             THEN Cut!Upto(text, i) < Cut!Upto(text, j)
             ELSE Cut!Upto(text, i) = Cut!Upto(text, j)
      BY DEF Prosaic, Cut!Counted
    <3> DEFINE a == g[2]
               b == p[1] - 1
    <3>4. a \in 0..Len(text) /\ b \in 0..Len(text) /\ a < b
      BY <2>2, <3>1
    <3>5. ~ \E k \in (a + 1)..b : text[k].kind = "text"
      BY <3>2
    <3> HIDE DEF a, b
    <3>6. Cut!Upto(text, a) = Cut!Upto(text, b)
      BY <3>3, <3>4, <3>5
    <3>7. QED
      BY <3>6 DEF a, b
  <2>3. g[2] \in Nat /\ p[1] \in Nat /\ g[2] < p[1]
    OBVIOUS
  <2>4. g[2] = p[1] - 1 \/ g[2] < p[1] - 1
    BY ONLY <2>3, SMTT(30)
  <2>5. QED
    BY ONLY <2>1, <2>2, <2>4
<1>5. Cut!Upto(text, g[2]) \in Int /\ Cut!Upto(text, p[2]) \in Int /\ Cut!Upto(text, g[1] - 1) \in Int
  <2>1. \A i \in 0..Len(text) : Cut!Upto(text, i) \in Nat
    <3> SUFFICES ASSUME NEW i \in 0..Len(text) PROVE Cut!Upto(text, i) \in Nat
      OBVIOUS
    <3>1. CASE i = 0
      BY <3>1 DEF Cut!Upto
    <3>2. CASE i # 0
      <4>1. text[i] \in Lines
        <5>1. i \in 1..Len(text) /\ text \in Seq(Lines)
          BY <3>2 DEF Prosaic
        <5>2. QED
          BY <5>1
      <4>2. text[i].upto \in Nat
        BY <4>1 DEF Lines
      <4>3. QED
        BY <3>2, <4>2 DEF Cut!Upto
    <3>3. QED
      BY <3>1, <3>2
  <2>2. g[2] \in 0..Len(text) /\ p[2] \in 0..Len(text) /\ g[1] - 1 \in 0..Len(text)
    BY <1>3
  <2>3. QED
    BY <2>1, <2>2
<1>6. Cut!Size(wide) = Cut!Size(g) + Cut!Size(p)
  BY <1>1, <1>4, <1>5, SMTT(30) DEF Cut!Size
<1>7. Kept(wide)
  <2>1. \A i \in g[1]..p[2] : i \in g[1]..g[2] \/ i \in (g[2] + 1)..(p[1] - 1) \/ i \in p[1]..p[2]
    BY <1>3
  <2>2. QED
    BY <1>1, <1>3, <1>6, <2>1 DEF Kept
<1>8. \A k \in DOMAIN more : k \in 1..Len(spans) \/ k = Len(spans) + 1
  BY <1>1
<1>9. \A k \in DOMAIN more :
         1 <= more[k][1] /\ more[k][1] <= more[k][2] /\ more[k][2] <= p[2] /\ Kept(more[k])
  <2> SUFFICES ASSUME NEW k \in DOMAIN more
               PROVE  /\ 1 <= more[k][1] /\ more[k][1] <= more[k][2] /\ more[k][2] <= p[2]
                      /\ Kept(more[k])
    OBVIOUS
  <2>1. CASE k \in 1..Len(spans)
    <3>1. more[k] = spans[k] /\ some[k] = spans[k] /\ spans[k] \in Nat \X Nat
      <4>1. spans[k] \in Nat \X Nat
        BY <2>1
      <4>2. QED
        BY <1>1, <2>1, <4>1
    <3>2. k \in DOMAIN some
      BY <1>1
    <3>3. 1 <= spans[k][1] /\ spans[k][1] <= spans[k][2] /\ spans[k][2] <= g[2] /\ Kept(spans[k])
      BY <1>2, <3>1, <3>2
    <3>4. QED
      BY <3>1, <3>3
  <2>2. CASE k = Len(spans) + 1
    <3>1. more[k] = wide
      BY <1>1, <2>2
    <3>2. QED
      BY <1>1, <1>3, <1>7, <3>1
  <2>3. QED
    BY <1>8, <2>1, <2>2
<1>10. \A k, l \in DOMAIN more : k < l => more[k][2] < more[l][1]
  <2> SUFFICES ASSUME NEW k \in DOMAIN more, NEW l \in DOMAIN more, k < l
               PROVE  more[k][2] < more[l][1]
    OBVIOUS
  <2>1. k \in 1..Len(spans) /\ k \in DOMAIN some /\ l \in DOMAIN some
    BY <1>1
  <2>2. more[k] = some[k]
    BY <1>1, <2>1
  <2>3. more[l][1] = some[l][1]
    <3>1. CASE l \in 1..Len(spans)
      <4>1. more[l] = some[l]
        BY <1>1, <3>1
      <4>2. QED
        BY <4>1
    <3>2. CASE l = Len(spans) + 1
      BY <1>1, <3>2
    <3>3. QED
      BY <1>8, <3>1, <3>2
  <2>4. QED
    BY <1>2, <2>1, <2>2, <2>3
<1>11. ASSUME NEW i \in 1..p[2], text[i].kind = "text"
       PROVE  \E k \in DOMAIN more : i \in more[k][1]..more[k][2]
  <2>1. CASE i <= g[2]
    <3>1. PICK k \in DOMAIN some : i \in some[k][1]..some[k][2]
      BY <1>2, <1>11, <2>1
    <3>2. k \in DOMAIN more /\ i \in more[k][1]..more[k][2]
      <4>1. CASE k \in 1..Len(spans)
        <5>1. more[k] = some[k] /\ k \in DOMAIN more
          BY <1>1, <4>1
        <5>2. QED
          BY <3>1, <5>1
      <4>2. CASE k = Len(spans) + 1
        BY <1>1, <2>1, <3>1, <4>2
      <4>3. QED
        BY <1>1, <4>1, <4>2
    <3>3. QED
      BY <3>2
  <2>2. CASE g[2] < i
    <3>1. i \in g[1]..p[2]
      BY <1>3, <1>11, <2>2
    <3>2. Len(spans) + 1 \in DOMAIN more /\ i \in more[Len(spans) + 1][1]..more[Len(spans) + 1][2]
      BY <1>1, <3>1
    <3>3. QED
      BY <3>2
  <2>3. QED
    BY <2>1, <2>2
<1>12. QED
  BY <1>1, <1>9, <1>10, <1>11 DEF Holds, more, wide

\* What stands in what is read so far, with what is put together.
LEMMA FlushedIs ==
    /\ group = <<>> => Cut!Flushed = chunks
    /\ group \in Nat \X Nat => Cut!Flushed = Append(chunks, group)
    /\ Cut!Flushed' = IF group' = <<>> THEN chunks' ELSE Append(chunks', group')
<1>1. \A g \in Nat \X Nat : g # <<>>
  OBVIOUS
<1>2. QED
  BY <1>1 DEF Cut!Flushed

LEMMA ParagraphKeeps ==
    ASSUME Cut!TextAssumption, ScanInv, Cut!NextParagraph
    PROVE  ScanInv'
<1> USE DEF Lines
<1>1. PICK p \in ((reached + 1)..Len(text)) \X ((reached + 1)..Len(text)) :
         /\ Cut!IsParagraph(p)
         /\ \/ /\ group # <<>> /\ Cut!Size(group) + Cut!Size(p) > MaxChars
               /\ chunks' = Append(chunks, group) /\ group' = p
            \/ /\ group # <<>> => Cut!Size(group) + Cut!Size(p) <= MaxChars
               /\ group' = IF group = <<>> THEN p ELSE <<group[1], p[2]>>
               /\ UNCHANGED chunks
         /\ reached' = p[2]
  BY DEF Cut!NextParagraph
<1>2. /\ UNCHANGED <<pc, text, manual>> /\ pc = "split"
  BY DEF Cut!NextParagraph
<1>3. /\ p \in Nat \X Nat /\ p[1] <= p[2] /\ p[2] <= Len(text) /\ reached < p[1]
      /\ reached \in Nat /\ Len(text) \in Nat /\ p[2] \in 0..Len(text) /\ p # <<>>
  <2>1. reached \in Nat /\ Len(text) \in Nat
    BY DEF ScanInv, Prosaic
  <2>2. p[1] \in (reached + 1)..Len(text) /\ p[2] \in (reached + 1)..Len(text) /\ p[1] <= p[2]
    BY <1>1 DEF Cut!IsParagraph
  <2>3. p = <<p[1], p[2]>>
    BY <1>1
  <2>4. p[1] \in Nat /\ p[2] \in Nat /\ reached < p[1] /\ p[2] <= Len(text) /\ p[2] \in 0..Len(text)
    BY <2>1, <2>2
  <2>5. p \in Nat \X Nat /\ p # <<>>
    BY <2>3, <2>4
  <2>6. QED
    BY <2>1, <2>2, <2>4, <2>5
<1>4. /\ \A i \in (reached + 1)..(p[1] - 1) : text[i].kind = "blank"
      /\ \A i \in p[1]..p[2] : text[i].kind = "text"
  BY <1>1 DEF Cut!IsParagraph, Cut!BlankTill
<1>5. \A i \in (reached + 1)..(p[1] - 1) : text[i].kind # "text"
  BY <1>4
<1>6. Holds(Cut!Flushed, reached) /\ Prosaic /\ chunks \in Seq(Nat \X Nat)
  BY DEF ScanInv
<1>7. Holds(Append(Cut!Flushed, p), p[2])
  BY <1>3, <1>4, <1>5, <1>6, HoldsMore
<1>8. /\ Holds(Cut!Flushed', p[2]) /\ chunks' \in Seq(Nat \X Nat)
      /\ group' \in Nat \X Nat /\ group'[2] = p[2]
  <2>1. CASE group = <<>>
    <3>1. chunks' = chunks /\ group' = p
      BY <1>1, <2>1
    <3>2. Cut!Flushed = chunks /\ Cut!Flushed' = Append(chunks, p)
      BY <1>3, <2>1, <3>1, FlushedIs
    <3>3. QED
      BY <1>3, <1>6, <1>7, <3>1, <3>2
  <2>2. CASE group # <<>> /\ Cut!Size(group) + Cut!Size(p) > MaxChars
                /\ chunks' = Append(chunks, group) /\ group' = p
    <3>1. group \in Nat \X Nat
      BY <2>2 DEF ScanInv
    <3>2. Cut!Flushed' = Append(Append(chunks, group), p) /\ Cut!Flushed = Append(chunks, group)
      BY <1>3, <2>2, <3>1, FlushedIs
    <3>3. chunks' \in Seq(Nat \X Nat)
      BY <1>6, <2>2, <3>1
    <3>4. QED
      BY <1>3, <1>7, <2>2, <3>2, <3>3
  <2>3. CASE group # <<>> /\ Cut!Size(group) + Cut!Size(p) <= MaxChars
                /\ chunks' = chunks /\ group' = <<group[1], p[2]>>
    <3>1. group \in Nat \X Nat /\ group[2] = reached /\ MaxChars \in Nat
      BY <2>3 DEF ScanInv, Cut!TextAssumption
    <3>2. <<group[1], p[2]>> \in Nat \X Nat /\ group' \in Nat \X Nat /\ group' # <<>>
      BY <1>3, <2>3, <3>1
    <3>3. /\ Cut!Flushed' = Append(chunks, <<group[1], p[2]>>)
          /\ Cut!Flushed = Append(chunks, group)
      BY <2>3, <3>1, <3>2, FlushedIs
    <3>4. Holds(Append(chunks, <<group[1], p[2]>>), p[2])
      <4>1. Holds(Append(chunks, group), group[2]) /\ group[2] < p[1] /\ group[2] <= Len(text)
        BY <1>3, <1>6, <3>1, <3>3
      <4>2. \A i \in (group[2] + 1)..(p[1] - 1) : text[i].kind = "blank"
        BY <1>4, <3>1
      <4>3. QED
        BY <1>3, <1>4, <1>6, <2>3, <3>1, <4>1, <4>2, HoldsWider
    <3>5. QED
      BY <1>6, <2>3, <3>2, <3>3, <3>4
  <2>4. QED
    BY <1>1, <2>1, <2>2, <2>3
<1>9. Holds(Cut!Flushed, p[2])' /\ Prosaic'
  BY <1>1, <1>2, <1>6, <1>8 DEF Holds, Kept, Cut!Size, Cut!Upto, Prosaic, Cut!Counted
<1>10. reached' = p[2] /\ manual = <<>>
  BY <1>1 DEF ScanInv
<1>11. QED
  BY <1>2, <1>3, <1>8, <1>9, <1>10 DEF ScanInv

LEMMA FlushKeeps ==
    ASSUME ScanInv, Cut!NextHeading \/ Cut!EndOfText
    PROVE  ScanInv'
<1>1. /\ UNCHANGED <<text, manual>> /\ chunks' = Cut!Flushed /\ group' = <<>>
      /\ pc' = "done" => reached' = Len(text)
  BY DEF Cut!NextHeading, Cut!EndOfText
<1>2. /\ reached \in Nat /\ reached' \in Nat /\ reached <= reached' /\ reached' <= Len(text)
      /\ \A i \in (reached + 1)..reached' : text[i].kind # "text"
  <2>1. reached \in 0..Len(text) /\ Len(text) \in Nat
    BY DEF ScanInv, Prosaic
  <2>2. CASE Cut!NextHeading
    <3>1. PICK h \in (reached + 1)..Len(text) :
             text[h].kind = "heading" /\ Cut!BlankTill(h) /\ reached' = h
      BY <2>2 DEF Cut!NextHeading
    <3>2. \A i \in (reached + 1)..h : i = h \/ i \in (reached + 1)..(h - 1)
      BY <2>1
    <3>3. QED
      BY <2>1, <3>1, <3>2 DEF Cut!BlankTill
  <2>3. CASE Cut!EndOfText
    BY <2>1, <2>3 DEF Cut!EndOfText, Cut!BlankTill
  <2>4. QED
    BY <2>2, <2>3
<1>3. Holds(Cut!Flushed, reached) /\ Prosaic /\ manual = <<>>
  BY DEF ScanInv
<1>4. Holds(Cut!Flushed, reached')
  BY <1>2, <1>3, HoldsOn
<1>5. Cut!Flushed' = chunks' /\ chunks' = Cut!Flushed
  BY <1>1, FlushedIs
<1>6. Holds(Cut!Flushed, reached)' /\ Prosaic'
  BY <1>1, <1>3, <1>4, <1>5 DEF Holds, Kept, Cut!Size, Cut!Upto, Prosaic, Cut!Counted
<1>7. chunks' \in Seq(Nat \X Nat)
  BY <1>3, <1>5 DEF Holds
<1>8. QED
  BY <1>1, <1>2, <1>3, <1>6, <1>7 DEF ScanInv

LEMMA ScanSuffices ==
    ASSUME ScanInv
    PROVE  Cut!TextKept
<1> SUFFICES ASSUME pc = "done" PROVE Cut!TextKept
  BY DEF Cut!TextKept
<1>1. Holds(chunks, Len(text)) /\ text \in Seq(Lines) /\ Len(text) \in Nat
  BY FlushedIs DEF ScanInv, Prosaic
<1>2. ASSUME NEW i \in DOMAIN text, text[i].kind = "text"
      PROVE  Cut!Cardinality({k \in DOMAIN chunks : i \in chunks[k][1]..chunks[k][2]}) = 1
  <2> DEFINE spans == {k \in DOMAIN chunks : i \in chunks[k][1]..chunks[k][2]}
  <2>1. i \in 1..Len(text)
    BY <1>1
  <2>2. PICK k \in DOMAIN chunks : i \in chunks[k][1]..chunks[k][2]
    BY <1>1, <1>2, <2>1 DEF Holds
  <2>3. ASSUME NEW l \in spans PROVE l = k
    <3>1. /\ l \in DOMAIN chunks /\ i \in chunks[l][1]..chunks[l][2]
          /\ chunks[k] \in Nat \X Nat /\ chunks[l] \in Nat \X Nat /\ k \in Nat /\ l \in Nat
      BY <1>1, SMTT(30) DEF Holds
    <3>2. ~ (k < l) /\ ~ (l < k)
      BY <1>1, <2>2, <3>1, SMTT(30) DEF Holds
    <3>3. QED
      BY <3>1, <3>2
  <2>4. spans = {k}
    BY <2>2, <2>3
  <2> HIDE DEF spans
  <2>5. Cardinality(spans) = 1
    BY <2>4, FS_Singleton
  <2>6. QED
    BY <2>5, Zenon DEF spans, Cut!Cardinality, Cardinality
<1>3. \A k \in 2..Len(chunks) : chunks[k - 1][2] < chunks[k][1]
  <2> SUFFICES ASSUME NEW k \in 2..Len(chunks) PROVE chunks[k - 1][2] < chunks[k][1]
    OBVIOUS
  <2>1. chunks \in Seq(Nat \X Nat)
    BY <1>1 DEF Holds
  <2>2. k - 1 \in DOMAIN chunks /\ k \in DOMAIN chunks /\ k - 1 < k
    BY <2>1
  <2>3. QED
    BY <1>1, <2>2 DEF Holds
<1>4. ASSUME NEW k \in DOMAIN chunks
      PROVE  LET kinds == {text[i].kind : i \in chunks[k][1]..chunks[k][2]}
             IN /\ "heading" \notin kinds
                /\ "blank" \notin kinds \/ Cut!Size(chunks[k]) <= MaxChars
  BY <1>1 DEF Holds, Kept
<1>5. QED
  BY <1>2, <1>3, <1>4 DEF Cut!TextKept

\* The sections that wait for parts: each deeper than the one below it and later, and for
\* each section there is one among them no earlier and no deeper.
Stacked(waiting, n) ==
    /\ waiting \in Seq([level : 1..4, section : Nat])
    /\ \A k \in DOMAIN waiting :
          waiting[k].section \in 1..n /\ entries[waiting[k].section].level = waiting[k].level
    /\ \A k, l \in DOMAIN waiting : k < l =>
          waiting[k].level < waiting[l].level /\ waiting[k].section < waiting[l].section
    /\ \A j \in 1..n : \E k \in DOMAIN waiting :
          j <= waiting[k].section /\ waiting[k].level <= entries[j].level

\* The sections before the i-th that are less deep.
Shallower(i) == {j \in 1..(i - 1) : entries[j].level < entries[i].level}

IsSection(s, i) ==
    s = [parent |-> Cut!Max({0} \cup Shallower(i)), first |-> entries[i].page,
         last |-> Cut!LastPage(i)]

OutlineEntries == [level : 1..4, page : Nat]

Ordered ==
    /\ entries \in Seq(OutlineEntries)
    /\ \A i \in DOMAIN entries : 1 <= entries[i].page /\ entries[i].page <= Len(manual)
    /\ \A i, j \in DOMAIN entries : i < j => entries[i].page <= entries[j].page

TreeInv ==
    /\ manual \in Seq(Seq(1..4)) /\ manual # <<>> /\ Ordered
    /\ pc = "outline" => entries = <<>> /\ reached = 0
    /\ pc = "headings" =>
          reached \in 0..Len(manual) /\ \A i \in DOMAIN entries : entries[i].page <= reached
    /\ IF pc \in {"tree", "built"} THEN entries # <<>> ELSE sections = <<>> /\ stack = <<>>
    /\ pc = "built" => Len(sections) = Len(entries)
    /\ Stacked(stack, Len(sections)) /\ Len(sections) <= Len(entries)
    /\ sections \in Seq([parent : Nat, first : Nat, last : Nat])
    /\ \A i \in DOMAIN sections : IsSection(sections[i], i)

LEMMA NoneStacked ==
    ASSUME sections = <<>>, stack = <<>>, UNCHANGED <<sections, stack>>
    PROVE  (/\ Stacked(stack, Len(sections)) /\ Len(sections) = 0
            /\ sections \in Seq([parent : Nat, first : Nat, last : Nat])
            /\ \A i \in DOMAIN sections : IsSection(sections[i], i))'
<1>1. sections' = <<>> /\ stack' = <<>>
  OBVIOUS
<1>2. Len(sections') = 0 /\ DOMAIN sections' = {} /\ DOMAIN stack' = {}
  BY <1>1
<1>3. stack' \in Seq([level : 1..4, section : Nat])
  BY <1>1
<1>4. sections' \in Seq([parent : Nat, first : Nat, last : Nat])
  BY <1>1
<1>5. \A j \in 1..Len(sections') : FALSE
  BY <1>2
<1>6. QED
  BY <1>2, <1>3, <1>4, <1>5 DEF Stacked

\* Nothing is built before the outline stands.
LEMMA OutlineStands ==
    ASSUME sections = <<>>, stack = <<>>, UNCHANGED <<sections, stack, manual>>,
           manual \in Seq(Seq(1..4)), manual # <<>>, Ordered', entries' # <<>>, pc' = "tree"
    PROVE  TreeInv'
<1>1. (/\ Stacked(stack, Len(sections)) /\ Len(sections) = 0
       /\ sections \in Seq([parent : Nat, first : Nat, last : Nat])
       /\ \A i \in DOMAIN sections : IsSection(sections[i], i))'
  BY NoneStacked
<1>2. Len(entries') \in Nat
  BY DEF Ordered
<1>3. QED
  BY <1>1, <1>2 DEF TreeInv

LEMMA OutlineKeeps ==
    ASSUME Cut!TextAssumption, TreeInv, Cut!Outline
    PROVE  TreeInv'
<1>1. /\ entries = <<>> /\ reached = 0 /\ sections = <<>> /\ stack = <<>>
      /\ manual \in Seq(Seq(1..4)) /\ manual # <<>> /\ Len(manual) \in Nat
      /\ UNCHANGED <<reached, manual, sections, stack>>
  BY DEF Cut!Outline, TreeInv
<1>2. CASE pc' = "headings" /\ UNCHANGED entries
  <2>1. (/\ Stacked(stack, Len(sections)) /\ Len(sections) = 0
         /\ sections \in Seq([parent : Nat, first : Nat, last : Nat])
         /\ \A i \in DOMAIN sections : IsSection(sections[i], i))'
    BY <1>1, NoneStacked
  <2>0. Len(entries') = 0
    BY <1>1, <1>2
  <2>2. Ordered'
    BY <1>1, <1>2 DEF TreeInv, Ordered
  <2>3. \A i \in DOMAIN entries' : FALSE
    BY <1>1, <1>2
  <2>4. QED
    BY <1>1, <1>2, <2>0, <2>1, <2>2, <2>3 DEF TreeInv
<1>3. CASE pc' # "headings"
  <2>1. PICK guess \in Guesses :
           LET inside == {i \in DOMAIN guess : guess[i].page <= Len(manual)}
           IN /\ inside # {}
              /\ \E order \in [1..Cut!Cardinality(inside) -> inside] :
                    /\ \A k, l \in DOMAIN order : k < l =>
                          \/ guess[order[k]].page < guess[order[l]].page
                          \/ /\ guess[order[k]].page = guess[order[l]].page
                             /\ order[k] < order[l]
                    /\ entries' = [k \in DOMAIN order |-> guess[order[k]]]
              /\ pc' = "tree"
    BY <1>3 DEF Cut!Outline
  <2> DEFINE inside == {i \in DOMAIN guess : guess[i].page <= Len(manual)}
             n == Cut!Cardinality(inside)
  <2>2. /\ guess \in Seq(OutlineEntries)
        /\ \A i \in inside : /\ guess[i] \in OutlineEntries /\ 1 <= guess[i].page
                             /\ guess[i].page <= Len(manual)
    <3> DEFINE Guessed == [level : 1..4, page : Nat \ {0}]
    <3>1. guess \in Seq(Guessed)
      BY DEF Cut!TextAssumption
    <3>2. Guessed \subseteq OutlineEntries /\ \A e \in Guessed : 1 <= e.page
      BY DEF OutlineEntries
    <3> HIDE DEF Guessed
    <3>3. \A i \in DOMAIN guess : guess[i] \in Guessed
      BY <3>1
    <3>4. guess \in Seq(OutlineEntries)
      <4>1. Len(guess) \in Nat /\ guess = [i \in 1..Len(guess) |-> guess[i]] /\ DOMAIN guess = 1..Len(guess)
        BY <3>1
      <4>2. \A i \in 1..Len(guess) : guess[i] \in OutlineEntries
        BY <3>2, <3>3, <4>1
      <4>3. QED
        BY <4>1, <4>2
    <3>5. QED
      BY <3>2, <3>3, <3>4
  <2>3. n \in Nat \ {0}
    <3>1. DOMAIN guess = 1..Len(guess) /\ Len(guess) \in Nat
      BY <2>2
    <3>2. IsFiniteSet(inside)
      <4>1. IsFiniteSet(1..Len(guess))
        BY <3>1, FS_Interval
      <4>2. inside \subseteq 1..Len(guess)
        BY <3>1
      <4> HIDE DEF inside
      <4>3. QED
        BY <4>1, <4>2, FS_Subset
    <3>3. inside # {}
      BY <2>1
    <3> HIDE DEF inside
    <3>4. Cardinality(inside) \in Nat /\ Cardinality(inside) # 0
      BY <3>2, <3>3, FS_CardinalityType, FS_EmptySet
    <3>5. n = Cardinality(inside)
      BY Zenon DEF Cut!Cardinality, Cardinality
    <3>6. QED
      BY <3>4, <3>5
  <2>4. PICK order \in [1..n -> inside] :
           /\ \A k, l \in DOMAIN order : k < l =>
                 \/ guess[order[k]].page < guess[order[l]].page
                 \/ guess[order[k]].page = guess[order[l]].page
           /\ entries' = [k \in DOMAIN order |-> guess[order[k]]]
    BY <2>1
  <2> HIDE DEF n, inside
  <2>5. /\ DOMAIN entries' = 1..n
        /\ \A k \in 1..n : /\ entries'[k] = guess[order[k]]
                           /\ entries'[k] \in OutlineEntries /\ 1 <= entries'[k].page
                           /\ entries'[k].page <= Len(manual)
    BY <2>2, <2>4
  <2>6. entries' \in Seq(OutlineEntries)
    <3>1. entries' = [k \in 1..n |-> entries'[k]]
      BY <2>4
    <3>2. \A k \in 1..n : entries'[k] \in OutlineEntries
      BY <2>5
    <3>3. entries' \in [1..n -> OutlineEntries]
      BY <3>1, <3>2
    <3>4. QED
      BY <2>3, <3>3
  <2>7. Ordered'
    <3>1. \A k \in DOMAIN entries' : 1 <= entries'[k].page /\ entries'[k].page <= Len(manual')
      BY <1>1, <2>5
    <3>2. \A k, l \in DOMAIN entries' : k < l => entries'[k].page <= entries'[l].page
      <4> SUFFICES ASSUME NEW k \in 1..n, NEW l \in 1..n, k < l
                   PROVE  entries'[k].page <= entries'[l].page
        BY <2>5
      <4>1. \/ guess[order[k]].page < guess[order[l]].page
            \/ guess[order[k]].page = guess[order[l]].page
        BY <2>4
      <4>2. entries'[k].page \in Nat /\ entries'[l].page \in Nat
        BY <2>5 DEF OutlineEntries
      <4>3. entries'[k] = guess[order[k]] /\ entries'[l] = guess[order[l]]
        BY <2>5
      <4>4. QED
        BY <4>1, <4>2, <4>3
    <3>3. QED
      BY <2>6, <3>1, <3>2 DEF Ordered
  <2>8. entries' # <<>> /\ pc' = "tree"
    BY <2>1, <2>3, <2>5
  <2>9. QED
    BY <1>1, <2>7, <2>8, OutlineStands
<1>4. QED
  BY <1>2, <1>3 DEF Cut!Outline

LEMMA HeadingsKeep ==
    ASSUME TreeInv, Cut!RegexOutline \/ Cut!OrWhole
    PROVE  TreeInv'
<1>1. /\ pc = "headings" /\ sections = <<>> /\ stack = <<>>
      /\ manual \in Seq(Seq(1..4)) /\ manual # <<>> /\ Len(manual) \in Nat \ {0} /\ Ordered
      /\ reached \in 0..Len(manual) /\ \A i \in DOMAIN entries : entries[i].page <= reached
      /\ UNCHANGED <<manual, sections, stack>>
  <2>1. manual \in Seq(Seq(1..4)) /\ manual # <<>>
    BY DEF TreeInv
  <2>2. Len(manual) \in Nat \ {0}
    BY <2>1
  <2>3. QED
    BY <2>1, <2>2 DEF Cut!RegexOutline, Cut!OrWhole, TreeInv
<1>2. CASE Cut!RegexOutline
  <2> DEFINE levels == manual[reached + 1]
             new == [i \in DOMAIN levels |-> [level |-> levels[i], page |-> reached + 1]]
  <2>1. /\ reached' = reached + 1 /\ pc' = "headings" /\ entries' = entries \o new
        /\ reached + 1 \in 1..Len(manual) /\ reached \in Nat /\ reached' \in 0..Len(manual)
    <3>1. reached < Len(manual) /\ reached' = reached + 1 /\ pc' = "headings"
      BY <1>1, <1>2 DEF Cut!RegexOutline
    <3>2. entries' = entries \o [i \in DOMAIN manual[reached'] |->
                                   [level |-> manual[reached'][i], page |-> reached']]
      BY <1>2 DEF Cut!RegexOutline
    <3>3. entries' = entries \o new
      BY <3>1, <3>2
    <3>4. QED
      BY <1>1, <3>1, <3>3
  <2>2. levels \in Seq(1..4)
    <3>1. reached + 1 \in DOMAIN manual
      BY <1>1, <2>1
    <3> DEFINE Levels == Seq(1..4)
    <3>2. manual \in Seq(Levels)
      BY <1>1
    <3> HIDE DEF Levels
    <3>3. manual[reached + 1] \in Levels
      BY <3>1, <3>2
    <3>4. QED
      BY <3>3 DEF Levels
  <2>3. /\ DOMAIN new = 1..Len(levels) /\ Len(levels) \in Nat
        /\ \A i \in 1..Len(levels) : new[i] \in OutlineEntries /\ new[i].page = reached + 1
    <3> HIDE DEF levels
    <3>1. DOMAIN levels = 1..Len(levels) /\ Len(levels) \in Nat /\ \A i \in DOMAIN levels : levels[i] \in 1..4
      BY <2>2
    <3>2. \A i \in DOMAIN levels : new[i] = [level |-> levels[i], page |-> reached + 1]
      OBVIOUS
    <3>3. QED
      BY <2>1, <3>1, <3>2 DEF OutlineEntries
  <2>4. new \in Seq(OutlineEntries)
    <3>1. new = [i \in 1..Len(levels) |-> new[i]]
      BY <2>3
    <3> HIDE DEF new, levels
    <3>2. new \in [1..Len(levels) -> OutlineEntries]
      BY <2>3, <3>1
    <3>3. QED
      BY <2>3, <3>2
  <2> HIDE DEF new, levels
  <2>5. /\ entries \in Seq(OutlineEntries) /\ entries' \in Seq(OutlineEntries)
        /\ Len(new) = Len(levels) /\ Len(entries) \in Nat
        /\ Len(entries') = Len(entries) + Len(levels)
        /\ DOMAIN entries = 1..Len(entries) /\ DOMAIN entries' = 1..Len(entries')
    <3>1. entries \in Seq(OutlineEntries)
      BY <1>1 DEF Ordered
    <3>2. Len(new) = Len(levels)
      BY <2>3, <2>4
    <3> DEFINE all == entries \o new
    <3>3. all \in Seq(OutlineEntries) /\ Len(all) = Len(entries) + Len(new)
      BY <2>4, <3>1
    <3>4. entries' = all
      BY <2>1
    <3> HIDE DEF all
    <3>5. DOMAIN entries = 1..Len(entries) /\ Len(entries) \in Nat /\ DOMAIN all = 1..Len(all)
      BY <3>1, <3>3
    <3>6. QED
      BY <3>1, <3>2, <3>3, <3>4, <3>5
  <2>6. ASSUME NEW i \in DOMAIN entries'
        PROVE  \/ i \in DOMAIN entries /\ entries'[i] = entries[i]
               \/ i \in Nat /\ i > Len(entries) /\ entries'[i].page = reached + 1
    <3>1. CASE i <= Len(entries)
      <4>1. i \in 1..Len(entries)
        BY <2>5, <3>1
      <4>2. entries'[i] = entries[i]
        BY <2>1, <2>4, <2>5, <4>1
      <4>3. QED
        BY <2>5, <4>1, <4>2
    <3>2. CASE Len(entries) < i
      <4>1. i - Len(entries) \in 1..Len(levels) /\ i \in Nat
        BY <2>3, <2>5, <3>2
      <4>2. entries'[i] = new[i - Len(entries)]
        BY <2>1, <2>4, <2>5, <3>2
      <4>3. new[i - Len(entries)].page = reached + 1
        BY <2>3, <4>1
      <4>4. QED
        BY <3>2, <4>1, <4>2, <4>3
    <3>3. QED
      BY <2>5, <3>1, <3>2
  <2>7. \A i \in DOMAIN entries : /\ entries[i].page \in Nat /\ 1 <= entries[i].page
                                  /\ entries[i].page <= reached
    <3>1. \A i \in DOMAIN entries : entries[i] \in OutlineEntries
      BY <2>5
    <3>2. QED
      BY <1>1, <3>1 DEF Ordered, OutlineEntries
  <2>8. \A i \in DOMAIN entries' : /\ 1 <= entries'[i].page /\ entries'[i].page <= reached'
                                   /\ entries'[i].page <= Len(manual')
    BY <1>1, <2>1, <2>6, <2>7, SMTT(30)
  <2>9. \A i, j \in DOMAIN entries' : i < j => entries'[i].page <= entries'[j].page
    <3> SUFFICES ASSUME NEW i \in DOMAIN entries', NEW j \in DOMAIN entries', i < j
                 PROVE  entries'[i].page <= entries'[j].page
      OBVIOUS
    <3>1. CASE j \in DOMAIN entries /\ entries'[j] = entries[j]
      <4>1. i \in DOMAIN entries /\ entries'[i] = entries[i]
        <5>1. i <= Len(entries)
          BY <2>5, <3>1
        <5>2. QED
          BY <2>5, <2>6, <5>1
      <4>2. QED
        BY <1>1, <3>1, <4>1 DEF Ordered
    <3>2. CASE entries'[j].page = reached + 1
      BY <2>1, <2>6, <2>7, <3>2
    <3>3. QED
      BY <2>6, <3>1, <3>2
  <2>10. Ordered'
    BY <2>5, <2>8, <2>9 DEF Ordered
  <2>11. (/\ Stacked(stack, Len(sections)) /\ Len(sections) = 0
          /\ sections \in Seq([parent : Nat, first : Nat, last : Nat])
          /\ \A i \in DOMAIN sections : IsSection(sections[i], i))'
    BY <1>1, NoneStacked
  <2>12. Len(sections') <= Len(entries')
    BY <2>3, <2>5, <2>11
  <2>13. QED
    BY <1>1, <2>1, <2>8, <2>10, <2>11, <2>12 DEF TreeInv
<1>3. CASE Cut!OrWhole
  <2>1. /\ entries' = IF entries = <<>> THEN <<[level |-> 1, page |-> 1]>> ELSE entries
        /\ pc' = "tree"
    BY <1>3 DEF Cut!OrWhole
  <2>2. Ordered' /\ entries' # <<>>
    <3>1. CASE entries # <<>>
      BY <1>1, <2>1, <3>1 DEF Ordered
    <3>2. CASE entries = <<>>
      <4> DEFINE e == [level |-> 1, page |-> 1]
      <4>1. e \in OutlineEntries /\ e.page = 1
        BY DEF OutlineEntries
      <4>2. entries' = <<e>>
        BY <2>1, <3>2
      <4> HIDE DEF e
      <4>3. /\ entries' \in Seq(OutlineEntries) /\ entries' # <<>>
            /\ \A i \in DOMAIN entries' : i = 1 /\ entries'[i] = e
        BY <4>1, <4>2
      <4>4. QED
        BY <1>1, <4>1, <4>3 DEF Ordered
    <3>3. QED
      BY <3>1, <3>2
  <2>3. QED
    BY <1>1, <2>1, <2>2, OutlineStands
<1>4. QED
  BY <1>2, <1>3

\* Where a section ends: with the entry after it, but on its own first page at least.
LEMMA LastPageIs ==
    ASSUME Len(manual) \in Nat, Ordered, NEW i \in DOMAIN entries
    PROVE  /\ Cut!LastPage(i) \in Nat /\ i \in Nat /\ Len(entries) \in Nat
           /\ entries[i].page \in Nat
           /\ i = Len(entries) => Cut!LastPage(i) = Len(manual)
           /\ i < Len(entries) =>
                 /\ i + 1 \in DOMAIN entries /\ entries[i + 1].page \in Nat
                 /\ entries[i + 1].page - 1 <= Cut!LastPage(i)
                 /\ \/ Cut!LastPage(i) = entries[i].page
                    \/ Cut!LastPage(i) = entries[i + 1].page - 1
<1>1. /\ i \in 1..Len(entries) /\ Len(entries) \in Nat
      /\ \A j \in DOMAIN entries : /\ entries[j].page \in Nat /\ 1 <= entries[j].page
                                   /\ entries[j].page <= Len(manual)
  <2>1. entries \in Seq(OutlineEntries)
    BY DEF Ordered
  <2>2. \A j \in DOMAIN entries : entries[j] \in OutlineEntries
    BY <2>1
  <2>3. i \in 1..Len(entries) /\ Len(entries) \in Nat
    BY <2>1
  <2>4. QED
    BY <2>2, <2>3 DEF Ordered, OutlineEntries
<1>2. CASE i = Len(entries)
  BY <1>1, <1>2 DEF Cut!LastPage
<1>3. CASE i # Len(entries)
  <2> DEFINE ends == {entries[i + 1].page - 1, entries[i].page}
  <2>1. i + 1 \in DOMAIN entries
    <3>1. entries \in Seq(OutlineEntries)
      BY DEF Ordered
    <3>2. i + 1 \in 1..Len(entries)
      BY <1>1, <1>3
    <3>3. QED
      BY <3>1, <3>2
  <2>2. ends \in SUBSET (0..Len(manual)) /\ ends # {}
    BY <1>1, <2>1
  <2>3. Cut!LastPage(i) = Cut!Max(ends)
    BY <1>3 DEF Cut!LastPage
  <2> HIDE DEF ends
  <2>4. Cut!Max(ends) \in ends /\ \A m \in ends : m <= Cut!Max(ends)
    BY <2>2, GreatestPosition
  <2>5. /\ Cut!LastPage(i) = entries[i].page \/ Cut!LastPage(i) = entries[i + 1].page - 1
        /\ entries[i + 1].page - 1 <= Cut!LastPage(i)
    BY <2>3, <2>4 DEF ends
  <2>6. QED
    BY <1>1, <1>3, <2>1, <2>5
<1>4. QED
  BY <1>2, <1>3

\* The last section that stays open is the latest that is less deep.
LEMMA OpenIs ==
    ASSUME Ordered, Stacked(stack, Len(sections)), NEW i \in DOMAIN entries,
           i = Len(sections) + 1, Len(sections) \in Nat
    PROVE  LET level == entries[i].level
               open == Cut!Open(level)
           IN /\ Stacked(Append(open, [level |-> level, section |-> i]), i)
              /\ Cut!Max({0} \cup Shallower(i)) \in 0..(i - 1)
              /\ (IF open = <<>> THEN 0 ELSE open[Len(open)].section)
                     = Cut!Max({0} \cup Shallower(i))
<1> DEFINE level == entries[i].level
           n == Len(sections)
           Waiting == [level : 1..4, section : Nat]
           less == {k \in DOMAIN stack : stack[k].level < level}
           places == {0} \cup less
           m == Cut!Max(places)
           open == Cut!Open(level)
           added == [level |-> level, section |-> i]
           new == Append(open, added)
<1>1. /\ stack \in Seq(Waiting) /\ Len(stack) \in Nat /\ DOMAIN stack = 1..Len(stack)
      /\ \A k \in DOMAIN stack : /\ stack[k] \in Waiting /\ stack[k].level \in 1..4
                                 /\ stack[k].section \in Nat
  <2>1. stack \in Seq(Waiting)
    BY DEF Stacked
  <2>2. \A k \in DOMAIN stack : stack[k] \in Waiting
    <3> HIDE DEF Waiting
    <3>1. QED
      BY <2>1
  <2>3. QED
    BY <2>1, <2>2
<1>2. /\ level \in 1..4 /\ i \in Nat /\ n \in Nat /\ i = n + 1
      /\ \A j \in 1..i : entries[j].level \in 1..4
  <2>1. entries \in Seq(OutlineEntries)
    BY DEF Ordered
  <2>2. \A j \in DOMAIN entries : entries[j] \in OutlineEntries
    BY <2>1
  <2>3. \A j \in 1..i : j \in DOMAIN entries
    BY <2>1
  <2>4. QED
    BY <2>2, <2>3 DEF OutlineEntries
<1>3. /\ \A k \in DOMAIN stack :
            stack[k].section \in 1..n /\ entries[stack[k].section].level = stack[k].level
      /\ \A k, l \in DOMAIN stack : k < l =>
            stack[k].level < stack[l].level /\ stack[k].section < stack[l].section
      /\ \A j \in 1..n : \E k \in DOMAIN stack :
            j <= stack[k].section /\ stack[k].level <= entries[j].level
  BY DEF Stacked
<1>4. m \in places /\ \A k \in places : k <= m
  <2>1. places \in SUBSET (0..Len(stack)) /\ places # {}
    BY <1>1
  <2> HIDE DEF places
  <2>2. QED
    BY <1>1, <2>1, GreatestPosition
<1>5. open = SubSeq(stack, 1, m)
  BY DEF Cut!Open
<1> HIDE DEF m, open, new, Waiting
<1>6. /\ m \in 0..Len(stack) /\ open \in Seq(Waiting) /\ Len(open) = m
      /\ \A k \in 1..m : open[k] = stack[k] /\ k \in DOMAIN stack
  <2>1. m \in 0..Len(stack)
    BY <1>1, <1>4
  <2>2. QED
    BY <1>1, <1>5, <2>1
<1>7. \A k \in 1..m : stack[k].level < level
  <2> SUFFICES ASSUME NEW k \in 1..m PROVE stack[k].level < level
    OBVIOUS
  <2>1. m \in DOMAIN stack /\ stack[m].level < level
    BY <1>4, <1>6
  <2>2. k \in DOMAIN stack /\ stack[k].level \in 1..4 /\ stack[m].level \in 1..4
    BY <1>1, <1>6, <2>1
  <2>3. k = m \/ stack[k].level < stack[m].level
    BY <1>3, <1>6, <2>1, <2>2
  <2>4. QED
    BY <1>2, <2>1, <2>2, <2>3
<1>8. \A k \in DOMAIN stack : stack[k].level < level => k \in 1..m
  BY <1>1, <1>4, <1>6
<1>9. Stacked(new, i)
  <2>0. added \in Waiting /\ added.level = level /\ added.section = i
    BY <1>2 DEF Waiting
  <2> HIDE DEF added
  <2>1. /\ new \in Seq(Waiting) /\ Len(new) = m + 1 /\ DOMAIN new = 1..(m + 1)
        /\ \A k \in 1..m : new[k] = open[k]
        /\ new[m + 1] = added
    BY <1>6, <2>0 DEF new
  <2>2. /\ \A k \in 1..m : new[k] = stack[k] /\ k \in DOMAIN stack
        /\ new[m + 1].level = level /\ new[m + 1].section = i
        /\ \A k \in DOMAIN new : k \in 1..m \/ k = m + 1
    BY <1>6, <2>0, <2>1
  <2>3. \A k \in DOMAIN new :
           new[k].section \in 1..i /\ entries[new[k].section].level = new[k].level
    <3> SUFFICES ASSUME NEW k \in DOMAIN new
                 PROVE  new[k].section \in 1..i /\ entries[new[k].section].level = new[k].level
      OBVIOUS
    <3>1. CASE k \in 1..m
      <4>1. new[k] = stack[k] /\ k \in DOMAIN stack
        BY <2>2, <3>1
      <4>2. QED
        BY <1>2, <1>3, <4>1
    <3>2. CASE k = m + 1
      BY <1>2, <2>2, <3>2
    <3>3. QED
      BY <2>2, <3>1, <3>2
  <2>4. \A k, l \in DOMAIN new : k < l =>
           new[k].level < new[l].level /\ new[k].section < new[l].section
    <3> SUFFICES ASSUME NEW k \in DOMAIN new, NEW l \in DOMAIN new, k < l
                 PROVE  new[k].level < new[l].level /\ new[k].section < new[l].section
      OBVIOUS
    <3>1. k \in 1..m /\ new[k] = stack[k] /\ k \in DOMAIN stack
      <4>1. k \in 1..m
        BY <1>6, <2>1, <2>2
      <4>2. QED
        BY <2>2, <4>1
    <3>2. CASE l \in 1..m
      <4>1. new[l] = stack[l] /\ l \in DOMAIN stack
        BY <2>2, <3>2
      <4>2. QED
        BY <1>3, <3>1, <4>1
    <3>3. CASE l = m + 1
      <4>1. stack[k].level < level /\ stack[k].section \in 1..n
        BY <1>3, <1>7, <3>1
      <4>2. QED
        BY <1>2, <2>2, <3>1, <3>3, <4>1
    <3>4. QED
      BY <2>2, <3>2, <3>3
  <2>5. \A j \in 1..i : \E k \in DOMAIN new :
           j <= new[k].section /\ new[k].level <= entries[j].level
    <3> SUFFICES ASSUME NEW j \in 1..i
                 PROVE  \E k \in DOMAIN new :
                           j <= new[k].section /\ new[k].level <= entries[j].level
      OBVIOUS
    <3>1. m + 1 \in DOMAIN new /\ j <= new[m + 1].section
      BY <1>2, <1>6, <2>1, <2>2
    <3>2. CASE j = i
      <4>1. new[m + 1].level <= entries[j].level
        BY <1>2, <2>2, <3>2
      <4>2. QED
        BY <3>1, <4>1
    <3>3. CASE j \in 1..n
      <4>1. PICK k \in DOMAIN stack : j <= stack[k].section /\ stack[k].level <= entries[j].level
        BY <1>3, <3>3
      <4>2. CASE k \in 1..m
        <5>1. k \in DOMAIN new /\ new[k] = stack[k]
          BY <1>6, <2>1, <2>2, <4>2
        <5>2. QED
          BY <4>1, <5>1
      <4>3. CASE k \notin 1..m
        <5>1. ~ (stack[k].level < level) /\ stack[k].level \in 1..4 /\ entries[j].level \in 1..4
          BY <1>1, <1>2, <1>8, <4>3
        <5>2. new[m + 1].level <= entries[j].level
          BY <1>2, <2>2, <4>1, <5>1
        <5>3. QED
          BY <3>1, <5>2
      <4>4. QED
        BY <4>2, <4>3
    <3>4. QED
      BY <1>2, <3>2, <3>3
  <2>6. QED
    BY <2>1, <2>3, <2>4, <2>5 DEF Stacked, Waiting
<1> DEFINE before == {0} \cup Shallower(i)
           latest == Cut!Max(before)
<1>10. latest \in before /\ (\A j \in before : j <= latest) /\ latest \in 0..(i - 1)
  <2>1. before \in SUBSET (0..(i - 1)) /\ before # {} /\ i - 1 \in Nat
    BY <1>2 DEF Shallower
  <2> HIDE DEF before
  <2>2. latest \in before /\ \A j \in before : j <= latest
    BY <2>1, GreatestPosition
  <2>3. QED
    BY <2>1, <2>2
<1> HIDE DEF latest
<1>11. ASSUME latest # 0
       PROVE  \E k \in 1..m : latest <= stack[k].section
  <2>1. latest \in 1..n /\ entries[latest].level < level
    BY <1>2, <1>10, <1>11 DEF Shallower
  <2>2. PICK k \in DOMAIN stack :
           latest <= stack[k].section /\ stack[k].level <= entries[latest].level
    BY <1>3, <2>1
  <2>3. stack[k].level \in 1..4 /\ entries[latest].level \in 1..4
    BY <1>1, <1>2, <2>1
  <2>4. k \in 1..m
    BY <1>2, <1>8, <2>1, <2>2, <2>3
  <2>5. QED
    BY <2>2, <2>4
<1>12. (IF open = <<>> THEN 0 ELSE open[Len(open)].section) = latest
  <2>1. CASE m = 0
    <3>1. open = <<>>
      BY <1>6, <2>1
    <3>2. latest = 0
      BY <1>11, <2>1
    <3>3. QED
      BY <3>1, <3>2
  <2>2. CASE m # 0
    <3>1. m \in 1..m /\ m \in DOMAIN stack /\ open[m] = stack[m] /\ Len(open) = m /\ open # <<>>
      BY <1>6, <2>2
    <3>2. stack[m].section \in Shallower(i) /\ stack[m].section \in 1..n
      <4>1. stack[m].section \in 1..n /\ entries[stack[m].section].level = stack[m].level
        BY <1>3, <3>1
      <4>2. stack[m].level < level
        BY <1>7, <3>1
      <4>3. QED
        BY <1>2, <4>1, <4>2 DEF Shallower
    <3>3. stack[m].section <= latest
      BY <1>10, <3>2
    <3>4. PICK k \in 1..m : latest <= stack[k].section
      BY <1>2, <1>10, <1>11, <3>2, <3>3
    <3>5. stack[k].section <= stack[m].section
      <4>1. k \in DOMAIN stack /\ stack[k].section \in Nat /\ stack[m].section \in Nat
        BY <1>1, <1>6, <3>1
      <4>2. CASE k = m
        BY <4>1, <4>2
      <4>3. CASE k < m
        BY <1>3, <3>1, <4>1, <4>3
      <4>4. QED
        BY <1>6, <4>2, <4>3
    <3>6. latest = stack[m].section
      BY <1>1, <1>6, <1>10, <3>2, <3>3, <3>4, <3>5
    <3>7. QED
      BY <3>1, <3>6
  <2>3. QED
    BY <2>1, <2>2
<1>13. QED
  BY <1>9, <1>10, <1>12 DEF new, open, latest

LEMMA SectionKeeps ==
    ASSUME TreeInv, Cut!AddSection
    PROVE  TreeInv'
<1> DEFINE i == Len(sections) + 1
           level == entries[i].level
           open == Cut!Open(level)
           Sections == [parent : Nat, first : Nat, last : Nat]
           section == [parent |-> IF open = <<>> THEN 0 ELSE open[Len(open)].section,
                       first |-> entries[i].page, last |-> Cut!LastPage(i)]
<1>1. /\ sections' = Append(sections, section)
      /\ stack' = Append(open, [level |-> level, section |-> i])
      /\ UNCHANGED <<pc, reached, manual, entries>> /\ pc = "tree"
      /\ Len(sections) < Len(entries)
  BY DEF Cut!AddSection
<1>2. /\ Ordered /\ Stacked(stack, Len(sections)) /\ sections \in Seq(Sections)
      /\ Len(sections) \in Nat /\ manual # <<>> /\ manual \in Seq(Seq(1..4))
      /\ Len(manual) \in Nat /\ entries # <<>>
      /\ \A k \in DOMAIN sections : IsSection(sections[k], k)
  <2>1. sections \in Seq(Sections) /\ manual \in Seq(Seq(1..4))
    BY DEF TreeInv
  <2>2. Len(sections) \in Nat /\ Len(manual) \in Nat
    BY <2>1
  <2>3. QED
    BY <1>1, <2>1, <2>2 DEF TreeInv
<1>3. i \in DOMAIN entries /\ Len(entries) \in Nat
  <2>1. entries \in Seq(OutlineEntries)
    BY <1>2 DEF Ordered
  <2>2. QED
    BY <1>1, <1>2, <2>1
<1>4. /\ Stacked(Append(open, [level |-> level, section |-> i]), i)
      /\ Cut!Max({0} \cup Shallower(i)) \in 0..(i - 1)
      /\ (IF open = <<>> THEN 0 ELSE open[Len(open)].section) = Cut!Max({0} \cup Shallower(i))
  BY <1>2, <1>3, OpenIs
<1>5. IsSection(section, i)
  BY <1>4 DEF IsSection
<1>6. section \in Sections
  <2>1. section.parent = Cut!Max({0} \cup Shallower(i)) /\ i - 1 \in Nat
    BY <1>2, <1>4
  <2>2. Cut!LastPage(i) \in Nat /\ entries[i].page \in Nat
    BY <1>2, <1>3, LastPageIs
  <2>3. QED
    BY <1>4, <2>1, <2>2
<1> HIDE DEF section, open, level
<1>7. /\ sections' \in Seq(Sections) /\ Len(sections') = i /\ DOMAIN sections' = 1..i
      /\ \A k \in DOMAIN sections : sections'[k] = sections[k]
      /\ sections'[i] = section /\ DOMAIN sections = 1..(i - 1) /\ i \in Nat
  <2> HIDE DEF Sections
  <2>1. QED
    BY <1>1, <1>2, <1>6
<1> HIDE DEF i
<1>8. \A k \in 1..i : IsSection(sections'[k], k)
  <2> SUFFICES ASSUME NEW k \in 1..i PROVE IsSection(sections'[k], k)
    OBVIOUS
  <2>1. CASE k = i
    BY <1>5, <1>7, <2>1
  <2>2. CASE k # i
    <3>1. k \in DOMAIN sections
      BY <1>7, <2>2
    <3>2. sections'[k] = sections[k]
      BY <1>7, <3>1
    <3>3. QED
      BY <1>2, <3>1, <3>2
  <2>3. QED
    BY <2>1, <2>2
<1>9. (\A k \in DOMAIN sections : IsSection(sections[k], k))'
  <2> SUFFICES ASSUME NEW k \in DOMAIN sections' PROVE IsSection(sections[k], k)'
    OBVIOUS
  <2>1. IsSection(sections'[k], k)
    BY <1>7, <1>8
  <2>2. entries' = entries /\ manual' = manual
    BY <1>1
  <2>3. QED
    BY ONLY <2>1, <2>2 DEF IsSection, Shallower, Cut!LastPage, Cut!Max
<1>10. Stacked(stack, Len(sections))'
  <2> DEFINE new == Append(open, [level |-> level, section |-> i])
  <2>1. stack' = new /\ Len(sections') = i /\ entries' = entries /\ Stacked(new, i)
    BY <1>1, <1>4, <1>7
  <2> HIDE DEF new
  <2>2. QED
    BY ONLY <2>1 DEF Stacked
<1>11. Ordered'
  BY <1>1, <1>2 DEF Ordered
<1>12. Len(sections') <= Len(entries')
  BY <1>1, <1>2, <1>3, <1>7 DEF i
<1>13. QED
  BY <1>1, <1>2, <1>7, <1>9, <1>10, <1>11, <1>12 DEF TreeInv

\* What is built stays as it is while nothing is added.
LEMMA TreeStands ==
    ASSUME UNCHANGED <<manual, entries, stack, sections>>
    PROVE  /\ Ordered => Ordered'
           /\ Stacked(stack, Len(sections)) => Stacked(stack, Len(sections))'
           /\ (\A i \in DOMAIN sections : IsSection(sections[i], i))
                 => (\A i \in DOMAIN sections : IsSection(sections[i], i))'
<1>1. manual' = manual /\ entries' = entries /\ stack' = stack /\ sections' = sections
  OBVIOUS
<1>2. Ordered => Ordered'
  BY ONLY <1>1 DEF Ordered
<1>3. Stacked(stack, Len(sections)) => Stacked(stack, Len(sections))'
  BY ONLY <1>1 DEF Stacked
<1>4. ASSUME \A i \in DOMAIN sections : IsSection(sections[i], i),
             NEW i \in DOMAIN sections'
      PROVE  IsSection(sections[i], i)'
  <2>1. IsSection(sections[i], i)
    BY <1>1, <1>4
  <2>2. QED
    BY ONLY <1>1, <2>1 DEF IsSection, Shallower, Cut!LastPage, Cut!Max
<1>5. QED
  BY <1>2, <1>3, <1>4

LEMMA BuiltKeeps ==
    ASSUME TreeInv, Cut!Built
    PROVE  TreeInv'
<1>1. /\ UNCHANGED <<manual, entries, stack, sections>>
      /\ pc = "tree" /\ pc' = "built" /\ Len(sections) = Len(entries)
  BY DEF Cut!Built
<1>2. QED
  BY <1>1, TreeStands DEF TreeInv

LEMMA TreeSuffices ==
    ASSUME TreeInv
    PROVE  Cut!TreeSound
<1> SUFFICES ASSUME pc = "built" PROVE Cut!TreeSound
  BY DEF Cut!TreeSound
<1>1. /\ Ordered /\ entries \in Seq(OutlineEntries) /\ entries # <<>>
      /\ Len(sections) = Len(entries) /\ Len(manual) \in Nat
      /\ \A i \in DOMAIN sections : IsSection(sections[i], i)
  <2>1. manual \in Seq(Seq(1..4))
    BY DEF TreeInv
  <2>2. QED
    BY <2>1 DEF TreeInv, Ordered
<1>2. /\ Len(entries) \in Nat \ {0} /\ DOMAIN entries = 1..Len(entries)
      /\ DOMAIN sections = DOMAIN entries
  <2>1. sections \in Seq([parent : Nat, first : Nat, last : Nat])
    BY DEF TreeInv
  <2>2. DOMAIN sections = 1..Len(sections)
    BY <2>1
  <2>3. QED
    BY <1>1, <2>2
<1>3. \A i \in DOMAIN entries :
         /\ sections[i].parent = Cut!Max({0} \cup Shallower(i))
         /\ sections[i].first = entries[i].page /\ sections[i].last = Cut!LastPage(i)
  <2> SUFFICES ASSUME NEW i \in DOMAIN entries
               PROVE  /\ sections[i].parent = Cut!Max({0} \cup Shallower(i))
                      /\ sections[i].first = entries[i].page /\ sections[i].last = Cut!LastPage(i)
    OBVIOUS
  <2>1. IsSection(sections[i], i)
    BY <1>1, <1>2
  <2>2. QED
    BY ONLY <2>1 DEF IsSection
<1>4. \A i \in DOMAIN sections :
         sections[i].parent =
             Cut!Max({0} \cup {j \in 1..(i - 1) : entries[j].level < entries[i].level})
  BY <1>2, <1>3 DEF Shallower
<1>5. ASSUME NEW p \in sections[1].first..Len(manual)
      PROVE  LET owners == {i \in DOMAIN sections : sections[i].first <= p /\ p <= sections[i].last}
             IN /\ owners # {}
                /\ Cut!Cardinality(owners) > 1 => \A i \in owners : sections[i].first = p
  <2> DEFINE owners == {i \in DOMAIN sections : sections[i].first <= p /\ p <= sections[i].last}
             starts == {i \in DOMAIN entries : entries[i].page <= p}
  <2>1. /\ 1 \in DOMAIN entries /\ entries[1].page \in Nat /\ sections[1].first = entries[1].page
        /\ p \in Nat /\ entries[1].page <= p /\ p <= Len(manual)
    <3>1. 1 \in DOMAIN entries
      BY <1>2
    <3>2. sections[1].first = entries[1].page /\ entries[1].page \in Nat
      BY <1>1, <1>3, <3>1, LastPageIs
    <3>3. QED
      BY <1>1, <1>5, <3>1, <3>2
  <2>2. \A i \in DOMAIN entries :
           i \in owners <=> entries[i].page <= p /\ p <= Cut!LastPage(i)
    BY <1>2, <1>3
  <2>3. owners # {}
    <3> DEFINE i == Cut!Max(starts)
    <3>1. i \in starts /\ \A j \in starts : j <= i
      <4>1. starts \in SUBSET (0..Len(entries)) /\ starts # {}
        BY <1>2, <2>1
      <4> HIDE DEF starts
      <4>2. QED
        BY <1>2, <4>1, GreatestPosition
    <3> HIDE DEF i
    <3>2. i \in DOMAIN entries /\ i \in 1..Len(entries)
      BY <1>2, <3>1
    <3>3. p <= Cut!LastPage(i)
      <4>1. CASE i = Len(entries)
        BY <1>1, <2>1, <3>2, <4>1, LastPageIs
      <4>2. CASE i < Len(entries)
        <5>1. /\ i + 1 \in DOMAIN entries /\ entries[i + 1].page \in Nat
              /\ entries[i + 1].page - 1 <= Cut!LastPage(i) /\ Cut!LastPage(i) \in Nat
          BY <1>1, <3>2, <4>2, LastPageIs
        <5>2. i + 1 \notin starts
          BY <3>1, <3>2
        <5>3. ~ (entries[i + 1].page <= p)
          BY <5>1, <5>2
        <5>4. QED
          BY <2>1, <5>1, <5>3
      <4>3. QED
        BY <1>2, <3>2, <4>1, <4>2
    <3>4. i \in owners
      BY <2>2, <3>1, <3>2, <3>3
    <3>5. QED
      BY <3>4
  <2>4. ASSUME NEW i \in owners, sections[i].first # p
        PROVE  Cut!Cardinality(owners) = 1
    <3>1. /\ i \in DOMAIN entries /\ entries[i].page \in Nat /\ Cut!LastPage(i) \in Nat
          /\ entries[i].page < p /\ p <= Cut!LastPage(i) /\ i \in 1..Len(entries)
      <4>1. i \in DOMAIN entries
        BY <1>2
      <4>2. entries[i].page \in Nat /\ Cut!LastPage(i) \in Nat
        BY <1>1, <4>1, LastPageIs
      <4>3. entries[i].page <= p /\ p <= Cut!LastPage(i) /\ entries[i].page # p
        BY <1>3, <2>2, <2>4, <4>1
      <4>4. QED
        BY <1>2, <2>1, <4>1, <4>2, <4>3
    <3>2. ASSUME NEW j \in owners, NEW k \in owners, j < k, i \in {j, k}
          PROVE  FALSE
      <4>1. /\ j \in DOMAIN entries /\ k \in DOMAIN entries /\ j \in 1..Len(entries)
            /\ k \in 1..Len(entries) /\ p <= Cut!LastPage(j) /\ entries[k].page <= p
        BY <1>2, <2>2
      <4>2. /\ entries[j].page \in Nat /\ entries[k].page \in Nat /\ Cut!LastPage(j) \in Nat
            /\ j < Len(entries)
        <5>1. entries[j].page \in Nat /\ entries[k].page \in Nat /\ Cut!LastPage(j) \in Nat
          BY <1>1, <4>1, LastPageIs
        <5>2. j < Len(entries)
          BY <1>2, <3>2, <4>1
        <5>3. QED
          BY <5>1, <5>2
      <4>3. /\ j + 1 \in DOMAIN entries /\ entries[j + 1].page \in Nat
            /\ \/ Cut!LastPage(j) = entries[j].page
               \/ Cut!LastPage(j) = entries[j + 1].page - 1
        BY <1>1, <4>1, <4>2, LastPageIs
      <4>4. entries[j].page <= entries[k].page /\ entries[j + 1].page <= entries[k].page
        <5>1. entries[j].page <= entries[k].page
          BY <1>1, <3>2, <4>1 DEF Ordered
        <5>2. j + 1 = k \/ j + 1 < k
          BY <3>2, <4>1
        <5>3. entries[j + 1].page <= entries[k].page
          BY <1>1, <4>1, <4>2, <4>3, <5>2 DEF Ordered
        <5>4. QED
          BY <5>1, <5>3
      <4>5. entries[j].page < p
        BY <2>1, <3>1, <3>2, <4>2, <4>4, SMTT(30)
      <4>6. Cut!LastPage(j) = entries[j + 1].page - 1
        BY <2>1, <4>1, <4>2, <4>3, <4>5
      <4>7. QED
        BY <2>1, <4>1, <4>2, <4>3, <4>4, <4>6
    <3>3. owners = {i}
      <4>1. ASSUME NEW j \in owners PROVE j = i
        <5>1. j \in Nat /\ i \in Nat
          BY <1>2, <3>1
        <5>2. ~ (j < i) /\ ~ (i < j)
          BY <3>2
        <5>3. QED
          BY <5>1, <5>2
      <4>2. QED
        BY <4>1
    <3> HIDE DEF owners
    <3>4. Cardinality(owners) = 1
      BY <3>3, FS_Singleton
    <3>5. QED
      BY <3>4, Zenon DEF Cut!Cardinality, Cardinality
  <2>5. QED
    <3>1. Cut!Cardinality(owners) > 1 => \A i \in owners : sections[i].first = p
      BY <2>4
    <3>2. QED
      BY <2>3, <3>1
<1>6. QED
  BY <1>4, <1>5 DEF Cut!TreeSound

CutInv ==
    /\ pc \in {"split", "done", "outline", "headings", "tree", "built"}
    /\ IF pc \in {"split", "done"} THEN ScanInv ELSE TreeInv

LEMMA CutInit ==
    ASSUME Cut!TextAssumption, Cut!Init
    PROVE  CutInv
<1>1. /\ reached = 0 /\ group = <<>> /\ chunks = <<>>
      /\ entries = <<>> /\ stack = <<>> /\ sections = <<>>
  BY DEF Cut!Init
<1>2. CASE text \in Texts /\ manual = <<>> /\ pc = "split"
  <2>1. Prosaic /\ Len(text) \in Nat
    <3>1. text \in Seq(Lines) /\ Cut!Counted(text)
      BY <1>2 DEF Cut!TextAssumption, Lines
    <3>2. QED
      BY <3>1 DEF Prosaic
  <2>2. Holds(<<>>, 0)
    <3>1. <<>> \in Seq(Nat \X Nat) /\ (\A k \in DOMAIN <<>> : FALSE) /\ (\A i \in 1..0 : FALSE)
      OBVIOUS
    <3>2. QED
      BY <3>1 DEF Holds
  <2>3. Cut!Flushed = <<>> /\ chunks \in Seq(Nat \X Nat) /\ reached \in 0..Len(text)
    BY <1>1, <2>1 DEF Cut!Flushed
  <2>4. QED
    BY <1>1, <1>2, <2>1, <2>2, <2>3 DEF CutInv, ScanInv
<1>3. CASE manual \in Manuals /\ pc = "outline"
  <2>1. manual \in Seq(Seq(1..4)) /\ manual # <<>>
    BY <1>3 DEF Cut!TextAssumption
  <2>2. Ordered /\ Len(entries) = 0
    <3>1. /\ Len(entries) = 0 /\ (\A i \in DOMAIN entries : FALSE)
          /\ entries \in Seq(OutlineEntries)
      BY <1>1
    <3>2. QED
      BY <3>1 DEF Ordered
  <2>3. /\ Stacked(stack, Len(sections)) /\ Len(sections) = 0
        /\ sections \in Seq([parent : Nat, first : Nat, last : Nat])
        /\ \A i \in DOMAIN sections : IsSection(sections[i], i)
    <3>1. Len(sections) = 0 /\ (\A k \in DOMAIN stack : FALSE) /\ (\A i \in DOMAIN sections : FALSE)
      BY <1>1
    <3>2. stack \in Seq([level : 1..4, section : Nat])
      BY <1>1
    <3>3. sections \in Seq([parent : Nat, first : Nat, last : Nat])
      BY <1>1
    <3>4. \A j \in 1..Len(sections) : FALSE
      BY <3>1
    <3>5. QED
      BY <3>1, <3>2, <3>3, <3>4 DEF Stacked
  <2>4. QED
    BY <1>1, <1>3, <2>1, <2>2, <2>3 DEF CutInv, TreeInv
<1>4. QED
  BY <1>2, <1>3 DEF Cut!Init

LEMMA CutKeeps ==
    ASSUME Cut!TextAssumption, CutInv, [Cut!Next]_(Cut!vars)
    PROVE  CutInv'
<1>1. CASE UNCHANGED Cut!vars
  <2>1. UNCHANGED <<pc, text, reached, group, chunks, manual, entries, stack, sections>>
    BY <1>1 DEF Cut!vars
  <2>2. ScanInv => ScanInv'
    <3>1. Cut!Flushed' = Cut!Flushed
      BY <2>1 DEF Cut!Flushed
    <3>2. Prosaic => Prosaic'
      BY <2>1 DEF Prosaic, Cut!Counted, Cut!Upto
    <3>3. Holds(Cut!Flushed, reached) => Holds(Cut!Flushed, reached)'
      BY <2>1, <3>1 DEF Holds, Kept, Cut!Size, Cut!Upto
    <3>4. QED
      BY <2>1, <3>2, <3>3 DEF ScanInv
  <2>3. TreeInv => TreeInv'
    BY <2>1, TreeStands DEF TreeInv
  <2>4. QED
    BY <2>1, <2>2, <2>3 DEF CutInv
<1>2. CASE Cut!NextParagraph
  BY <1>2, ParagraphKeeps DEF CutInv, Cut!NextParagraph
<1>3. CASE Cut!NextHeading \/ Cut!EndOfText
  BY <1>3, FlushKeeps DEF CutInv, Cut!NextHeading, Cut!EndOfText
<1>4. CASE Cut!Outline
  BY <1>4, OutlineKeeps DEF CutInv, Cut!Outline
<1>5. CASE Cut!RegexOutline \/ Cut!OrWhole
  BY <1>5, HeadingsKeep DEF CutInv, Cut!RegexOutline, Cut!OrWhole
<1>6. CASE Cut!AddSection
  BY <1>6, SectionKeeps DEF CutInv, Cut!AddSection
<1>7. CASE Cut!Built
  BY <1>7, BuiltKeeps DEF CutInv, Cut!Built
<1>8. QED
  BY <1>1, <1>2, <1>3, <1>4, <1>5, <1>6, <1>7 DEF Cut!Next

LEMMA CutSuffices ==
    ASSUME CutInv
    PROVE  Cut!TextKept /\ Cut!TreeSound
<1>1. CASE pc \in {"split", "done"}
  BY <1>1, ScanSuffices DEF CutInv, Cut!TreeSound
<1>2. CASE pc \notin {"split", "done"}
  BY <1>2, TreeSuffices DEF CutInv, Cut!TextKept
<1>3. QED
  BY <1>1, <1>2

\* Whatever the text, the chunks SectionChunker.split leaves hold each line of text once
\* and in order; and whatever outline a manual has, the tree _build_tree makes of it has
\* every section under the latest that is less deep, and from the first heading on
\* gives every page an owner, and two only where both begin.
THEOREM TextIsCutWhole == Spec => []CutSound
<1> DEFINE Inv == stage = "cut" => CutInv
<1>1. Init => Inv
  BY CutInit, KnowledgeAssumption DEF Init
<1>2. Inv /\ [Next]_vars => Inv'
  BY StageSteps, CutKeeps, KnowledgeAssumption
<1>3. Inv => CutSound
  BY CutSuffices DEF CutSound
<1>4. QED
  BY <1>1, <1>2, <1>3, PTL DEF Spec

=============================================================================
