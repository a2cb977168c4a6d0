---------------------------- MODULE GroundedDrafts ----------------------------
(***************************************************************************)
(* What the agents make of a question about one piece of equipment: an     *)
(* agent calls graph tools and answers, the tags it names are checked      *)
(* against what the tools returned, and an alert, a permit, an assessment  *)
(* or a report is built; a failure alert is followed by a work order       *)
(* draft, and an approved draft becomes a job card in each language.       *)
(*                                                                         *)
(* Lists are the sets of what they hold.  A tag is a value like any other  *)
(* that a tool may return.                                                 *)
(***************************************************************************)
EXTENDS Naturals, FiniteSets

CONSTANTS
    Tags,        \* equipment the graph or a model may name
    Subject,     \* the equipment the question is about
    Clauses, Procedures,
    Languages,   \* LANGUAGE_NAMES, but for English
    Codes,       \* the codes a crew's cards are asked in
    Imports,     \* whether the drafter's import of LLM works: in the code as it is, FALSE
    MaxSteps,
    MaxChanges,  \* bound: changes of the graph meanwhile
    None

DraftAssumption ==
    /\ Subject \in Tags /\ MaxSteps \in Nat /\ MaxChanges \in Nat /\ Imports \subseteq BOOLEAN

VARIABLES
    graph,     \* what the graph holds of the subject, by relation
    trigger,   \* the siblings that failed alike and the count of occurrences
    case,      \* the use-case under way
    phase,     \* "asked", "answered", "built", "drafted" or "carded"
    trace,     \* the tools called, with what they returned
    claimed,   \* the tags the answer names
    artifact,  \* the alert, permit, assessment or report
    draft, card,
    held,      \* all the graph has held of the subject since; nothing reads it
    changes
vars == <<graph, trigger, case, phase, trace, claimed, artifact, draft, card, held, changes>>

Relations == {"connected", "siblings", "clauses", "overdue", "procedures"}
Domain(relation) ==
    IF relation \in {"connected", "siblings"} THEN Tags \ {Subject}
    ELSE IF relation = "procedures" THEN Procedures ELSE Clauses
Graphs ==
    {[connected |-> m, siblings |-> n, clauses |-> c, overdue |-> o, procedures |-> p] :
        m \in SUBSET Domain("connected"), n \in SUBSET Domain("siblings"),
        c \in SUBSET Clauses, o \in SUBSET Clauses, p \in SUBSET Procedures}
Overdue == graph["overdue"] \intersect graph["clauses"]

Streamed == {"permit_stream", "assessment_stream"}
Cases == {"alert", "permit", "assessment", "report"} \union Streamed

Init ==
    /\ graph \in Graphs
    /\ trigger \in [siblings : {graph["siblings"]}, count : 1..2]
    /\ case \in Cases /\ phase = "asked" /\ trace = {} /\ claimed = {}
    /\ artifact = None /\ draft = None /\ card = None /\ held = graph /\ changes = 0

-----------------------------------------------------------------------------
(* Reasoning over the graph *)

Recurring == trigger.siblings # {} /\ trigger.count >= 2

\* What an agent may call: an investigation has no tool for clauses, and only it and the
\* report look at siblings.  Each tool reads one relation, at the moment it is called.
Tools ==
    {"connected", "procedures"}
    \union (IF case = "alert" THEN {} ELSE {"clauses"})
    \union (IF case \in {"alert", "report"} THEN {"siblings"} ELSE {})
Rows(tool) == graph[tool]

Returned(tools) == UNION {call[2] : call \in {c \in trace : c[1] \in tools}}

\* check_grounding: every tag named is in the trigger or in some result.
Given == {Subject} \union IF case = "alert" THEN trigger.siblings ELSE {}
Ungrounded(tags) == tags \ (Given \union Returned(Tools))

CallTool ==
    /\ phase = "asked" /\ Cardinality(trace) < MaxSteps
    /\ \E tool \in Tools :
          /\ tool \notin {call[1] : call \in trace}
          /\ \E rows \in {Rows(tool), {}} : trace' = trace \union {<<tool, rows>>}
    /\ UNCHANGED <<graph, trigger, case, phase, claimed, artifact, draft, card, held, changes>>

AnswerGiven ==
    /\ phase = "asked" /\ phase' = "answered" /\ claimed' \in SUBSET Tags
    /\ UNCHANGED <<graph, trigger, case, trace, artifact, draft, card, held, changes>>

\* A delta lands between two reads (nothing reads the graph once the artifact is built).
GraphChanges ==
    /\ changes < MaxChanges /\ changes' = changes + 1 /\ phase \in {"asked", "answered"}
    /\ \E r \in Relations : \E rows \in SUBSET Domain(r) :
          graph' = [graph EXCEPT ![r] = rows] /\ held' = [held EXCEPT ![r] = @ \union rows]
    /\ UNCHANGED <<trigger, case, phase, trace, claimed, artifact, draft, card>>

-----------------------------------------------------------------------------
(* Artifacts *)

\* The investigation's severity: a pattern is critical only if it is grounded.
Severity(verified) == IF Recurring /\ verified THEN "critical" ELSE "warning"

\* The broker's compliance flags, for whoever asks it: the streams do not.
Flags == IF case \in {"permit", "assessment", "report"} THEN Overdue ELSE {}

\* What every artifact takes out of the trace, whatever the answer says.
Artifact(severity, flags) ==
    [severity |-> severity, flags |-> flags,
     names |-> claimed,
     verified |-> Ungrounded(claimed) = {},
     connected |-> Returned({"connected"}),
     clauses |-> Returned({"clauses"}),
     procedures |-> Returned({"procedures"})]

Alert == Artifact(Severity(Ungrounded(claimed) = {}), {})
Permit == Artifact("none", Flags)
Assessment == Artifact("none", Flags)
Report == Artifact("none", Flags)

Build ==
    /\ phase = "answered" /\ phase' = "built" /\ claimed' = {}
    /\ artifact' = CASE case = "alert" -> Alert
                     [] case \in {"permit", "permit_stream"} -> Permit
                     [] case \in {"assessment", "assessment_stream"} -> Assessment
                     [] case = "report" -> Report
    /\ UNCHANGED <<graph, trigger, case, trace, draft, card, held, changes>>

\* Mutant: the cap forgotten.
PriorityUncapped(clauses, verified) ==
    IF Recurring /\ clauses # {} THEN "immediate"
    ELSE IF Recurring \/ clauses # {} THEN "high"
    ELSE IF trigger.count >= 2 THEN "medium" ELSE "low"

\* derive_priority.
Priority(clauses, verified) ==
    IF ~verified THEN IF Recurring THEN "medium" ELSE "low"
    ELSE IF Recurring /\ clauses # {} THEN "immediate"
    ELSE IF Recurring \/ clauses # {} THEN "high"
    ELSE IF trigger.count >= 2 THEN "medium" ELSE "low"

\* _prose: the model's two fields; on an exception the beginning of the answer.  Before
\* either it imports a name that the llm package does not have, and raises.
Proses(imported) == IF imported THEN SUBSET Tags ELSE {}

DraftOrder ==
    /\ phase = "built" /\ case = "alert" /\ phase' = "drafted"
    /\ \E imported \in Imports :
       \/ \E prose \in Proses(imported) :
             draft' = [affected |-> {Subject} \union Returned({"siblings", "connected"}),
                       clauses |-> Returned({"clauses"}),
                       procedures |-> Returned({"procedures"}),
                       names |-> prose,
                       verified |-> Ungrounded(prose) = {},
                       priority |-> Priority(Returned({"clauses"}), Ungrounded(prose) = {})]
       \/ Proses(imported) = {} /\ UNCHANGED draft
    /\ artifact' = None   \* the alert is out
    /\ UNCHANGED <<graph, trigger, case, trace, claimed, card, held, changes>>

\* from_compliance: an obligation looked up by its id, as preventive work.
ScheduleInspection ==
    /\ phase = "asked" /\ trace = {} /\ phase' = "drafted"
    /\ \E c \in graph["clauses"] :
          draft' = [affected |-> {Subject}, clauses |-> {c}, procedures |-> {},
                    names |-> {Subject}, verified |-> TRUE,
                    priority |-> IF c \in Overdue THEN "high" ELSE "medium"]
    /\ case' = "inspection"
    /\ UNCHANGED <<graph, trigger, trace, claimed, artifact, card, held, changes>>

-----------------------------------------------------------------------------
(* Job cards *)

\* _carry_references: procedures and clauses come off the draft.
References == draft.procedures \union draft.clauses

\* Mutant: the references as the model translated them.
CardsAsWritten(code) ==
    {[lang |-> "en", references |-> References]}
    \union (IF code \in Languages
            THEN {[lang |-> code, references |-> r] : r \in SUBSET (Clauses \union Procedures)}
            ELSE {})

\* A card in a language: the references are those of the English one whatever the model
\* wrote; without a name for the language, or after a failure, it stays English.
Cards(code) ==
    {[lang |-> "en", references |-> References]}
    \union (IF code \in Languages THEN {[lang |-> code, references |-> References]} ELSE {})

BuildCards ==
    /\ phase = "drafted" /\ draft # None /\ phase' = "carded"
    /\ card' \in {f \in [Codes -> UNION {Cards(code) : code \in Codes}] :
                    \A code \in Codes : f[code] \in Cards(code)}
    /\ UNCHANGED <<graph, trigger, case, trace, claimed, artifact, draft, held, changes>>

Next ==
    \/ CallTool \/ AnswerGiven \/ GraphChanges \/ Build \/ DraftOrder \/ ScheduleInspection
    \/ BuildCards

Spec == Init /\ [][Next]_vars

-----------------------------------------------------------------------------
(* Properties *)

\* What a reader may take for a fact: what the graph held of the subject at some time
\* while the case was reasoned about.
Known == {Subject} \union UNION {held[r] : r \in Relations}
Citable == held["clauses"] \union held["procedures"]
Urgent(order) == order.priority \in {"high", "immediate"}

\* "So nothing could invent them": whatever the model writes, whichever tools and calls
\* fail and however the graph changes under them, an artifact that is verified or
\* critical, and an order that is verified or urgent, names no tag the graph never held;
\* and no obligation or procedure is cited, on an artifact or a card in any language,
\* that it never held.
NothingInvented ==
    /\ artifact # None =>
          /\ artifact.verified \/ artifact.severity = "critical" => artifact.names \subseteq Known
          /\ artifact.clauses \union artifact.procedures \union artifact.flags \subseteq Citable
    /\ draft # None =>
          /\ draft.verified \/ Urgent(draft) => draft.names \subseteq Known
          /\ draft.affected \subseteq Known
    /\ card # None => \A code \in Codes : card[code].references \subseteq Citable

\* _prose's docstring: it falls back to the investigation's narrative "rather than failing
\* the draft", so that an investigated failure is always followed by a draft.  It never
\* is, as the code stands.
DraftSurvives == case = "alert" /\ phase = "drafted" => draft # None
===============================================================================
