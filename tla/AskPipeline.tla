----------------------------- MODULE AskPipeline -----------------------------
(***************************************************************************)
(* A question to the retrieval service: it is linked to nodes, routed to a *)
(* mode, given evidence and a context, set under the corrections engineers *)
(* have made, answered, and the answer read for what it cites.             *)
(*                                                                         *)
(* The context is the set of documents whose ids can be read in it; the    *)
(* evidence the passages the service itself knows it has shown.  The graph *)
(* stands still except for corrections, which may come in at any moment.   *)
(* Ids are cited whole, so that a citation names one document; the words   *)
(* of a persona and of an alert are left out, and so are file names.       *)
(***************************************************************************)
EXTENDS Naturals, Sequences, FiniteSets, SequencesExt

CONSTANTS
    Askers, Questions, Nodes, Docs,
    Unsourced,       \* no document: a relation or a row without one
    Invented,        \* an id the model makes up
    Standalone,      \* Standalone[q]: what the condenser makes of q in its thread
    Words,           \* Words[q]: which of "causal" and "digest" the words of q signal
    Tags, Standards, Phrases,  \* [q]: the nodes that match, in the order they are found
    Relations,       \* [n]: the documents of the relations of node n
    WorkOrders,      \* [n]: the documents of its work orders, the latest first
    Passages,        \* passage ids
    PassageOf,       \* [p]: the document of passage p
    Names,           \* [p]: the nodes whose surface form passage p contains
    Chains,          \* [q]: the documents of the steps of the paths kept for q, the
                     \* weakest path first
    Overdue, Counts, \* the documents of the plant digest's rows
    Fixes,           \* <<d, f>>: document f corrects document d
    NoAnswer,
    Nearest, NearestLocal, NearestPath,  \* passages a vector search returns: 8, 4, 3
    Named, NamedPath,                    \* and a search by words: 6, 4
    MaxEvidence,     \* 15, of the local mode
    MaxPathEvidence, \* 8, of the assembler
    MaxAsks          \* bound

AskAssumption ==
    /\ Standalone \in [Questions -> Questions]
    /\ Words \in [Questions -> SUBSET {"causal", "digest"}]
    /\ {Tags, Standards, Phrases} \subseteq [Questions -> Seq(Nodes)]
    /\ {Relations, WorkOrders} \subseteq [Nodes -> Seq(Docs \cup {Unsourced})]
    /\ PassageOf \in [Passages -> Docs] /\ Names \in [Passages -> SUBSET Nodes]
    /\ Chains \in [Questions -> Seq(Docs \cup {Unsourced})]
    /\ {Overdue, Counts} \subseteq Seq(Docs \cup {Unsourced})
    /\ Fixes \subseteq Docs \X Docs
    /\ Unsourced \notin Docs /\ Invented \notin Docs
    /\ {Nearest, NearestLocal, NearestPath, Named, NamedPath, MaxEvidence,
        MaxPathEvidence, MaxAsks} \subseteq Nat

VARIABLES
    corrected,  \* the corrections in the graph
    unswept,    \* documents corrected since the agents runtime last dropped answers
    cache,      \* [Questions -> an answer and the documents it is kept under, or NoAnswer]
    pc,
    request,    \* [a]: what is asked, and the corrections there were when it was
    found,      \* [a]: RetrievalService.Prepared
    given,      \* [a]: the answer a got last
    asks

vars == <<corrected, unswept, cache, pc, request, found, given, asks>>

-----------------------------------------------------------------------------
(* Sequences without repetition *)

Firsts(s) == FoldLeft(LAMBDA new, x : IF Contains(new, x) THEN new ELSE Append(new, x), <<>>, s)
Upto(s, n) == SubSeq(s, 1, IF Len(s) < n THEN Len(s) ELSE n)
Sourced(s) == SelectSeq(s, LAMBDA d : d # Unsourced)
Each(s, Op(_)) == [i \in DOMAIN s |-> Op(s[i])]

-----------------------------------------------------------------------------
(* QueryLinker.link and ModeRouter.route *)

\* Phrases are only looked at when nothing else is found.
Seeds(q) ==
    LET exact == Firsts(Tags[q] \o Standards[q])
    IN IF exact = <<>> THEN Firsts(Phrases[q]) ELSE exact

Route(q) ==
    IF Seeds(q) = <<>> THEN "vector"
    ELSE IF Len(Seeds(q)) >= 2 \/ "causal" \in Words[q] THEN "path" ELSE "local"

-----------------------------------------------------------------------------
(* Evidence: a document and what of it was shown *)

WorkOrder(d) == [doc |-> d, kind |-> "work order", id |-> d]
Edge(d)      == [doc |-> d, kind |-> "edge", id |-> d]
Digested(d)  == [doc |-> d, kind |-> "digest", id |-> d]
Passage(p)   == [doc |-> PassageOf[p], kind |-> "passage", id |-> p]

DocsOf(evidence) == {evidence[i].doc : i \in DOMAIN evidence}

\* The passages that come out of a search: the k nearest in some order, or k of those
\* that contain the words.
Rankings(k) ==
    {s \in UNION {TupleOf(Passages, n) : n \in 0..k} :
        IsInjective(s) /\ (Len(s) = k \/ ToSet(s) = Passages)}
Naming(n, k) == Upto(SetToSeq({p \in Passages : n \in Names[p]}), k)

WorkOrdersOf(seeds) == FoldLeft(LAMBDA s, n : s \o WorkOrders[n], <<>>, seeds)

\* What failed, and why, is told without a source; the work orders have theirs.
History(seeds) == Each(Firsts(Sourced(WorkOrdersOf(seeds))), WorkOrder)

\* A mode yields the evidence and the documents named in the context.
Material(evidence, more) == [evidence |-> evidence, shown |-> DocsOf(evidence) \cup more]

VectorContext(near) == Material(Each(near, Passage), {})

RelationsOf(n) == Each(Firsts(Sourced(Relations[n])), Edge)

\* Everything is shown, but only the first of it is evidence.
LocalContext(seed, near) ==
    LET all == History(<<seed>>)
                  \o Each(Firsts(Naming(seed, Named) \o near), Passage)
                  \o RelationsOf(seed)
    IN Material(Upto(all, MaxEvidence), DocsOf(all))

\* A step is backed by a passage of its document, or by itself.
EvidenceFor(d) ==
    LET own == {p \in Passages : PassageOf[p] = d}
    IN IF own = {} THEN Edge(d) ELSE Passage(CHOOSE p \in own : TRUE)

\* The lines of the chains name no document.
PathContext(q, near) ==
    LET built == Upto(Firsts(Each(Sourced(Chains[q]), EvidenceFor)), MaxPathEvidence)
        seeds == Seeds(q)
        named == FoldLeft(LAMBDA s, n : s \o Naming(n, NamedPath), <<>>, Upto(seeds, 2))
        extra == SelectSeq(Firsts(Each(named \o near, Passage)),
                           LAMBDA e : ~ Contains(built, e))
    IN Material(History(seeds) \o built \o extra, {})

\* PathFinder found nothing: the question is answered as one without seeds.
Mode(q) == IF Route(q) = "path" /\ Chains[q] = <<>> THEN "vector" ELSE Route(q)

Hits(q) ==
    CASE Mode(q) = "vector" -> Rankings(Nearest)
      [] Mode(q) = "local"  -> Rankings(NearestLocal)
      [] Mode(q) = "path"   -> Rankings(NearestPath)

ModeContext(q, near) ==
    CASE Mode(q) = "vector" -> VectorContext(near)
      [] Mode(q) = "local"  -> LocalContext(Head(Seeds(q)), near)
      [] Mode(q) = "path"   -> PathContext(q, near)

DigestRows == Each(Sourced(Overdue \o Counts), Digested)

\* The documents of the digest become evidence, but for those that are already.
WithDigest(q, material) ==
    LET new == SelectSeq(DigestRows, LAMBDA e : e.doc \notin DocsOf(material.evidence))
    IN IF "digest" \in Words[q]
       THEN Material(material.evidence \o new, material.shown \cup DocsOf(DigestRows))
       ELSE material

\* Mutant: only what is quoted can be corrected.
CorrectionsOfPassages(evidence) ==
    {c \in corrected : \E i \in DOMAIN evidence :
                          evidence[i].kind = "passage" /\ evidence[i].doc = c[1]}

CorrectionsOf(evidence) == {c \in corrected : c[1] \in DocsOf(evidence)}

-----------------------------------------------------------------------------
(* grounding.classify and Answerer._build *)

Grounding(cited, evidence) ==
    IF ~ (cited \subseteq DocsOf(evidence)) THEN "unverified"
    ELSE IF cited = {} THEN "general" ELSE "documents"

Confidence(cited, evidence) ==
    CASE Grounding(cited, evidence) = "unverified" -> "low"
      [] Grounding(cited, evidence) = "general" -> "medium"
      [] OTHER -> IF Cardinality(cited) >= 2 THEN "high" ELSE "medium"

\* The documents of the evidence that were cited, each once, and the corrections that bear
\* on what was used.
Build(cited, p) ==
    [cited |-> cited, mode |-> p.mode,
     citations |-> DocsOf(p.evidence) \cap cited,
     notes |-> {c \in p.corrections : c[1] \in cited \/ c[2] \in cited},
     grounding |-> Grounding(cited, p.evidence), confidence |-> Confidence(cited, p.evidence)]

-----------------------------------------------------------------------------
(* RetrievalService.ask and ask_stream *)

Prepared == [mode |-> "vector", evidence |-> <<>>, shown |-> {}, corrections |-> {}]
Nothing == [q |-> NoAnswer, plain |-> FALSE, embedded |-> FALSE, known |-> {}, fresh |-> FALSE]

Goto(a, place) == pc' = [pc EXCEPT ![a] = place]

\* A follow-up is rewritten, or taken as it is.
Condensed(q) == {q, Standalone[q]}

\* The embedding may fail and be nought; an alert or a persona with a tone of its own
\* keeps away from the cache.
Ask(a, q) ==
    /\ pc[a] = "idle" /\ asks < MaxAsks
    /\ asks' = asks + 1
    /\ \E standalone \in Condensed(q), plain, embedded \in BOOLEAN :
           request' = [request EXCEPT ![a] =
               [q |-> standalone, plain |-> plain, embedded |-> embedded,
                known |-> corrected, fresh |-> FALSE]]
    /\ Goto(a, "look")
    /\ UNCHANGED <<corrected, unswept, cache, found, given>>

Hit(a) == request[a].plain /\ request[a].embedded /\ cache[request[a].q] # NoAnswer

GiveCached(a) ==
    /\ pc[a] = "look" /\ Hit(a)
    /\ given' = [given EXCEPT ![a] = cache[request[a].q].answer]
    /\ Goto(a, "idle")
    /\ UNCHANGED <<corrected, unswept, cache, request, found, asks>>

\* Linking, the mode's context, the digest.
Read(a) ==
    /\ pc[a] = "look" /\ ~ Hit(a)
    /\ LET q == request[a].q
       IN \E near \in Hits(q) :
              LET material == WithDigest(q, ModeContext(q, near))
              IN found' = [found EXCEPT ![a] =
                     [mode |-> Mode(q), evidence |-> material.evidence,
                      shown |-> material.shown, corrections |-> {}]]
    /\ Goto(a, "overrule")
    /\ UNCHANGED <<corrected, unswept, cache, request, given, asks>>

\* A correction stands above the material, with the ids of both documents.
Overrule(a) ==
    /\ pc[a] = "overrule"
    /\ LET fixes == CorrectionsOf(found[a].evidence)
       IN found' = [found EXCEPT ![a].corrections = fixes,
                                 ![a].shown = @ \cup UNION {{c[1], c[2]} : c \in fixes}]
    /\ Goto(a, "answer")
    /\ UNCHANGED <<corrected, unswept, cache, request, given, asks>>

\* The model cites what it was shown, or makes an id up.
Answer(a) ==
    /\ pc[a] = "answer"
    /\ \E cited \in SUBSET (found[a].shown \cup {Invented}) :
           given' = [given EXCEPT ![a] = Build(cited, found[a])]
    /\ request' = [request EXCEPT ![a].fresh = TRUE]
    /\ Goto(a, IF request[a].plain THEN "put" ELSE "idle")
    /\ UNCHANGED <<corrected, unswept, cache, found, asks>>

\* An entry under an embedding of nought replaces the one before it and is never found.
Put(a) ==
    /\ pc[a] = "put"
    /\ cache' = [cache EXCEPT ![request[a].q] =
                    IF request[a].embedded
                    THEN [answer |-> given[a], under |-> DocsOf(found[a].evidence)]
                    ELSE NoAnswer]
    /\ Goto(a, "idle")
    /\ UNCHANGED <<corrected, unswept, request, found, given, asks>>

\* A read, the model or the cache fails, and the request with it.
Fail(a) ==
    /\ pc[a] # "idle"
    /\ Goto(a, "idle")
    /\ given' = [given EXCEPT ![a] = NoAnswer]
    /\ UNCHANGED <<corrected, unswept, cache, request, found, asks>>

-----------------------------------------------------------------------------
(* The graph writer and the agents runtime *)

Correct ==
    /\ \E c \in Fixes \ corrected : /\ corrected' = corrected \cup {c}
                                    /\ unswept' = unswept \cup {c[1], c[2]}
    /\ UNCHANGED <<cache, pc, request, found, given, asks>>

\* The delta of a correction drops the answers that either document was evidence for.
Sweep ==
    /\ unswept # {}
    /\ unswept' = {}
    /\ cache' = [q \in Questions |->
                    IF cache[q] # NoAnswer /\ cache[q].under \cap unswept # {}
                    THEN NoAnswer ELSE cache[q]]
    /\ UNCHANGED <<corrected, pc, request, found, given, asks>>

-----------------------------------------------------------------------------
Init ==
    /\ corrected = {} /\ unswept = {}
    /\ cache = [q \in Questions |-> NoAnswer]
    /\ pc = [a \in Askers |-> "idle"]
    /\ request = [a \in Askers |-> Nothing]
    /\ found = [a \in Askers |-> Prepared]
    /\ given = [a \in Askers |-> NoAnswer]
    /\ asks = 0

Next ==
    \/ \E a \in Askers :
           \/ \E q \in Questions : Ask(a, q)
           \/ GiveCached(a) \/ Read(a) \/ Overrule(a) \/ Answer(a) \/ Put(a) \/ Fail(a)
    \/ Correct \/ Sweep

Spec == Init /\ [][Next]_vars

-----------------------------------------------------------------------------
(* Properties *)

\* The answer was made for this request, and not taken from the cache.
Answered(a) == request[a].fresh /\ given[a] # NoAnswer

\* An answer made for the question that lists a source which had been corrected when it was
\* asked says so, whichever way the source came into the evidence ("must not be able to quote
\* it as though nothing happened", GraphReader.corrections_of).  One from the cache may be
\* older than the correction, until the sweep that follows it drops that: see AnswerCache.
CorrectionTold ==
    \A a \in Askers : Answered(a) =>
        \A c \in request[a].known : c[1] \in given[a].citations => c \in given[a].notes

\* "the answer may cite the correction and stay grounded": an answer that cites nothing
\* but documents named in its context is not graded unverified.
CitedIsGrounded ==
    \A a \in Askers : Answered(a) /\ Invented \notin given[a].cited =>
        given[a].grounding # "unverified"

=============================================================================
