----------------------------- MODULE MCKnowledge -----------------------------
(***************************************************************************)
(* Small instances of the stages of Knowledge for TLC.                     *)
(***************************************************************************)
EXTENDS Knowledge, TLC

LOCAL INSTANCE SequencesExt

CONSTANTS e, w, A, B, w1, w2

(* Prose of up to five lines; a manual with two headings on a page, and one without any *)

Sum(sizes) == FoldSeq(LAMBDA size, n : size + n, 0, sizes)
Line(sizes, i) ==
    [kind |-> CASE sizes[i] = -1 -> "heading" [] sizes[i] = 0 -> "blank" [] OTHER -> "text",
     upto |-> Sum(SelectSeq(SubSeq(sizes, 1, i), LAMBDA size : size > 0))]
MCTexts == {[i \in DOMAIN sizes |-> Line(sizes, i)] :
               sizes \in UNION {[1..n -> {-1, 0, 1, 2}] : n \in 1..5}}
MCManuals == {<< <<>>, <<1, 2>>, <<1>>, <<>> >>, << <<>>, <<>> >>}
Entry(l, p) == [level |-> l, page |-> p]
MCGuesses == [1..3 -> [level : 1..2, page : 1..3]] \cup {<<Entry(1, 9)>>, <<>>}

(* Two sources; one, behind another that cannot be built; or one of those whose listing is
   cut before it is filtered *)

Source(i, k, b) == [id |-> i, kind |-> k, builds |-> b]
ConnectorsJson == {<<Source("a", "folder", TRUE), Source("b", "bucket", TRUE)>>,
                   <<Source("x", "mail", FALSE), Source("a", "drive", TRUE)>>,
                   <<Source("a", "share", TRUE)>>, <<Source("a", "mail", TRUE)>>}
HomeOf(d) == "a"

(* Three machines in a ring, a failure mode and its procedure *)

MCThings == {"a", "b", "c", "f", "p"}
MCLabel == [n \in MCThings |-> CASE n = "f" -> "FailureMode" [] n = "p" -> "Procedure"
                                 [] OTHER -> "Equipment"]
Edge(t, s, d, c) == [type |-> t, src |-> s, dst |-> d, confidence |-> c]
MCEdges == {Edge("CONNECTED_TO", "a", "b", <<1, 1>>), Edge("CONNECTED_TO", "b", "c", <<1, 1>>),
            Edge("CONNECTED_TO", "c", "a", <<1, 10>>), Edge("HAS_FAILURE", "b", "f", <<1, 2>>),
            Edge("HAS_FAILURE", "c", "f", <<1, 1>>), Edge("FIXED_BY", "f", "p", <<1, 1>>),
            Edge("FIXED_BY", "f", "a", <<1, 1>>)}
MCSeedLists == {<<"a">>, <<"b", "c">>, <<"a", "b", "f">>}
MCAlpha == <<4, 5>>
MCMinConfidence == <<3, 10>>
MCThreshold == <<7, 10>>

(* A question of each mode and one that needs its thread; the orders are corrected *)

MCQuestions == {"local", "path", "that"}
MCStandalone == [q \in MCQuestions |-> IF q = "that" THEN "local" ELSE q]
MCWords == [q \in MCQuestions |-> CASE q = "path" -> {"causal"} [] q = "local" -> {"digest"}
                                    [] OTHER -> {}]
MCTagsOf == [q \in MCQuestions |-> CASE q = "local" -> <<"n">> [] q = "path" -> <<"m", "n", "m">>
                                     [] OTHER -> <<>>]
MCStandards == [q \in MCQuestions |-> <<>>]
MCPhrases == [q \in MCQuestions |-> IF q = "that" THEN <<>> ELSE <<"m">>]
MCRelations == "n" :> <<"table", Unsourced, "letter">> @@ "m" :> <<>>
MCWorkOrders == "n" :> <<"orders", Unsourced, "orders">> @@ "m" :> <<>>
MCPassageOf == "p1" :> "manual" @@ "p2" :> "letter"
MCNamesOf == "p1" :> {"n"} @@ "p2" :> {}
MCChains == [q \in MCQuestions |->
                IF q = "path" THEN <<"table", "letter", Unsourced, "table">> ELSE <<>>]
MCOverdue == <<"table">>
MCCounts == <<"orders">>
MCFixes == {<<"orders", "fix">>}

=============================================================================
