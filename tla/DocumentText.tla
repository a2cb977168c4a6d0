----------------------------- MODULE DocumentText -----------------------------
(***************************************************************************)
(* How a document's text is cut up: prose by its headings and paragraphs   *)
(* (SectionChunker), a manual by its outline and pages (ManualExtractor).  *)
(*                                                                         *)
(* Prose is a sequence of lines: of each what it is, and how many          *)
(* characters the lines of text have up to and with it.  A span is its     *)
(* first and its last line.  Of a manual's pages only their headings are   *)
(* kept, each with the level of its number; a section's text is the pages  *)
(* it owns.  A step is one turn of a loop of the code.                     *)
(***************************************************************************)
EXTENDS Integers, Sequences, FiniteSets, FiniteSetsExt

CONSTANTS
    Texts,        \* prose that may come in
    Manuals,      \* manuals: for every page the levels of the headings on it
    Guesses,      \* outlines the model may make of them: [level, page], in any order
    MaxChars      \* max_chars: bound of what _packed_paragraphs counts of a chunk

\* The characters of text in the lines of t up to the i-th.
Upto(t, i) == IF i = 0 THEN 0 ELSE t[i].upto

\* They are more behind a line of text, and as many behind any other.
Counted(t) ==
    \A i, j \in 0..Len(t) : i < j =>
        IF \E k \in (i + 1)..j : t[k].kind = "text" THEN Upto(t, i) < Upto(t, j)
                                                    ELSE Upto(t, i) = Upto(t, j)

TextAssumption ==
    /\ \A t \in Texts : t \in Seq([kind : {"heading", "blank", "text"}, upto : Nat]) /\ Counted(t)
    /\ \A m \in Manuals : m # <<>> /\ m \in Seq(Seq(1..4))
    /\ \A g \in Guesses : g \in Seq([level : 1..4, page : Nat \ {0}])
    /\ MaxChars \in Nat

VARIABLES
    pc,
    text,
    reached,   \* how many of its lines, or of the manual's pages, are read
    group,     \* the span of the paragraphs put together, or none
    chunks,    \* the spans of prose, in order
    manual,
    entries,   \* its outline
    stack,     \* the sections the next one may be part of: [level, section]
    sections   \* the tree: [parent, first, last]

vars == <<pc, text, reached, group, chunks, manual, entries, stack, sections>>

-----------------------------------------------------------------------------
(* SectionChunker.split *)

\* What the paragraphs of a span have together, as the code counts it: the blank lines
\* between them are in the chunk and not in its size.
Size(span) == Upto(text, span[2]) - Upto(text, span[1] - 1)

BlankTill(i) == \A k \in (reached + 1)..(i - 1) : text[k].kind = "blank"

\* A paragraph is a longest run of lines of text.
IsParagraph(p) ==
    /\ p[1] <= p[2] /\ BlankTill(p[1])
    /\ \A k \in p[1]..p[2] : text[k].kind = "text"
    /\ p[2] < Len(text) => text[p[2] + 1].kind # "text"

\* Mutant: what is open at the end of a section is lost.
Unflushed == chunks

Flushed == IF group = <<>> THEN chunks ELSE Append(chunks, group)

\* Paragraphs are put together as long as there is room.
NextParagraph ==
    /\ pc = "split"
    /\ \E p \in ((reached + 1)..Len(text)) \X ((reached + 1)..Len(text)) :
          /\ IsParagraph(p)
          /\ \/ /\ group # <<>> /\ Size(group) + Size(p) > MaxChars
                /\ chunks' = Append(chunks, group) /\ group' = p
             \/ /\ group # <<>> => Size(group) + Size(p) <= MaxChars
                /\ group' = IF group = <<>> THEN p ELSE <<group[1], p[2]>>
                /\ UNCHANGED chunks
          /\ reached' = p[2]
    /\ UNCHANGED <<pc, text, manual, entries, stack, sections>>

\* A section ends before a heading, or with the text.
NextHeading ==
    /\ pc = "split"
    /\ \E h \in (reached + 1)..Len(text) :
          text[h].kind = "heading" /\ BlankTill(h) /\ reached' = h
    /\ chunks' = Flushed /\ group' = <<>>
    /\ UNCHANGED <<pc, text, manual, entries, stack, sections>>

EndOfText ==
    /\ pc = "split" /\ BlankTill(Len(text) + 1)
    /\ chunks' = Flushed /\ group' = <<>> /\ reached' = Len(text)
    /\ pc' = "done"
    /\ UNCHANGED <<text, manual, entries, stack, sections>>

-----------------------------------------------------------------------------
(* ManualExtractor._outline and _build_tree *)

\* The model's outline, if there are headings to show it: what is inside the manual of
\* it, by page and otherwise as it stands.  Without one, or when that fails, the one of
\* the headings.
Outline ==
    /\ pc = "outline"
    /\ \/ /\ \E p \in DOMAIN manual : manual[p] # <<>>
          /\ \E guess \in Guesses :
                LET inside == {i \in DOMAIN guess : guess[i].page <= Len(manual)}
                IN /\ inside # {}
                   /\ \E order \in [1..Cardinality(inside) -> inside] :
                         /\ \A k, l \in DOMAIN order : k < l =>
                               \/ guess[order[k]].page < guess[order[l]].page
                               \/ /\ guess[order[k]].page = guess[order[l]].page
                                  /\ order[k] < order[l]
                         /\ entries' = [k \in DOMAIN order |-> guess[order[k]]]
          /\ pc' = "tree"
       \/ pc' = "headings" /\ UNCHANGED entries
    /\ UNCHANGED <<text, reached, group, chunks, manual, stack, sections>>

\* The numbered headings as they stand, page by page.
RegexOutline ==
    /\ pc = "headings" /\ reached < Len(manual)
    /\ reached' = reached + 1
    /\ entries' = entries \o [i \in DOMAIN manual[reached'] |->
                                 [level |-> manual[reached'][i], page |-> reached']]
    /\ UNCHANGED <<pc, text, group, chunks, manual, stack, sections>>

OrWhole ==
    /\ pc = "headings" /\ reached = Len(manual)
    /\ entries' = IF entries = <<>> THEN <<[level |-> 1, page |-> 1]>> ELSE entries
    /\ pc' = "tree"
    /\ UNCHANGED <<text, reached, group, chunks, manual, stack, sections>>

\* Mutant: a section stays open for the next one of its level.
OpenAtSame(level) == SubSeq(stack, 1, Max({0} \cup {k \in DOMAIN stack : stack[k].level <= level}))

\* The sections a new one of the level leaves open: what stands above the last that is
\* less deep is popped.
Open(level) == SubSeq(stack, 1, Max({0} \cup {k \in DOMAIN stack : stack[k].level < level}))

\* The entry after it ends a section, but for the page they share.
LastPage(i) ==
    IF i = Len(entries) THEN Len(manual) ELSE Max({entries[i + 1].page - 1, entries[i].page})

AddSection ==
    /\ pc = "tree" /\ Len(sections) < Len(entries)
    /\ LET i == Len(sections) + 1
           open == Open(entries[i].level)
       IN /\ sections' = Append(sections,
                 [parent |-> IF open = <<>> THEN 0 ELSE open[Len(open)].section,
                  first |-> entries[i].page, last |-> LastPage(i)])
          /\ stack' = Append(open, [level |-> entries[i].level, section |-> i])
    /\ UNCHANGED <<pc, text, reached, group, chunks, manual, entries>>

Built ==
    /\ pc = "tree" /\ Len(sections) = Len(entries)
    /\ pc' = "built"
    /\ UNCHANGED <<text, reached, group, chunks, manual, entries, stack, sections>>

Init ==
    /\ \/ text \in Texts /\ manual = <<>> /\ pc = "split"
       \/ text = <<>> /\ manual \in Manuals /\ pc = "outline"
    /\ reached = 0 /\ group = <<>> /\ chunks = <<>>
    /\ entries = <<>> /\ stack = <<>> /\ sections = <<>>

Next ==
    \/ NextParagraph \/ NextHeading \/ EndOfText
    \/ Outline \/ RegexOutline \/ OrWhole \/ AddSection \/ Built

Spec == Init /\ [][Next]_vars

-----------------------------------------------------------------------------
(* Properties *)

\* Every line of text is in one chunk and no other, in the order of the text; no chunk
\* reaches over a heading; and only a single paragraph has more than MaxChars, those that
\* were put together have not.  With the blank lines between them, which nobody counts,
\* the chunk may still be longer than that.
TextKept ==
    pc = "done" =>
        /\ \A i \in DOMAIN text : text[i].kind = "text" =>
               Cardinality({k \in DOMAIN chunks : i \in chunks[k][1]..chunks[k][2]}) = 1
        /\ \A k \in 2..Len(chunks) : chunks[k - 1][2] < chunks[k][1]
        /\ \A k \in DOMAIN chunks :
               LET kinds == {text[i].kind : i \in chunks[k][1]..chunks[k][2]}
               IN /\ "heading" \notin kinds
                  /\ "blank" \notin kinds \/ Size(chunks[k]) <= MaxChars

\* A manual's tree: a section is part of the latest before it that is less deep, the
\* pages from the first heading on all have an owner, and two owners only when both
\* sections start on the page.
TreeSound ==
    pc = "built" =>
        /\ \A i \in DOMAIN sections :
               sections[i].parent =
                   Max({0} \cup {j \in 1..(i - 1) : entries[j].level < entries[i].level})
        /\ \A p \in sections[1].first..Len(manual) :
               LET owners == {i \in DOMAIN sections : sections[i].first <= p /\ p <= sections[i].last}
               IN /\ owners # {}
                  /\ Cardinality(owners) > 1 => \A i \in owners : sections[i].first = p

=============================================================================
