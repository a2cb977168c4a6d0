--------------------------- MODULE FaultSignatures ---------------------------
(***************************************************************************)
(* The memory of faults, as functions: what a window of telemetry is       *)
(* distilled to, and how much two such signatures resemble each other.     *)
(*                                                                         *)
(* A window gives each tag that has a baseline its reaction, a sequence of *)
(* readings in units of the baseline's spread.  A signature is a function  *)
(* from the tags that left their band, a score a fraction <<num, den>>.    *)
(***************************************************************************)
EXTENDS Integers, Sequences, FiniteSets, FiniteSetsExt

CONSTANTS
    Before(_, _)  \* the order of the tag names

Sigma == 4        \* DEVIATION_SIGMA

Size(z) == IF z < 0 THEN -z ELSE z

-----------------------------------------------------------------------------
(* extract_signature *)

Breaches(reaction) == {i \in DOMAIN reaction : Size(reaction[i]) >= Sigma}

\* Out of the band for a fifth of the readings, rounded down, and for one at least.
Deviates(reaction) == Cardinality(Breaches(reaction)) >= Max({1, Len(reaction) \div 5})

\* The first of the largest excursions.
Peak(reaction) ==
    LET largest == Max({Size(reaction[i]) : i \in DOMAIN reaction})
    IN reaction[Min({i \in DOMAIN reaction : Size(reaction[i]) = largest})]

Deviation(reaction) ==
    [direction |-> IF Peak(reaction) >= 0 THEN "high" ELSE "low",
     magnitude |-> Size(Peak(reaction)),
     offset    |-> Min(Breaches(reaction))]

\* Who moved first; then who moved more; then the name.
MovedBefore(deviations, s, t) ==
    LET d == deviations[s]
        e == deviations[t]
    IN \/ d.offset < e.offset
       \/ d.offset = e.offset /\ d.magnitude > e.magnitude
       \/ d.offset = e.offset /\ d.magnitude = e.magnitude /\ Before(s, t)

Extract(window) ==
    LET moved == {t \in DOMAIN window : Deviates(window[t])}
        deviations == [t \in moved |-> Deviation(window[t])]
    IN [t \in moved |->
           [direction |-> deviations[t].direction,
            magnitude |-> deviations[t].magnitude,
            rank |-> Cardinality({s \in moved : MovedBefore(deviations, s, t)})]]

\* The campaign's grade of an episode.
Severity(signature) ==
    LET peak == Max({0} \cup {signature[t].magnitude : t \in DOMAIN signature})
    IN IF peak >= 15 THEN "critical" ELSE IF peak >= 6 THEN "warning" ELSE "info"

-----------------------------------------------------------------------------
(* match_signature *)

Agreed(q, c) == {t \in DOMAIN q \cap DOMAIN c : q[t].direction = c[t].direction}

\* A tag that went the other way counts against.
Overlap(q, c) ==
    Cardinality(Agreed(q, c))
        - Cardinality((DOMAIN q \cap DOMAIN c) \ Agreed(q, c))

\* Mutant: a pair out of order is evidence of nothing.
ConcordantAll(q, c, pairs) == pairs

Concordant(q, c, pairs) ==
    {p \in pairs : (q[p[1]].rank > q[p[2]].rank) = (c[p[1]].rank > c[p[2]].rank)}

\* The share of pairs in the same order, all of them if there are none.
RankAgreement(q, c) ==
    LET pairs == {p \in Agreed(q, c) \X Agreed(q, c) : Before(p[1], p[2])}
    IN IF pairs = {} THEN <<1, 1>>
       ELSE <<Cardinality(Concordant(q, c, pairs)), Cardinality(pairs)>>

\* The order scales the overlap down to a half of it, RANK_FLOOR, and no further.
Score(q, c) ==
    LET union == Cardinality(DOMAIN q \cup DOMAIN c)
        order == RankAgreement(q, c)
    IN IF q = <<>> \/ c = <<>> \/ Overlap(q, c) <= 0 THEN <<0, 1>>
       ELSE <<Overlap(q, c) * (order[2] + order[1]), union * 2 * order[2]>>

Exceeds(a, b) == a[1] * b[2] > b[1] * a[2]

-----------------------------------------------------------------------------
(* Properties, of a live window and of a window that a campaign recorded *)

SameCascade(q, c) ==
    /\ DOMAIN q = DOMAIN c
    /\ \A t \in DOMAIN q : q[t].direction = c[t].direction /\ q[t].rank = c[t].rank

\* A known fault that shows itself again, the same tags moving the same ways in the same
\* order, is put before every fault that differs from it in any of these.
ReplayWins(live, recorded) ==
    LET q == Extract(live)
        c == Extract(recorded)
    IN DOMAIN q # {} =>
           /\ Score(q, q)[1] = Score(q, q)[2]
           /\ ~SameCascade(q, c) => Exceeds(Score(q, q), Score(q, c))
=============================================================================
