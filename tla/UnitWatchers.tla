----------------------------- MODULE UnitWatchers -----------------------------
(***************************************************************************)
(* The watchers of the reactor (CSTR) and of the column, for one tag, in   *)
(* their two forms: the agents package keeps the open breaches in memory   *)
(* and debounces their end; the scripts in services/watchers claim each    *)
(* alert in Redis for a while.  Batches come from a consumer group, always *)
(* what is new: what was read and not checked is not read again.           *)
(*                                                                         *)
(* The upper limits stand for the lower ones, which are alike.  Ages and   *)
(* what is left of a claim are counted in samples.                         *)
(***************************************************************************)
EXTENDS Naturals

CONSTANTS
    Debounce,     \* DEBOUNCE_S
    ClaimTtl,     \* DEDUP_TTL_S
    MaxFaults,    \* bound: alerts that are not published
    MaxRestarts,  \* bound: restarts of the watcher, with a batch in hand
    None

UnitAssumption ==
    /\ Debounce \in Nat \ {0} /\ ClaimTtl \in Nat \ {0} /\ None \notin Nat
    /\ MaxFaults \in Nat /\ MaxRestarts \in Nat

Rules == {"STATUS_BAD", "STATUS_UNCERTAIN", "HH_EXCEEDED", "H_EXCEEDED"}
Samples == [status : {"GOOD", "UNCERTAIN", "BAD"}, level : {"in", "H", "HH"}]

VARIABLES
    form,      \* "open" or "claim"
    sample,    \* the last sample of the tag
    checked,   \* it has been checked
    open,      \* the age of each open breach's last sample, up to Debounce
    claims,    \* what is left of each alert's claim
    told,      \* the rules with an alert since their breach began
    faults, restarts
vars == <<form, sample, checked, open, claims, told, faults, restarts>>

\* The rule a value breaks; the scripts have one limit on each side, HH.
LevelRules(level) ==
    IF level = "HH" THEN {"HH_EXCEEDED"}
    ELSE IF level = "H" /\ form = "open" THEN {"H_EXCEEDED"} ELSE {}

\* A bad reading is not compared with the limits; an uncertain one is, by both forms,
\* and is a breach of its own for one.
Fired ==
    IF sample.status = "BAD" THEN {"STATUS_BAD"}
    ELSE LevelRules(sample.level)
         \cup IF sample.status = "UNCERTAIN" /\ form = "open"
              THEN {"STATUS_UNCERTAIN"} ELSE {}

\* Only a value inside both upper limits ends their breaches; nothing ends a bad status.
Closed == IF sample.status # "BAD" /\ LevelRules(sample.level) = {}
          THEN {r \in {"HH_EXCEEDED", "H_EXCEEDED"} : open[r] = Debounce} ELSE {}

Due == IF form = "open" THEN {r \in Fired : open[r] = None}
       ELSE {r \in Fired : claims[r] = 0}

\* Mutant: an alert in the claim form is claimed for good.
ClaimedForGood == [r \in Rules |-> IF r \in Due THEN ClaimTtl
                                   ELSE claims[r]]

Claimed == [r \in Rules |-> IF r \in Due THEN ClaimTtl
                            ELSE IF claims[r] = 0 THEN 0 ELSE claims[r] - 1]

Older(age) == IF age \in {None, Debounce} THEN age ELSE age + 1

Opened(fired, closed) ==
    [r \in Rules |-> IF r \in fired THEN 0
                     ELSE IF r \in closed THEN None ELSE Older(open[r])]

\* The alerts that still stand: of open breaches, or of what the sample shows.
Standing == IF form = "open" THEN told \ Closed ELSE told \cap Fired

Remember(fired, closed) ==
    IF form = "open" THEN open' = Opened(fired, closed) /\ UNCHANGED claims
    ELSE claims' = Claimed /\ UNCHANGED open

Check ==
    /\ ~checked /\ checked' = TRUE
    /\ told' = Standing \cup Due
    /\ Remember(Fired, Closed)
    /\ UNCHANGED <<form, sample, faults, restarts>>

\* A breach is open, or claimed, before its alert is published.  The exception is logged,
\* the sample acknowledged; an uncertain status comes before the value.
AlertLost ==
    /\ ~checked /\ checked' = TRUE
    /\ faults < MaxFaults /\ faults' = faults + 1
    /\ \E r \in Due :
          LET before == IF r = "STATUS_UNCERTAIN" THEN {} ELSE Fired \ {r}
          IN /\ told' = (Standing \cup (Due \cap before)) \ {r}
             /\ Remember(before \cup {r}, {})
    /\ UNCHANGED <<form, sample, restarts>>

Arrives ==
    /\ checked /\ checked' = FALSE
    /\ sample' \in Samples
    /\ UNCHANGED <<form, open, claims, told, faults, restarts>>

\* The group goes on behind the batch that was in hand.
Restart ==
    /\ restarts < MaxRestarts /\ restarts' = restarts + 1
    /\ checked' = TRUE
    /\ open' = [r \in Rules |-> None]
    /\ told' = IF form = "open" THEN {} ELSE told
    /\ UNCHANGED <<form, sample, claims, faults>>

Init ==
    /\ form \in {"open", "claim"}
    /\ sample = [status |-> "GOOD", level |-> "in"] /\ checked = TRUE
    /\ open = [r \in Rules |-> None]
    /\ claims = [r \in Rules |-> 0]
    /\ told = {}
    /\ faults = 0 /\ restarts = 0

Next == Check \/ AlertLost \/ Arrives \/ Restart

Spec == Init /\ [][Next]_vars /\ WF_vars(Check \/ AlertLost) /\ WF_vars(Arrives)

\* A value that stays above its highest limit is told of, though an alert may fail to be
\* published; in the form that remembers open breaches such a failure is never repaired.
OutOfLimits == sample = [status |-> "GOOD", level |-> "HH"]
ToldOrOver ==
    "HH_EXCEEDED" \in told \/ ~OutOfLimits \/ (form = "open" /\ faults > 0)

StandingBreachTold == OutOfLimits ~> ToldOrOver
=============================================================================
