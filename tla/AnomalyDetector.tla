--------------------------- MODULE AnomalyDetector ---------------------------
(***************************************************************************)
(* The online detector: each second of telemetry is scored against the     *)
(* nominal plant, the score goes into a short history, and an event is     *)
(* raised when the last Persistence of them are anomalies.                 *)
(*                                                                         *)
(* A sample gives each tag its deviation, in units of the nominal spread,  *)
(* or None.  The loadings are taken along the axes: the retained           *)
(* components are the tags of Retained, the residual is the others.        *)
(***************************************************************************)
EXTENDS Integers, Sequences, SequencesExt, FiniteSetsExt

CONSTANTS
    Tags, Retained,
    Deviations,       \* what a reading may be off by
    T2Limit, SpeLimit,
    Persistence,      \* persistence_count
    WindowSize,       \* window_size
    EventCooldown,    \* cooldown_s, in seconds
    None

DetectorAssumption ==
    /\ IsFiniteSet(Tags) /\ Retained \subseteq Tags /\ Deviations \subseteq Int /\ None \notin Deviations
    /\ T2Limit \in Nat /\ SpeLimit \in Nat
    /\ Persistence \in Nat \ {0} /\ WindowSize \in Nat \ {0} /\ EventCooldown \in Nat

VARIABLES
    history,  \* _history: whether each of the last samples was an anomaly
    muted,    \* what is left of the cooldown
    standing, \* how many samples on end, up to Persistence, were off in some tag
    event     \* the last sample raised an event
vars == <<history, muted, standing, event>>

-----------------------------------------------------------------------------
(* score_sample *)

\* A tag that is missing counts as its nominal mean.
Standardized(sample) == [t \in Tags |-> IF sample[t] = None THEN 0 ELSE sample[t]]

Energy(z, tags) == FoldSet(LAMBDA t, sum : sum + z[t] * z[t], 0, tags)

IsAnomaly(sample) ==
    LET z == Standardized(sample)
    IN \/ Energy(z, Retained) > T2Limit
       \/ Energy(z, Tags \ Retained) > SpeLimit

-----------------------------------------------------------------------------
(* process_sample *)

\* deque(maxlen): the oldest goes.
Remember(anomaly) ==
    LET longer == Append(history, anomaly)
    IN IF Len(longer) > WindowSize THEN Tail(longer) ELSE longer

\* Mutant: any Persistence anomalies of the window.
PersistsLoose(scores) == Len(SelectSeq(scores, LAMBDA a : a)) >= Persistence

Persists(scores) ==
    /\ Len(scores) >= Persistence
    /\ \A i \in Len(scores) - Persistence + 1..Len(scores) : scores[i]

\* The sample is remembered during the cooldown too.
ProcessSample(sample) ==
    LET scores == Remember(IsAnomaly(sample))
    IN /\ history' = scores
       /\ event' = (muted = 0 /\ Persists(scores))
       /\ muted' = IF event' THEN EventCooldown ELSE IF muted = 0 THEN 0 ELSE muted - 1

Init == history = <<>> /\ muted = 0 /\ standing = 0 /\ event = FALSE

Next ==
    \E sample \in [Tags -> Deviations \cup {None}] :
        /\ ProcessSample(sample)
        /\ standing' = IF \A t \in Tags : sample[t] \in {0, None} THEN 0
                       ELSE IF standing = Persistence THEN standing ELSE standing + 1

Spec == Init /\ [][Next]_vars

\* One second in which the plant is at its nominal values, as far as they are known, puts
\* off an event: spikes, and tags that are missing, are filtered.
EventsPersist == event => standing = Persistence
=============================================================================
