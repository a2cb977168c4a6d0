------------------------------- MODULE JobCard -------------------------------
(***************************************************************************)
(* One worker's copy of one dispatched order.  The worker's devices move   *)
(* it through the gateway, dispatches of the order write it anew.  Every   *)
(* writer reads the JSON record and writes it back whole; in one gateway   *)
(* process a writer runs to its end, writers of several interleave.        *)
(*                                                                         *)
(* A time stamp is the number of the tap that made it, 0 for none.         *)
(***************************************************************************)
EXTENDS Naturals, Sequences, FiniteSets

CONSTANTS
    Devices,       \* requests of the worker's devices
    Dispatchers,   \* dispatches of the order
    Processes,     \* gateway processes: writers at work at one time
    MaxTaps,       \* bound: taps
    MaxDispatches  \* bound: dispatches

ASSUME CardAssumption ==
    /\ Processes \in Nat \ {0} /\ MaxTaps \in Nat /\ MaxDispatches \in Nat
    /\ Devices \cap Dispatchers = {}

\* AssignmentUpdate.status.  Each has its stamp: acknowledged_at, started_at,
\* completed_at.
Moves == {"acknowledged", "in_progress", "done"}
Time == 0..MaxTaps

Record == [status : Moves \cup {"assigned"}, stamp : [Moves -> Time]]
NoCard == [status |-> "none", stamp |-> [m \in Moves |-> 0]]

VARIABLES
    card,        \* the record in Redis, or NoCard
    tapped,      \* the moves asked for, in the order of their taps
    pc,          \* each writer: "idle", "look", "fetch", "save"
    tap,         \* its tap
    stamps,      \* whether its patch carries a time stamp
    read,        \* the record it read
    dispatches,
    \* what the card is held to; nothing reads it
    alone,       \* whether the writers at work began one after the other's end
    base, since  \* the card as it was made, or left by writers that overlapped,
                 \* and the taps there had been by then

told == <<alone, base, since>>
vars == <<card, tapped, pc, tap, stamps, read, dispatches, told>>

Writers == Devices \cup Dispatchers
Busy == {w \in Writers : pc[w] # "idle"}
HasProcess == Cardinality(Busy) < Processes
Move(w) == tapped[tap[w]]

\* A writer begins while others are at work, or ends as the last of those that were.
Begins == alone' = (Busy = {}) /\ UNCHANGED <<base, since>>

Ends(w, left) ==
    IF Busy # {w} THEN UNCHANGED told
    ELSE /\ alone' = TRUE
         /\ IF alone /\ card # NoCard THEN UNCHANGED <<base, since>>
            ELSE base' = left /\ since' = Len(tapped)

-----------------------------------------------------------------------------
\* POST /field/assignments/{id}/status.
Tap(w, move) ==
    /\ pc[w] = "idle" /\ HasProcess
    /\ Len(tapped) < MaxTaps
    /\ tapped' = Append(tapped, move)
    /\ tap' = [tap EXCEPT ![w] = Len(tapped')]
    /\ pc' = [pc EXCEPT ![w] = "look"]
    /\ Begins
    /\ UNCHANGED <<card, stamps, read, dispatches>>

\* The patch carries a stamp unless the record has one.
Look(w) ==
    /\ pc[w] = "look"
    /\ stamps' = [stamps EXCEPT ![w] = card.stamp[Move(w)] = 0]
    /\ pc' = [pc EXCEPT ![w] = "fetch"]
    /\ UNCHANGED <<card, tapped, tap, read, dispatches, told>>

\* The record is read again, to be merged; without one the answer is 404.
Fetch(w) ==
    /\ w \in Devices /\ pc[w] = "fetch"
    /\ IF card = NoCard
       THEN /\ pc' = [pc EXCEPT ![w] = "idle"]
            /\ Ends(w, card)
            /\ UNCHANGED read
       ELSE /\ read' = [read EXCEPT ![w] = card]
            /\ pc' = [pc EXCEPT ![w] = "save"]
            /\ UNCHANGED told
    /\ UNCHANGED <<card, tapped, tap, stamps, dispatches>>

\* Mutant: every stamp is the completion's.
PatchedAstray(w) ==
    [status |-> Move(w),
     stamp  |-> IF stamps[w] THEN [read[w].stamp EXCEPT !["done"] = tap[w]]
                             ELSE read[w].stamp]

Patched(w) ==
    [status |-> Move(w),
     stamp  |-> IF stamps[w] THEN [read[w].stamp EXCEPT ![Move(w)] = tap[w]]
                             ELSE read[w].stamp]

Save(w) ==
    /\ w \in Devices /\ pc[w] = "save"
    /\ card' = Patched(w)
    /\ pc' = [pc EXCEPT ![w] = "idle"]
    /\ Ends(w, card')
    /\ UNCHANGED <<tapped, tap, stamps, read, dispatches>>

\* A dispatch reaches this worker of the crew: the record as it is now.
Dispatch(w) ==
    /\ pc[w] = "idle" /\ HasProcess
    /\ dispatches < MaxDispatches
    /\ dispatches' = dispatches + 1
    /\ read' = [read EXCEPT ![w] = card]
    /\ pc' = [pc EXCEPT ![w] = "save"]
    /\ Begins
    /\ UNCHANGED <<card, tapped, tap, stamps>>

\* Mutant: a dispatch makes the record anew.
DeliverFresh(w) ==
    /\ w \in Dispatchers /\ pc[w] = "save"
    /\ card' = [status |-> "assigned", stamp |-> [m \in Moves |-> 0]]
    /\ pc' = [pc EXCEPT ![w] = "idle"]
    /\ Ends(w, card')
    /\ UNCHANGED <<tapped, tap, stamps, read, dispatches>>

\* It is written anew, with what the dispatcher carries over of it: the status
\* and two of the three stamps.
Deliver(w) ==
    /\ w \in Dispatchers /\ pc[w] = "save"
    /\ card' = [status |-> IF read[w] = NoCard THEN "assigned" ELSE read[w].status,
                stamp  |-> [read[w].stamp EXCEPT !["in_progress"] = 0]]
    /\ pc' = [pc EXCEPT ![w] = "idle"]
    /\ Ends(w, card')
    /\ UNCHANGED <<tapped, tap, stamps, read, dispatches>>

-----------------------------------------------------------------------------
Init ==
    /\ card = NoCard
    /\ tapped = <<>>
    /\ pc = [w \in Writers |-> "idle"]
    /\ tap = [w \in Writers |-> 0]
    /\ stamps = [w \in Writers |-> FALSE]
    /\ read = [w \in Writers |-> NoCard]
    /\ dispatches = 0
    /\ alone = TRUE /\ base = NoCard /\ since = 0

Next ==
    \/ \E w \in Devices :
           (\E move \in Moves : Tap(w, move)) \/ Look(w) \/ Fetch(w) \/ Save(w)
    \/ \E w \in Dispatchers : Dispatch(w) \/ Deliver(w)

Spec == Init /\ [][Next]_vars

-----------------------------------------------------------------------------
(* Properties *)

\* Type invariant.
TypeOK ==
    /\ card \in Record \cup {NoCard}
    /\ tapped \in Seq(Moves) /\ Len(tapped) <= MaxTaps
    /\ pc \in [Writers -> {"idle", "look", "fetch", "save"}]
    /\ tap \in [Writers -> 0..Len(tapped)]
    /\ stamps \in [Writers -> BOOLEAN]
    /\ read \in [Writers -> Record \cup {NoCard}]
    /\ dispatches \in 0..MaxDispatches
    /\ alone \in BOOLEAN /\ base \in Record \cup {NoCard} /\ since \in 0..Len(tapped)

\* The evidence is genuine, however the writers interleave: a stamp is the time of
\* a tap that asked for that very move, and so is the status.
TapsOf(m) == {n \in DOMAIN tapped : tapped[n] = m}

Genuine(record) ==
    /\ \A m \in Moves : record.stamp[m] # 0 => record.stamp[m] \in TapsOf(m)
    /\ record.status \in Moves => TapsOf(record.status) # {}

EvidenceGenuine == Genuine(card)

\* The taps for a move since then.
TapsFor(m) == {n \in TapsOf(m) : n > since}

Earliest(set) == IF set = {} THEN 0 ELSE CHOOSE n \in set : \A k \in set : n <= k

\* The stamp a move has by the taps that were asked for one after the other.
Due(m) == IF base.stamp[m] # 0 THEN base.stamp[m] ELSE Earliest(TapsFor(m))

\* While nobody writes, the card tells what was asked of it since it was made, or since
\* writers last overlapped: the status of the last tap, and acknowledged and completed
\* when that was asked first, whatever was tapped twice, dispatched again or answered
\* 404 (the docstring of service.py update_assignment).  What two writers that overlap
\* leave is one of theirs; it stands, and what comes after it is not lost.
TellsTheTaps ==
    Busy = {} /\ card # NoCard =>
        /\ card.status = IF Len(tapped) > since THEN tapped[Len(tapped)] ELSE base.status
        /\ \A m \in {"acknowledged", "done"} : card.stamp[m] = Due(m)

\* "Timestamps are only ever written once": none is changed or erased.
StampsStay ==
    [][\A m \in Moves : card.stamp[m] # 0 => card'.stamp[m] = card.stamp[m]]_vars

\* "A re-dispatch must not reset a job the worker already picked up": a job that
\* was started says when, while nobody writes.
StartStays ==
    Busy = {} /\ card # NoCard => card.stamp["in_progress"] = Due("in_progress")

\* "The races that matter settle to the same terminal state": a job that was reported
\* done, and not moved since, stays done.
DoneSettles ==
    [][card.status = "done" /\ tapped[Len(tapped)] = "done" => card'.status = "done"]_vars

=============================================================================
