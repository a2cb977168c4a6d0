---------------------------- MODULE FieldProofs -----------------------------
(***************************************************************************)
(* What holds of the stages of Field for all values of the constants.  Of  *)
(* the job card: type correctness; that no interleaving of devices and     *)
(* dispatches puts a time or a status on it that nobody reported; and that *)
(* while taps and dispatches do not overlap, in however many processes, it *)
(* tells exactly the taps.  Then of the interview, that no turn is noted   *)
(* unread and one document is written at a time; of the drafts, that they  *)
(* show as a fact only what the graph has held; and of the language-model  *)
(* client, that it keeps its rate.                                         *)
(*                                                                         *)
(* Each section proves an inductive invariant of one module, and from it   *)
(* the property of its stage; the card's are of JobCard by itself.         *)
(***************************************************************************)
EXTENDS Field, Integers, FiniteSetTheorems, TLAPS

Cards == Record \cup {NoCard}

\* What a writer has read is genuine, a device at work has tapped, and one that
\* saves has read a card.
Held ==
    /\ \A w \in Writers : Genuine(read[w])
    /\ \A w \in Devices :
           /\ pc[w] # "idle" => tap[w] \in 1..Len(tapped)
           /\ pc[w] = "save" => read[w] \in Record

IInv == TypeOK /\ Held /\ EvidenceGenuine

LEMMA CardType ==
    ASSUME NEW r \in Cards
    PROVE  r.stamp \in [Moves -> Time] /\ r.status \in Moves \cup {"assigned", "none"}
  BY CardAssumption DEF Cards, NoCard, Time, Record

\* The move of a tap, and that it counts among the taps for that move.
LEMMA MoveTap ==
    ASSUME TypeOK, NEW w \in Writers, tap[w] \in 1..Len(tapped)
    PROVE  Move(w) \in Moves /\ tap[w] \in TapsOf(Move(w)) /\ tap[w] \in Time
<1>1. tapped \in Seq(Moves) /\ Len(tapped) \in Nat /\ Len(tapped) <= MaxTaps
  BY DEF TypeOK
<1>2. tap[w] \in DOMAIN tapped /\ tapped[tap[w]] \in Moves
  BY <1>1
<1>3. tap[w] \in Time
  BY <1>1, CardAssumption DEF Time
<1>4. QED BY <1>2, <1>3 DEF Move, TapsOf

\* The bookkeeping keeps its type, whether a writer begins or ends.
LEMMA ToldType ==
    ASSUME TypeOK, tapped' = tapped,
           \/ Begins
           \/ UNCHANGED told
           \/ \E w \in Writers, after \in Cards : Ends(w, after)
    PROVE  /\ alone' \in BOOLEAN /\ base' \in Record \cup {NoCard}
           /\ since' \in 0..Len(tapped')
<1>1. Len(tapped) \in Nat
  BY DEF TypeOK
<1>2. alone' \in BOOLEAN
  <2>1. alone' \in {alone, TRUE, Busy = {}}
    BY Zenon DEF Begins, Ends, told
  <2>2. QED
    BY <2>1 DEF TypeOK
<1>3. base' \in Record \cup {NoCard}
  <2>1. base' = base \/ base' \in Cards
    BY DEF Begins, Ends, told
  <2>2. QED
    BY <2>1 DEF TypeOK, Cards
<1>4. since' \in 0..Len(tapped')
  <2>1. since' = since \/ since' = Len(tapped)
    BY DEF Begins, Ends, told
  <2>2. QED
    BY <1>1, <2>1 DEF TypeOK
<1>5. QED
  BY <1>2, <1>3, <1>4

LEMMA InitInd == Init => IInv
<1> SUFFICES ASSUME Init PROVE IInv
  OBVIOUS
<1> USE CardAssumption DEF Init
<1>1. TypeOK
  BY DEF TypeOK
<1>2. Genuine(NoCard)
  BY DEF Genuine, NoCard, Moves
<1>3. EvidenceGenuine
  BY <1>2 DEF EvidenceGenuine, Genuine
<1>4. Held
  <2>1. \A w \in Writers : read[w] = NoCard /\ pc[w] = "idle"
    OBVIOUS
  <2>2. \A w \in Writers : Genuine(read[w])
    BY <1>2, <2>1 DEF Genuine
  <2>3. QED BY <2>1, <2>2 DEF Held, Writers
<1>5. QED BY <1>1, <1>3, <1>4 DEF IInv

\* A tap more leaves every tap there was.
LEMMA TapInd ==
    ASSUME IInv, NEW w \in Devices, NEW move \in Moves, Tap(w, move)
    PROVE  IInv'
<1> USE CardAssumption DEF IInv
<1>1. /\ tapped \in Seq(Moves) /\ tapped' = Append(tapped, move)
      /\ Len(tapped) < MaxTaps /\ Len(tapped) \in Nat
  BY DEF TypeOK, Tap
<1>2. /\ tapped' \in Seq(Moves) /\ Len(tapped') = Len(tapped) + 1
      /\ DOMAIN tapped = 1..Len(tapped) /\ DOMAIN tapped' = 1..Len(tapped')
      /\ \A n \in 1..Len(tapped) : tapped'[n] = tapped[n]
  BY <1>1
<1>3. TypeOK'
  <2>1. Len(tapped') <= MaxTaps
    BY <1>1, <1>2
  <2>2. /\ since' \in 0..Len(tapped') /\ alone' \in BOOLEAN
        /\ base' \in Record \cup {NoCard}
    <3>1. alone' \in BOOLEAN
      BY Zenon DEF Tap, Begins
    <3>2. since' = since /\ base' = base
      BY DEF Tap, Begins
    <3>3. QED
      BY <1>1, <1>2, <3>1, <3>2 DEF TypeOK
  <2>3. tap' \in [Writers -> 0..Len(tapped')]
    BY <1>1, <1>2 DEF TypeOK, Tap, Writers
  <2>4. pc' \in [Writers -> {"idle", "look", "fetch", "save"}]
    BY DEF TypeOK, Tap
  <2>5. QED BY <1>2, <2>1, <2>2, <2>3, <2>4 DEF TypeOK, Tap
<1>4. \A m \in Moves : TapsOf(m) \subseteq TapsOf(m)'
  BY <1>1, <1>2 DEF TapsOf
<1>5. ASSUME NEW r \in Cards, Genuine(r)
      PROVE  Genuine(r)'
  <2>1. r.status \in Moves => TapsOf(r.status)' # {}
    BY <1>4, <1>5 DEF Genuine
  <2>2. QED BY <1>4, <1>5, <2>1 DEF Genuine
<1>6. EvidenceGenuine'
  <2>1. card \in Cards /\ card' = card
    BY DEF TypeOK, Tap, Cards
  <2>2. PICK r \in Cards : r = card
    BY <2>1
  <2>3. Genuine(r)'
    BY <1>5, <2>2 DEF EvidenceGenuine
  <2>4. QED BY <2>1, <2>2, <2>3 DEF EvidenceGenuine, Genuine
<1>7. Held'
  <2>1. ASSUME NEW v \in Writers
        PROVE  Genuine(read[v])'
    <3>1. read[v] \in Cards /\ read' = read
      BY DEF TypeOK, Tap, Cards
    <3>2. PICK r \in Cards : r = read[v]
      BY <3>1
    <3>3. Genuine(r)'
      BY <1>5, <3>2 DEF Held
    <3>4. QED BY <3>1, <3>2, <3>3 DEF Genuine
  <2>2. ASSUME NEW v \in Devices
        PROVE  /\ pc'[v] # "idle" => tap'[v] \in 1..Len(tapped')
               /\ pc'[v] = "save" => read'[v] \in Record
    <3>1. v \in Writers /\ w \in Writers
      BY DEF Writers
    <3>2. CASE v = w
      BY <1>1, <1>2, <3>1, <3>2 DEF TypeOK, Tap
    <3>3. CASE v # w
      <4>1. pc'[v] = pc[v] /\ tap'[v] = tap[v] /\ read'[v] = read[v]
        BY <3>1, <3>3 DEF TypeOK, Tap
      <4>2. QED BY <1>1, <1>2, <4>1 DEF Held
    <3>4. QED BY <3>2, <3>3
  <2>3. QED BY <2>1, <2>2 DEF Held
<1>8. QED BY <1>3, <1>6, <1>7

LEMMA LookInd ==
    ASSUME IInv, NEW w \in Devices, Look(w)
    PROVE  IInv'
<1> USE DEF IInv
<1>1. w \in Writers
  BY DEF Writers
<1>2. TypeOK'
  BY <1>1 DEF TypeOK, Look, told
<1>3. EvidenceGenuine'
  BY DEF EvidenceGenuine, Genuine, TapsOf, Look
<1>4. Held'
  <2>1. \A v \in Writers : Genuine(read[v])'
    BY DEF Held, Genuine, TapsOf, Look
  <2>2. ASSUME NEW v \in Devices
        PROVE  /\ pc'[v] # "idle" => tap'[v] \in 1..Len(tapped')
               /\ pc'[v] = "save" => read'[v] \in Record
    <3>1. v \in Writers /\ pc \in [Writers -> {"idle", "look", "fetch", "save"}]
      BY DEF Writers, TypeOK
    <3>2. UNCHANGED <<tapped, tap, read>> /\ pc[w] = "look"
          /\ pc' = [pc EXCEPT ![w] = "fetch"]
      BY DEF Look
    <3>3. CASE v = w
      BY <3>1, <3>2, <3>3 DEF Held
    <3>4. CASE v # w
      BY <3>1, <3>2, <3>4 DEF Held
    <3>5. QED BY <3>3, <3>4
  <2>3. QED BY <2>1, <2>2 DEF Held
<1>5. QED BY <1>2, <1>3, <1>4

LEMMA FetchInd ==
    ASSUME IInv, NEW w \in Devices, Fetch(w)
    PROVE  IInv'
<1> USE DEF IInv
<1>1. w \in Writers
  BY DEF Writers
<1>2. TypeOK'
  <2>1. card \in Cards /\ tapped' = tapped /\ (UNCHANGED told \/ Ends(w, card))
    BY DEF TypeOK, Cards, Fetch
  <2>2. /\ alone' \in BOOLEAN /\ base' \in Record \cup {NoCard}
        /\ since' \in 0..Len(tapped')
    BY <1>1, <2>1, ToldType
  <2>3. QED
    BY <1>1, <2>2 DEF TypeOK, Fetch
<1>3. EvidenceGenuine'
  BY DEF EvidenceGenuine, Genuine, TapsOf, Fetch
<1>4. CASE card = NoCard
  <2>1. \A v \in Writers : pc'[v] = pc[v] \/ pc'[v] = "idle"
    BY <1>1, <1>4 DEF TypeOK, Fetch
  <2>2. UNCHANGED <<tap, tapped, read>>
    BY <1>4 DEF Fetch
  <2>3. Held'
    BY <2>1, <2>2 DEF Held, Genuine, TapsOf, Writers
  <2>4. QED BY <1>2, <1>3, <2>3
<1>5. CASE card # NoCard
  <2>1. /\ read' = [read EXCEPT ![w] = card] /\ pc' = [pc EXCEPT ![w] = "save"]
        /\ UNCHANGED <<tap, tapped>> /\ pc[w] = "fetch"
    BY <1>5 DEF Fetch
  <2>2. card \in Record
    BY <1>5 DEF TypeOK
  <2>3. \A v \in Writers : read'[v] = read[v] \/ read'[v] = card
    BY <1>1, <2>1 DEF TypeOK
  <2>4. \A v \in Writers : Genuine(read[v])'
    BY <2>1, <2>3 DEF Held, EvidenceGenuine, Genuine, TapsOf
  <2>5. ASSUME NEW v \in Devices
        PROVE  /\ pc'[v] # "idle" => tap'[v] \in 1..Len(tapped')
               /\ pc'[v] = "save" => read'[v] \in Record
    <3>1. CASE v = w
      BY <1>1, <2>1, <2>2, <3>1 DEF TypeOK, Held
    <3>2. CASE v # w
      BY <2>1, <3>2 DEF TypeOK, Held, Writers
    <3>3. QED BY <3>1, <3>2
  <2>6. Held'
    BY <2>4, <2>5 DEF Held
  <2>7. QED BY <1>2, <1>3, <2>6
<1>6. QED BY <1>4, <1>5

\* A writer that ends with a genuine record leaves everything sound.
LEMMA WrittenInd ==
    ASSUME IInv, NEW w \in Writers, NEW r \in Record, Genuine(r),
           card' = r, pc' = [pc EXCEPT ![w] = "idle"], Ends(w, r),
           UNCHANGED <<tapped, tap, stamps, read, dispatches>>
    PROVE  IInv'
<1> USE DEF IInv
<1>1. TypeOK'
  <2>1. /\ alone' \in BOOLEAN /\ base' \in Record \cup {NoCard}
        /\ since' \in 0..Len(tapped')
    BY ToldType DEF Cards
  <2>2. QED BY <2>1 DEF TypeOK
<1>2. EvidenceGenuine'
  BY DEF EvidenceGenuine, Genuine, TapsOf
<1>3. Held'
  <2>1. \A v \in Writers : pc'[v] = pc[v] \/ pc'[v] = "idle"
    BY DEF TypeOK
  <2>2. QED BY <2>1 DEF Held, Genuine, TapsOf, Writers
<1>4. QED BY <1>1, <1>2, <1>3

LEMMA SaveInd ==
    ASSUME IInv, NEW w \in Devices, Save(w)
    PROVE  IInv'
<1> USE DEF IInv
<1>1. w \in Writers
  BY DEF Writers
<1>2. tap[w] \in 1..Len(tapped) /\ read[w] \in Record /\ Genuine(read[w])
  BY <1>1 DEF Save, Held
<1>3. Move(w) \in Moves /\ tap[w] \in TapsOf(Move(w)) /\ tap[w] \in Time
  BY <1>1, <1>2, MoveTap
<1>4. Patched(w) \in Record
  BY <1>2, <1>3 DEF Patched, Record
<1>5. Genuine(Patched(w))
  <2>1. Patched(w).status = Move(w) /\ TapsOf(Move(w)) # {}
    BY <1>3 DEF Patched
  <2>2. ASSUME NEW m \in Moves, Patched(w).stamp[m] # 0
        PROVE  Patched(w).stamp[m] \in TapsOf(m)
    <3>1. read[w].stamp \in [Moves -> Time]
      BY <1>2 DEF Record
    <3>2. CASE stamps[w] /\ m = Move(w)
      BY <1>3, <3>1, <3>2 DEF Patched
    <3>3. CASE ~(stamps[w] /\ m = Move(w))
      <4>1. Patched(w).stamp[m] = read[w].stamp[m]
        BY <1>3, <3>1, <3>3 DEF Patched
      <4>2. QED BY <1>2, <2>2, <4>1 DEF Genuine
    <3>4. QED BY <3>2, <3>3
  <2>3. QED BY <2>1, <2>2 DEF Genuine
<1>6. QED BY <1>1, <1>4, <1>5, WrittenInd DEF Save

LEMMA DispatchInd ==
    ASSUME IInv, NEW w \in Dispatchers, Dispatch(w)
    PROVE  IInv'
<1> USE CardAssumption DEF IInv
<1>1. w \in Writers /\ w \notin Devices
  BY DEF Writers
<1>2. TypeOK'
  <2>1. dispatches' \in 0..MaxDispatches
    BY DEF TypeOK, Dispatch
  <2>2. /\ alone' \in BOOLEAN /\ base' \in Record \cup {NoCard}
        /\ since' \in 0..Len(tapped')
    BY ToldType DEF Dispatch
  <2>3. QED BY <1>1, <2>1, <2>2 DEF TypeOK, Dispatch
<1>3. EvidenceGenuine'
  BY DEF EvidenceGenuine, Genuine, TapsOf, Dispatch
<1>4. Held'
  <2>1. \A v \in Writers : read'[v] = read[v] \/ read'[v] = card
    BY <1>1 DEF TypeOK, Dispatch
  <2>2. \A v \in Writers : Genuine(read[v])'
    BY <2>1 DEF Held, EvidenceGenuine, Genuine, TapsOf, Dispatch
  <2>3. \A v \in Devices : pc'[v] = pc[v] /\ read'[v] = read[v]
    BY <1>1 DEF TypeOK, Dispatch, Writers
  <2>4. QED BY <2>2, <2>3 DEF Held, Dispatch
<1>5. QED BY <1>2, <1>3, <1>4

LEMMA DeliverInd ==
    ASSUME IInv, NEW w \in Dispatchers, Deliver(w)
    PROVE  IInv'
<1> USE CardAssumption DEF IInv
<1> DEFINE new == [status |-> IF read[w] = NoCard THEN "assigned" ELSE read[w].status,
                   stamp  |-> [read[w].stamp EXCEPT !["in_progress"] = 0]]
<1>1. w \in Writers /\ read[w] \in Cards /\ Genuine(read[w])
  BY DEF Writers, TypeOK, Cards, Held
<1>2. read[w].stamp \in [Moves -> Time]
  BY <1>1, CardType
<1>3. read[w] # NoCard => read[w] \in Record
  BY <1>1 DEF Cards
<1>4. new \in Record
  <2>1. new.status \in Moves \cup {"assigned"}
    BY <1>3 DEF Record
  <2>2. new.stamp \in [Moves -> Time]
    <3>1. 0 \in Time
      BY DEF Time
    <3>2. [read[w].stamp EXCEPT !["in_progress"] = 0] \in [Moves -> Time]
      BY <1>2, <3>1
    <3>3. QED BY <3>2
  <2>3. QED BY <2>1, <2>2 DEF Record
<1>5. Genuine(new)
  <2>1. new.status \in Moves => TapsOf(new.status) # {}
    BY <1>1 DEF Genuine, Moves
  <2>2. \A m \in Moves : new.stamp[m] # 0 => new.stamp[m] \in TapsOf(m)
    BY <1>1, <1>2 DEF Genuine
  <2>3. QED BY <2>1, <2>2 DEF Genuine
<1>6. card' = new
  BY DEF Deliver
<1> HIDE DEF new
<1>7. QED BY <1>1, <1>4, <1>5, <1>6, WrittenInd DEF Deliver

LEMMA StutterInd == IInv /\ UNCHANGED vars => IInv'
  BY DEF IInv, vars, told, TypeOK, Held, EvidenceGenuine, Genuine, TapsOf

LEMMA InductiveInvariant == Spec => []IInv
<1>1. IInv /\ [Next]_vars => IInv'
  BY TapInd, LookInd, FetchInd, SaveInd, DispatchInd, DeliverInd, StutterInd DEF Next
<1>2. QED BY <1>1, InitInd, PTL DEF Spec

\* The variables keep their types.
THEOREM TypeCorrect == Spec => []TypeOK
<1>1. IInv => TypeOK
  BY DEF IInv
<1>2. QED BY <1>1, InductiveInvariant, PTL

\* However many processes interleave, a time stamp on the card is that of a tap for
\* the very move, and its status is one that was tapped (update_assignment and
\* dispatch_to_crew).
THEOREM EvidenceIsGenuine == Spec => []EvidenceGenuine
<1>1. IInv => EvidenceGenuine
  BY DEF IInv
<1>2. QED BY <1>1, InductiveInvariant, PTL

-----------------------------------------------------------------------------
(***************************************************************************)
(* What the card tells.  While a writer runs to its end before the next    *)
(* begins, the card tells what was tapped up to the last move that is      *)
(* through: all the taps, or all but the one at work.  When writers have   *)
(* overlapped, the card they leave is where this starts anew; so somebody  *)
(* is at work for as long as it does not hold.                             *)
(***************************************************************************)
IsFirst(x, set) == IF set = {} THEN x = 0 ELSE x \in set /\ \A k \in set : x <= k

\* The taps for a move among the first n.
Upto(m, n) == {k \in TapsFor(m) : k <= n}

\* The stamp a move has by the first n taps.
Stamped(x, m, n) ==
    IF base.stamp[m] # 0 THEN x = base.stamp[m] ELSE IsFirst(x, Upto(m, n))

\* The card tells the first n taps.
ToldTo(n) == card # NoCard =>
    /\ since <= n
    /\ card.status = IF n > since THEN tapped[n] ELSE base.status
    /\ \A m \in {"acknowledged", "done"} : Stamped(card.stamp[m], m, n)

AtWork == \E w \in Devices : pc[w] # "idle"
SoFar == IF AtWork THEN Len(tapped) - 1 ELSE Len(tapped)

\* What the writer at work has read is what there is.
UpToDate ==
    /\ \A v, w \in Writers : pc[v] # "idle" /\ pc[w] # "idle" => v = w
    /\ \A w \in Devices : pc[w] # "idle" => tap[w] = Len(tapped)
    /\ \A w \in Devices : pc[w] \in {"fetch", "save"} => stamps[w] = (card.stamp[Move(w)] = 0)
    /\ \A w \in Writers : pc[w] = "save" => read[w] = card
    /\ \A w \in Dispatchers : pc[w] \in {"idle", "save"}

OneInv ==
    /\ Busy = {} => alone
    /\ alone => UpToDate /\ ToldTo(SoFar)

LEMMA FirstIsEarliest ==
    ASSUME NEW S \in SUBSET Nat, NEW x, IsFirst(x, S)
    PROVE  x = Earliest(S)
<1>1. CASE S = {}
  BY <1>1 DEF IsFirst, Earliest
<1>2. CASE S # {}
  <2> DEFINE y == CHOOSE n \in S : \A k \in S : n <= k
  <2>1. x \in S /\ \A k \in S : x <= k
    BY <1>2 DEF IsFirst
  <2>2. y \in S /\ \A k \in S : y <= k
    BY <2>1
  <2>3. x = y
    <3> HIDE DEF y
    <3> QED BY <2>1, <2>2
  <2>4. Earliest(S) = y
    BY <1>2, Zenon DEF Earliest
  <2>5. QED
    BY <2>3, <2>4
<1>3. QED
  BY <1>1, <1>2

\* A writer is alone at work if one is.
LEMMA BusyAlone ==
    ASSUME UpToDate, NEW w \in Writers, pc[w] # "idle"
    PROVE  Busy = {w}
  BY DEF UpToDate, Busy

\* The taps of a type-correct state.
LEMMA TapsType ==
    ASSUME TypeOK
    PROVE  /\ Len(tapped) \in Nat /\ since \in Nat /\ since <= Len(tapped)
           /\ \A n \in 1..Len(tapped) : tapped[n] \in Moves
           /\ \A m \in Moves, n \in Nat : Upto(m, n) = {k \in 1..Len(tapped) :
                                                tapped[k] = m /\ k > since /\ k <= n}
  BY DEF TypeOK, Upto, TapsFor, TapsOf

\* Further taps change nothing of what the first n were.
LEMMA ToldStays ==
    ASSUME TypeOK, TypeOK', NEW n \in Nat, n <= Len(tapped), ToldTo(n),
           card' = card, base' = base, since' = since, Len(tapped) <= Len(tapped'),
           \A k \in 1..Len(tapped) : tapped'[k] = tapped[k]
    PROVE  ToldTo(n)'
<1>1. /\ Len(tapped) \in Nat /\ Len(tapped') \in Nat
      /\ tapped \in Seq(Moves) /\ tapped' \in Seq(Moves)
  BY DEF TypeOK
<1>2. \A m \in Moves : Upto(m, n)' = Upto(m, n)
  BY <1>1 DEF Upto, TapsFor, TapsOf
<1>3. since <= n /\ n > since => n \in 1..Len(tapped)
  BY <1>1, TapsType
<1>4. card # NoCard /\ n > since => tapped'[n] = tapped[n]
  BY <1>3 DEF ToldTo
<1>5. ASSUME NEW m \in {"acknowledged", "done"}, card # NoCard
      PROVE  Stamped(card.stamp[m], m, n)'
  <2>1. Stamped(card.stamp[m], m, n)
    BY <1>5 DEF ToldTo
  <2>2. Upto(m, n)' = Upto(m, n)
    BY <1>2 DEF Moves
  <2>3. QED
    BY <2>1, <2>2 DEF Stamped, IsFirst
<1>6. card # NoCard => since <= n /\ card.status = IF n > since THEN tapped'[n] ELSE base.status
  BY <1>4 DEF ToldTo
<1>7. QED
  BY <1>5, <1>6 DEF ToldTo

\* Nothing has been tapped since the card became what is taken for its base.
LEMMA FreshTold ==
    ASSUME TypeOK', base' = card', since' = Len(tapped')
    PROVE  ToldTo(Len(tapped))'
<1>1. PICK n \in Nat : n = Len(tapped') /\ since' = n
  BY DEF TypeOK
<1>2. \A m \in Moves : Upto(m, n)' = {}
  BY <1>1 DEF Upto, TapsFor, TapsOf, TypeOK
<1>3. \A m \in Moves : Stamped(card.stamp[m], m, n)'
  BY <1>2 DEF Stamped, IsFirst
<1>4. since' <= n /\ ~(n > since')
  BY <1>1
<1>5. ToldTo(n)'
  BY <1>3, <1>4 DEF ToldTo, Moves, Stamped, IsFirst
<1>6. QED
  BY <1>1, <1>5

\* Writers that have overlapped leave somebody at work.
LEMMA StillBusy ==
    ASSUME NEW w \in Writers, pc'[w] # "idle", ~alone'
    PROVE  OneInv'
  BY DEF OneInv, Busy

\* The last of the writers ends, and the card starts anew.
LEMMA LastEnds ==
    ASSUME IInv, TypeOK', OneInv, NEW w \in Writers, pc[w] # "idle",
           pc' = [pc EXCEPT ![w] = "idle"], tapped' = tapped,
           Ends(w, card'), ~(alone /\ card # NoCard)
    PROVE  OneInv'
<1>0. pc \in [Writers -> {"idle", "look", "fetch", "save"}] /\ w \in Busy
  BY DEF IInv, TypeOK, Busy
<1>1. CASE Busy = {w}
  <2>1. alone' = TRUE /\ base' = card' /\ since' = Len(tapped')
    BY <1>1 DEF Ends
  <2>2. \A v \in Writers : pc'[v] = "idle"
    BY <1>0, <1>1 DEF Busy
  <2>3. UpToDate'
    BY <2>2 DEF UpToDate, Writers
  <2>4. ~AtWork'
    BY <2>2 DEF AtWork, Writers
  <2>5. SoFar' = Len(tapped')
    BY <2>4 DEF SoFar
  <2>6. ToldTo(Len(tapped))'
    BY <2>1, FreshTold
  <2>7. ToldTo(SoFar)'
    <3>1. PICK n : n = Len(tapped')
      OBVIOUS
    <3>2. ToldTo(n)'
      BY <2>6, <3>1
    <3>3. QED
      BY <2>5, <3>1, <3>2
  <2>8. QED
    BY <2>1, <2>3, <2>7 DEF OneInv
<1>2. CASE Busy # {w}
  <2>1. ~alone
    <3> SUFFICES ASSUME alone PROVE FALSE
      OBVIOUS
    <3>1. Busy = {w}
      BY BusyAlone DEF OneInv
    <3>2. QED
      BY <1>2, <3>1
  <2>2. alone' = alone
    BY <1>2 DEF Ends, told
  <2>3. PICK v \in Busy : v # w
    BY <1>0, <1>2
  <2>4. v \in Writers /\ pc'[v] # "idle"
    BY <1>0, <2>3 DEF Busy
  <2>5. QED
    BY <2>1, <2>2, <2>4, StillBusy
<1>3. QED
  BY <1>1, <1>2

LEMMA TapTold ==
    ASSUME IInv, TypeOK', OneInv, NEW w \in Devices, NEW move \in Moves,
           Tap(w, move), Busy = {}
    PROVE  OneInv'
<1>0. TypeOK /\ w \in Writers /\ \A v \in Dispatchers : v # w /\ v \in Writers
  BY CardAssumption DEF IInv, Writers
<1>1. alone /\ alone' = TRUE
  BY DEF Tap, Begins, OneInv
<1>2. \A v \in Writers : pc[v] = "idle"
  BY DEF Busy
<1>3. /\ pc' = [pc EXCEPT ![w] = "look"] /\ tap' = [tap EXCEPT ![w] = Len(tapped')]
      /\ tapped' = Append(tapped, move)
      /\ card' = card /\ base' = base /\ since' = since /\ stamps' = stamps /\ read' = read
  BY DEF Tap, Begins
<1>4. /\ Len(tapped') = Len(tapped) + 1 /\ Len(tapped) \in Nat
      /\ \A n \in 1..Len(tapped) : tapped'[n] = tapped[n]
  BY <1>0, <1>3, TapsType DEF TypeOK
<1>5. UpToDate'
  <2>1. pc'[w] = "look" /\ tap'[w] = Len(tapped')
    BY <1>0, <1>3 DEF TypeOK
  <2>2. \A v \in Writers : v # w => pc'[v] = "idle"
    BY <1>0, <1>2, <1>3 DEF TypeOK
  <2>3. \A v \in Devices : v \in Writers
    BY DEF Writers
  <2>4. QED
    BY <1>0, <2>1, <2>2, <2>3 DEF UpToDate
<1>6. SoFar = Len(tapped) /\ SoFar' = Len(tapped)
  <2>1. ~AtWork /\ AtWork'
    BY <1>0, <1>2, <1>3 DEF AtWork, Writers, TypeOK
  <2>2. QED
    BY <1>0, <1>4, <2>1 DEF SoFar
<1>7. ToldTo(SoFar)'
  <2>1. PICK n \in Nat : n = SoFar
    BY <1>4, <1>6
  <2>2. ToldTo(n) /\ n <= Len(tapped)
    BY <1>1, <1>6, <2>1, <1>4 DEF OneInv
  <2>3. ToldTo(n)'
    BY <1>0, <1>3, <1>4, <2>2, ToldStays
  <2>4. QED
    BY <1>6, <2>1, <2>3
<1>8. QED
  BY <1>1, <1>5, <1>7 DEF OneInv

\* Nobody else is at work while a writer is.
LEMMA OthersIdle ==
    ASSUME UpToDate, NEW w \in Writers, pc[w] # "idle"
    PROVE  \A v \in Writers : v # w => pc[v] = "idle"
  BY DEF UpToDate

LEMMA LookTold ==
    ASSUME IInv, TypeOK', OneInv, NEW w \in Devices, Look(w), alone
    PROVE  OneInv'
<1>0. TypeOK /\ w \in Writers /\ \A v \in Dispatchers : v # w
  BY CardAssumption DEF IInv, Writers
<1>1. /\ pc[w] = "look" /\ pc' = [pc EXCEPT ![w] = "fetch"] /\ pc'[w] = "fetch"
      /\ stamps'[w] = (card.stamp[Move(w)] = 0)
      /\ card' = card /\ tapped' = tapped /\ tap' = tap /\ read' = read
      /\ alone' = alone /\ base' = base /\ since' = since
  BY <1>0 DEF Look, TypeOK, told
<1>2. \A v \in Writers : v # w => pc[v] = "idle" /\ pc'[v] = "idle"
  BY <1>0, <1>1, OthersIdle DEF OneInv, TypeOK
<1>3. UpToDate'
  BY <1>0, <1>1, <1>2 DEF UpToDate, OneInv, Writers, Move
<1>4. AtWork /\ AtWork'
  BY <1>1 DEF AtWork
<1>5. SoFar' = SoFar
  BY <1>1, <1>4 DEF SoFar
<1>6. QED
  BY <1>1, <1>3, <1>5 DEF OneInv, ToldTo, Stamped, Upto, TapsFor, TapsOf

LEMMA FetchTold ==
    ASSUME IInv, TypeOK', OneInv, NEW w \in Devices, Fetch(w), alone, card # NoCard
    PROVE  OneInv'
<1>0. TypeOK /\ w \in Writers /\ \A v \in Dispatchers : v # w
  BY CardAssumption DEF IInv, Writers
<1>1. /\ pc[w] = "fetch"
      /\ card' = card /\ tapped' = tapped /\ tap' = tap /\ stamps' = stamps
      /\ alone' = alone /\ base' = base /\ since' = since
  BY DEF Fetch, told
<1>2. pc' = [pc EXCEPT ![w] = "save"] /\ pc'[w] = "save" /\ read'[w] = card
  BY <1>0 DEF Fetch, TypeOK
<1>3. \A v \in Writers : v # w => pc[v] = "idle" /\ pc'[v] = "idle"
  BY <1>0, <1>1, <1>2, OthersIdle DEF OneInv, TypeOK
<1>4. UpToDate'
  BY <1>0, <1>1, <1>2, <1>3 DEF UpToDate, OneInv, Writers, Move
<1>5. AtWork /\ AtWork'
  BY <1>1, <1>2 DEF AtWork
<1>6. SoFar' = SoFar
  BY <1>1, <1>5 DEF SoFar
<1>7. QED
  BY <1>1, <1>4, <1>6 DEF OneInv, ToldTo, Stamped, Upto, TapsFor, TapsOf

\* The move at work is written: it is the last status, and the first stamp if there
\* was none before it.
LEMMA SaveTold ==
    ASSUME IInv, TypeOK', OneInv, NEW w \in Devices, Save(w), alone
    PROVE  OneInv'
<1>0. TypeOK /\ w \in Writers /\ \A v \in Dispatchers : v # w
  BY CardAssumption DEF IInv, Writers
<1>1. /\ pc[w] = "save" /\ pc' = [pc EXCEPT ![w] = "idle"] /\ pc'[w] = "idle"
      /\ card' = Patched(w) /\ tapped' = tapped /\ Ends(w, card')
  BY <1>0 DEF Save, TypeOK
<1>2. \A v \in Writers : pc'[v] = "idle"
  BY <1>0, <1>1, OthersIdle DEF OneInv, TypeOK
<1>3. UpToDate'
  BY <1>2 DEF UpToDate, Writers
<1>n. PICK n \in Nat : n = Len(tapped)
  BY <1>0, TapsType
<1>4. /\ n > 0 /\ tap[w] = n /\ Move(w) = tapped[n] /\ Move(w) \in Moves
  <2>1. tap[w] \in 1..n
    BY <1>1, <1>n DEF IInv, Held
  <2>2. tap[w] = n
    BY <1>0, <1>1, <1>n DEF OneInv, UpToDate
  <2>3. QED
    BY <1>0, <1>n, <2>1, <2>2, MoveTap DEF Move
<1>5. SoFar = n - 1 /\ SoFar' = n
  <2>1. AtWork /\ ~AtWork'
    BY <1>1, <1>2 DEF AtWork, Writers
  <2>2. QED
    BY <1>1, <1>n, <2>1 DEF SoFar
<1>6. /\ read[w] = card /\ card \in Record /\ card # NoCard /\ card.stamp \in [Moves -> Time]
      /\ stamps[w] = (card.stamp[Move(w)] = 0)
  <2>1. read[w] = card /\ read[w] \in Record /\ stamps[w] = (card.stamp[Move(w)] = 0)
    BY <1>0, <1>1 DEF IInv, Held, OneInv, UpToDate
  <2>2. NoCard \notin Record
    BY DEF NoCard, Record, Moves
  <2>3. QED
    BY <2>1, <2>2 DEF Record
<1>e. alone' = TRUE /\ base' = base /\ since' = since
  <2>1. Busy = {w}
    BY <1>0, <1>1, BusyAlone DEF OneInv
  <2>2. QED
    BY <1>1, <1>6, <2>1 DEF Ends
<1>7. /\ since <= n - 1
      /\ \A m \in {"acknowledged", "done"} : Stamped(card.stamp[m], m, n - 1)
  BY <1>5, <1>6 DEF OneInv, ToldTo
<1>8. ASSUME NEW m \in {"acknowledged", "done"}
      PROVE  Stamped(Patched(w).stamp[m], m, n)
  <2>1. m \in Moves
    BY DEF Moves
  <2>2. Upto(m, n) = IF m = Move(w) THEN Upto(m, n - 1) \cup {n} ELSE Upto(m, n - 1)
    <3>1. Upto(m, n) = {k \in 1..n : tapped[k] = m /\ k > since /\ k <= n}
      BY <1>0, <1>n, <2>1, TapsType
    <3>2. Upto(m, n - 1) = {k \in 1..n : tapped[k] = m /\ k > since /\ k <= n - 1}
      BY <1>0, <1>n, <1>4, <2>1, TapsType
    <3>3. since < n /\ since \in Nat
      BY <1>0, <1>4, <1>7, TapsType
    <3>4. QED
      BY <1>4, <3>1, <3>2, <3>3
  <2>0. CASE base.stamp[m] # 0
    <3>1. card.stamp[m] = base.stamp[m]
      BY <1>7, <2>0 DEF Stamped
    <3>2. Patched(w).stamp[m] = card.stamp[m]
      BY <1>4, <1>6, <2>0, <2>1, <3>1 DEF Patched
    <3>3. QED
      BY <2>0, <3>1, <3>2 DEF Stamped
  <2>f. base.stamp[m] = 0 => IsFirst(card.stamp[m], Upto(m, n - 1))
    BY <1>7 DEF Stamped
  <2>3. CASE base.stamp[m] = 0 /\ m # Move(w)
    <3>1. Patched(w).stamp[m] = card.stamp[m]
      BY <1>4, <1>6, <2>1, <2>3 DEF Patched
    <3>2. QED
      BY <2>f, <2>2, <2>3, <3>1 DEF Stamped
  <2>4. CASE base.stamp[m] = 0 /\ m = Move(w) /\ card.stamp[m] # 0
    <3>1. Patched(w).stamp[m] = card.stamp[m]
      BY <1>6, <2>4 DEF Patched
    <3>2. card.stamp[m] \in Upto(m, n - 1) /\ \A k \in Upto(m, n - 1) : card.stamp[m] <= k
      BY <2>f, <2>4 DEF IsFirst
    <3>3. card.stamp[m] <= n
      BY <1>0, <1>4, <2>1, <3>2, TapsType
    <3>4. QED
      BY <2>2, <2>4, <3>1, <3>2, <3>3 DEF IsFirst, Stamped
  <2>5. CASE base.stamp[m] = 0 /\ m = Move(w) /\ card.stamp[m] = 0
    <3>1. Patched(w).stamp[m] = n
      BY <1>4, <1>6, <2>1, <2>5 DEF Patched
    <3>2. Upto(m, n - 1) = {}
      BY <1>0, <1>4, <2>f, <2>1, <2>5, TapsType DEF IsFirst
    <3>3. Upto(m, n) = {n}
      BY <2>2, <2>5, <3>2
    <3>4. QED
      BY <1>4, <2>5, <3>1, <3>3 DEF IsFirst, Stamped
  <2>6. QED
    BY <2>0, <2>3, <2>4, <2>5
<1>9. Patched(w).status = tapped[n]
  BY <1>4 DEF Patched
<1>10. \A m \in Moves : Upto(m, n)' = Upto(m, n)
  BY <1>1, <1>e DEF Upto, TapsFor, TapsOf
<1>11. ToldTo(SoFar)'
  <2>1. since' <= n /\ n > since' /\ card'.status = tapped'[n]
    BY <1>0, <1>1, <1>e, <1>4, <1>7, <1>9, TapsType
  <2>2. \A m \in {"acknowledged", "done"} : Stamped(card.stamp[m], m, n)'
    BY <1>1, <1>e, <1>8, <1>10 DEF Moves, Stamped, IsFirst
  <2>3. ToldTo(n)'
    BY <2>1, <2>2 DEF ToldTo
  <2>4. QED
    BY <1>5, <2>3
<1>12. QED
  BY <1>e, <1>3, <1>11 DEF OneInv

LEMMA DispatchTold ==
    ASSUME IInv, TypeOK', OneInv, NEW w \in Dispatchers, Dispatch(w), Busy = {}
    PROVE  OneInv'
<1>0. TypeOK /\ w \in Writers /\ \A v \in Devices : v # w /\ v \in Writers
  BY CardAssumption DEF IInv, Writers
<1>1. alone /\ \A v \in Writers : pc[v] = "idle"
  BY DEF OneInv, Busy
<1>2. /\ pc' = [pc EXCEPT ![w] = "save"] /\ pc'[w] = "save" /\ read'[w] = card
      /\ card' = card /\ tapped' = tapped
      /\ alone' = TRUE /\ base' = base /\ since' = since
  BY <1>0 DEF Dispatch, TypeOK, Begins
<1>3. \A v \in Writers : v # w => pc'[v] = "idle"
  BY <1>0, <1>1, <1>2 DEF TypeOK
<1>4. UpToDate'
  BY <1>0, <1>2, <1>3 DEF UpToDate, Writers
<1>5. ~AtWork /\ ~AtWork'
  BY <1>0, <1>1, <1>3 DEF AtWork
<1>6. SoFar' = SoFar
  BY <1>2, <1>5 DEF SoFar
<1>7. QED
  BY <1>1, <1>2, <1>4, <1>6 DEF OneInv, ToldTo, Stamped, Upto, TapsFor, TapsOf

\* A dispatch writes what there was.
LEMMA DeliverTold ==
    ASSUME IInv, TypeOK', OneInv, NEW w \in Dispatchers, Deliver(w), alone, card # NoCard
    PROVE  OneInv'
<1>0. TypeOK /\ w \in Writers /\ \A v \in Devices : v # w /\ v \in Writers
  BY CardAssumption DEF IInv, Writers
<1>1. /\ pc[w] = "save" /\ pc' = [pc EXCEPT ![w] = "idle"] /\ tapped' = tapped /\ read[w] = card
      /\ Ends(w, card')
  BY <1>0 DEF Deliver, OneInv, UpToDate
<1>2. \A v \in Writers : pc'[v] = "idle"
  BY <1>0, <1>1, OthersIdle DEF OneInv, TypeOK
<1>3. UpToDate'
  BY <1>2 DEF UpToDate, Writers
<1>4. SoFar = Len(tapped) /\ SoFar' = Len(tapped)
  <2>1. ~AtWork
    BY <1>0, <1>1, OthersIdle DEF AtWork, OneInv
  <2>2. ~AtWork'
    BY <1>0, <1>2 DEF AtWork
  <2>3. QED
    BY <1>1, <2>1, <2>2 DEF SoFar
<1>5. /\ card.stamp \in [Moves -> Time]
      /\ card'.status = card.status
      /\ \A m \in {"acknowledged", "done"} : card'.stamp[m] = card.stamp[m]
  <2>1. card.stamp \in [Moves -> Time]
    BY <1>0, CardType DEF TypeOK, Cards
  <2>2. QED
    BY <1>1, <2>1 DEF Deliver, Moves
<1>6. alone' = TRUE /\ base' = base /\ since' = since
  <2>1. Busy = {w}
    BY <1>0, <1>1, BusyAlone DEF OneInv
  <2>2. QED
    BY <1>1, <2>1 DEF Ends
<1>7. QED
  BY <1>1, <1>3, <1>4, <1>5, <1>6 DEF OneInv, ToldTo, Stamped, Upto, TapsFor, TapsOf

\* A step of a writer while others overlap with it or have, and the ends that start
\* the card anew.
LEMMA OneStep ==
    ASSUME IInv, TypeOK', OneInv, [Next]_vars
    PROVE  OneInv'
<1>0. /\ pc \in [Writers -> {"idle", "look", "fetch", "save"}]
      /\ \A w \in Devices \cup Dispatchers : w \in Writers
  BY DEF IInv, TypeOK, Writers
<1>1. ASSUME NEW w \in Devices, NEW move \in Moves, Tap(w, move) PROVE OneInv'
  <2>1. CASE Busy # {}
    <3>1. ~alone'
      BY <1>1, <2>1 DEF Tap, Begins
    <3>2. pc'[w] # "idle"
      BY <1>0, <1>1 DEF Tap
    <3>3. QED
      BY <1>0, <3>1, <3>2, StillBusy
  <2>2. QED
    BY <1>1, <2>1, TapTold
<1>2. ASSUME NEW w \in Devices, Look(w) PROVE OneInv'
  <2>1. CASE ~alone
    <3>1. ~alone' /\ pc'[w] # "idle"
      BY <1>0, <1>2, <2>1 DEF Look, told
    <3>2. QED
      BY <1>0, <3>1, StillBusy
  <2>2. QED
    BY <1>2, <2>1, LookTold
<1>3. ASSUME NEW w \in Devices, Fetch(w) PROVE OneInv'
  <2>1. CASE card = NoCard
    <3>1. /\ pc[w] # "idle" /\ pc' = [pc EXCEPT ![w] = "idle"] /\ tapped' = tapped
          /\ Ends(w, card')
      BY <1>3, <2>1 DEF Fetch
    <3>2. QED
      BY <1>0, <2>1, <3>1, LastEnds
  <2>2. CASE card # NoCard /\ ~alone
    <3>1. ~alone' /\ pc'[w] # "idle"
      BY <1>0, <1>3, <2>2 DEF Fetch, told
    <3>2. QED
      BY <1>0, <3>1, StillBusy
  <2>3. QED
    BY <1>3, <2>1, <2>2, FetchTold
<1>4. ASSUME NEW w \in Devices, Save(w) PROVE OneInv'
  <2>1. CASE ~alone
    <3>1. /\ pc[w] # "idle" /\ pc' = [pc EXCEPT ![w] = "idle"] /\ tapped' = tapped
          /\ Ends(w, card')
      BY <1>4 DEF Save
    <3>2. QED
      BY <1>0, <2>1, <3>1, LastEnds
  <2>2. QED
    BY <1>4, <2>1, SaveTold
<1>5. ASSUME NEW w \in Dispatchers, Dispatch(w) PROVE OneInv'
  <2>1. CASE Busy # {}
    <3>1. ~alone' /\ pc'[w] # "idle"
      BY <1>0, <1>5, <2>1 DEF Dispatch, Begins
    <3>2. QED
      BY <1>0, <3>1, StillBusy
  <2>2. QED
    BY <1>5, <2>1, DispatchTold
<1>6. ASSUME NEW w \in Dispatchers, Deliver(w) PROVE OneInv'
  <2>1. CASE ~(alone /\ card # NoCard)
    <3>1. /\ pc[w] # "idle" /\ pc' = [pc EXCEPT ![w] = "idle"] /\ tapped' = tapped
          /\ Ends(w, card')
      BY <1>6 DEF Deliver
    <3>2. QED
      BY <1>0, <2>1, <3>1, LastEnds
  <2>2. QED
    BY <1>6, <2>1, DeliverTold
<1>7. CASE UNCHANGED vars
  BY <1>7 DEF vars, told, OneInv, UpToDate, ToldTo, Stamped, SoFar, AtWork, Busy, Upto,
              TapsFor, TapsOf, Move
<1>8. QED
  BY <1>1, <1>2, <1>3, <1>4, <1>5, <1>6, <1>7 DEF Next

\* However many gateway processes write over one another's card: while nobody writes it
\* tells what was asked of it since it was made or since writers last overlapped, the
\* last tap as its status and the first of a kind as its stamp, whatever is tapped
\* twice, dispatched again or answered 404 (update_assignment, dispatch_to_crew).
THEOREM CardTellsTheTaps == Spec => []TellsTheTaps
<1>1. Init => OneInv
  <2> SUFFICES ASSUME Init PROVE OneInv
    OBVIOUS
  <2>1. \A w \in Writers : pc[w] = "idle"
    BY DEF Init
  <2>2. UpToDate
    BY <2>1 DEF UpToDate, Writers
  <2>3. QED
    BY <2>2 DEF Init, OneInv, ToldTo
<1>2. OneInv /\ IInv /\ TypeOK' /\ [Next]_vars => OneInv'
  BY OneStep
<1>3. OneInv /\ IInv => TellsTheTaps
  <2> SUFFICES ASSUME OneInv, IInv, Busy = {}, card # NoCard
               PROVE  /\ card.status = IF Len(tapped) > since THEN tapped[Len(tapped)]
                                                              ELSE base.status
                      /\ \A m \in {"acknowledged", "done"} : card.stamp[m] = Due(m)
    BY DEF TellsTheTaps
  <2>1. alone /\ SoFar = Len(tapped)
    BY DEF OneInv, SoFar, AtWork, Busy, Writers
  <2>2. Len(tapped) \in Nat /\ \A m \in Moves : Upto(m, Len(tapped)) = TapsFor(m)
                                             /\ TapsFor(m) \in SUBSET Nat
    BY DEF IInv, TypeOK, Upto, TapsFor, TapsOf
  <2>3. ASSUME NEW m \in {"acknowledged", "done"} PROVE card.stamp[m] = Due(m)
    <3>1. Stamped(card.stamp[m], m, Len(tapped))
      BY <2>1 DEF OneInv, ToldTo
    <3>2. QED
      BY <2>2, <3>1, FirstIsEarliest DEF Stamped, Due, Moves
  <2>4. QED
    BY <2>1, <2>3 DEF OneInv, ToldTo
<1>4. QED
  BY <1>1, <1>2, <1>3, InductiveInvariant, TypeCorrect, PTL DEF Spec

-----------------------------------------------------------------------------
(* The stages *)

\* The stage stays, and a step is one of its module or leaves that alone.
LEMMA StageSteps ==
    ASSUME [FieldNext]_fieldVars
    PROVE  /\ stage' = stage
           /\ stage = "drafts" => [Drafts!Next]_Drafts!vars
           /\ stage = "interview" => [Interview!Next]_Interview!vars
           /\ stage = "model" => [Client!Next]_Client!vars
<1>1. CASE FieldNext
  BY <1>1 DEF FieldNext
<1>2. CASE UNCHANGED fieldVars
  <2>1. UNCHANGED <<stage, draftVars, interviewVars, modelVars>>
    BY <1>2 DEF fieldVars
  <2>2. UNCHANGED <<Drafts!vars, Interview!vars, Client!vars>>
    BY <2>1 DEF Drafts!vars, Interview!vars, Interview!session, Client!vars, draftVars,
                interviewVars, modelVars
  <2>3. QED
    BY <2>1, <2>2
<1>3. QED
  BY <1>1, <1>2

-----------------------------------------------------------------------------
(* The interview: no turn behind the notes cursor is unread, one write-up at a time *)

\* What a digest has read starts where the notes end.
Continued(windows) ==
    /\ windows \in [Interview!Digesters -> {<<>>} \cup (Nat \X Nat)]
    /\ \A d \in Interview!Digesters :
          windows[d] # <<>> => 0 < windows[d][1] /\ 1 .. windows[d][1] - 1 \subseteq noted

Writes(f) == final[f] \in {"digest", "writing"}

InterviewInv ==
    /\ turns \in Nat /\ cursor \in Nat
    /\ final \in [Finalizers -> {"idle", "called", "digest", "writing"}]
    /\ Continued(window)
    /\ 1 .. cursor \subseteq noted
    /\ \A f \in Finalizers : final[f] = "digest" => window[f] # <<>>
    /\ \A f \in Finalizers : Writes(f) => finalizing
    /\ \A f, g \in Finalizers : Writes(f) /\ Writes(g) => f = g

LEMMA InterviewInit == Interview!Init => InterviewInv
  BY DEF Interview!Init, InterviewInv, Continued, Writes, Interview!Digesters

LEMMA InvIsSound == InterviewInv => Interview!NotedIsRead /\ Interview!OneWriteUp
<1> SUFFICES ASSUME InterviewInv PROVE Interview!NotedIsRead /\ Interview!OneWriteUp
  OBVIOUS
<1> DEFINE writers == {f \in Finalizers : Writes(f)}
<1>1. \A f, g \in writers : f = g
  BY DEF InterviewInv
<1>2. Cardinality(writers) <= 1
  <2> HIDE DEF writers
  <2>1. CASE writers = {}
    BY <2>1, FS_EmptySet
  <2>2. CASE writers # {}
    <3>1. PICK f : writers = {f}
      BY <1>1, <2>2
    <3>2. Cardinality({f}) = 1
      BY FS_Singleton
    <3>3. QED
      BY <3>1, <3>2
  <2>3. QED
    BY <2>1, <2>2
<1>3. Interview!Cardinality(writers) = Cardinality(writers)
  BY Zenon DEF Interview!Cardinality, Cardinality
<1>4. QED
  BY <1>2, <1>3 DEF InterviewSound, InterviewInv, Interview!NotedIsRead, Interview!OneWriteUp, Writes

\* A digest that is applied moves the cursor to the end of what it had read.
LEMMA DigestedNotes ==
    ASSUME InterviewInv, NEW d \in Interview!Digesters, window[d] # <<>>, Interview!Digested(d)
    PROVE  /\ cursor' \in Nat /\ 1 .. cursor' \subseteq noted'
           /\ window' = [window EXCEPT ![d] = <<>>] /\ Continued(window)'
<1>1. PICK a \in Nat, b \in Nat : window[d] = <<a, b>>
  BY DEF InterviewInv, Continued
<1>2. 0 < a /\ 1 .. a - 1 \subseteq noted
  BY <1>1 DEF InterviewInv, Continued
<1>3. window' = [window EXCEPT ![d] = <<>>]
  BY DEF Interview!Digested
<1>4. \/ noted' = noted \cup a .. b /\ cursor' = b
      \/ noted' = noted /\ cursor' = cursor
  BY <1>1 DEF Interview!Digested
<1>5. noted \subseteq noted' /\ cursor' \in Nat /\ 1 .. cursor' \subseteq noted'
  BY <1>2, <1>4 DEF InterviewInv
<1>6. Continued(window)'
  BY <1>3, <1>5 DEF InterviewInv, Continued
<1>7. QED
  BY <1>3, <1>5, <1>6

\* A new window starts behind the cursor.
LEMMA ReadContinues ==
    ASSUME InterviewInv, NEW windows, Continued(windows), NEW d \in Interview!Digesters,
           NEW newest \in Nat
    PROVE  Continued([windows EXCEPT ![d] = <<cursor + 1, newest>>])
<1> DEFINE new == [windows EXCEPT ![d] = <<cursor + 1, newest>>]
<1>1. cursor + 1 \in Nat /\ 0 < cursor + 1 /\ 1 .. (cursor + 1) - 1 \subseteq noted
  BY DEF InterviewInv
<1>2. \A e \in Interview!Digesters :
         new[e] = IF e = d THEN <<cursor + 1, newest>> ELSE windows[e]
  BY DEF Continued
<1>3. new \in [Interview!Digesters -> {<<>>} \cup (Nat \X Nat)]
  BY <1>1 DEF Continued
<1> HIDE DEF new
<1>4. QED
  BY <1>1, <1>2, <1>3 DEF Continued, new

LEMMA EnterKeeps ==
    ASSUME InterviewInv, NEW f \in Finalizers, final[f] \in {"idle", "called"},
           NEW windows, Continued(windows), Interview!EnterFinalize(f, windows),
           \A g \in Finalizers : windows[g] = window[g],
           UNCHANGED <<turns, cursor, noted>>
    PROVE  InterviewInv'
<1> DEFINE enters == ~Interview!Finished /\ ~finalizing /\ turns > 0
           digests == enters /\ cursor < turns
<1>1. /\ finalizing' = (finalizing \/ enters)
      /\ window' = IF digests THEN [windows EXCEPT ![f] = <<cursor + 1, turns>>] ELSE windows
      /\ final' = [final EXCEPT ![f] = IF digests THEN "digest"
                                       ELSE IF enters THEN "writing" ELSE "idle"]
  BY DEF Interview!EnterFinalize
<1>2. f \in Interview!Digesters /\ Finalizers \subseteq Interview!Digesters
  BY DEF Interview!Digesters
<1>3. Continued(window')
  BY <1>1, <1>2, ReadContinues DEF InterviewInv
<1>4. Continued(window)'
  BY <1>3 DEF Continued
<1>5. \A g \in Finalizers :
         final'[g] = IF g # f THEN final[g]
                     ELSE IF digests THEN "digest" ELSE IF enters THEN "writing" ELSE "idle"
  BY <1>1 DEF InterviewInv
<1>6. final' \in [Finalizers -> {"idle", "called", "digest", "writing"}]
  BY <1>1 DEF InterviewInv
<1>7. enters => ~finalizing /\ finalizing'
  BY <1>1
<1> HIDE DEF enters
<1>8. \A g \in Finalizers : Writes(g)' => finalizing'
  BY <1>1, <1>5, <1>7 DEF InterviewInv, Writes
<1>9. \A g, h \in Finalizers : Writes(g)' /\ Writes(h)' => g = h
  BY <1>5, <1>7 DEF InterviewInv, Writes
<1>10. \A g \in Finalizers : final'[g] = "digest" => window'[g] # <<>>
  <2>1. ASSUME NEW g \in Finalizers, g # f, final'[g] = "digest" PROVE window'[g] # <<>>
    <3>1. window[g] # <<>>
      BY <1>5, <2>1 DEF InterviewInv
    <3>2. window'[g] = windows[g]
      BY <1>1, <1>2, <2>1 DEF Continued
    <3>3. QED
      BY <3>1, <3>2
  <2>2. ASSUME final'[f] = "digest" PROVE window'[f] # <<>>
    <3>1. digests
      BY <1>5, <2>2
    <3>2. window'[f] = <<cursor + 1, turns>>
      BY <1>1, <1>2, <3>1 DEF Continued
    <3>3. QED
      BY <3>2
  <2>3. QED
    BY <2>1, <2>2
<1>11. QED
  BY <1>4, <1>6, <1>8, <1>9, <1>10 DEF InterviewInv

\* A finalize that is called has nothing to write yet.
LEMMA CallKeepsFinal ==
    ASSUME InterviewInv, Interview!CallFinalize
    PROVE  /\ final' \in [Finalizers -> {"idle", "called", "digest", "writing"}]
           /\ \A f \in Finalizers : final'[f] = final[f] \/ final'[f] = "called"
  BY DEF InterviewInv, Interview!CallFinalize

\* A step that leaves the notes and the writers alone, but for a finalize that is called.
LEMMA QuietKeeps ==
    ASSUME InterviewInv, turns' \in Nat, cursor' \in Nat, 1 .. cursor' \subseteq noted',
           Continued(window)', \A f \in Finalizers : window'[f] = window[f],
           finalizing' = finalizing, final' = final \/ Interview!CallFinalize
    PROVE  InterviewInv'
<1>1. /\ final' \in [Finalizers -> {"idle", "called", "digest", "writing"}]
      /\ \A f \in Finalizers : final'[f] = final[f] \/ final'[f] = "called"
  BY CallKeepsFinal DEF InterviewInv
<1>2. QED
  BY <1>1 DEF InterviewInv, Writes

LEMMA TextKeeps ==
    ASSUME Interview!InterviewAssumption, InterviewInv, NEW t \in Texts,
           Interview!TextTurn(t) \/ Interview!TextAnswer(t) \/ Interview!TextDigested(t)
    PROVE  InterviewInv'
<1>1. t \in Interview!Digesters /\ t \notin Finalizers
  BY DEF Interview!InterviewAssumption, Interview!Digesters
<1>2. CASE Interview!TextTurn(t)
  <2>1. /\ turns' = turns + 1
        /\ UNCHANGED <<cursor, window, noted, finalizing, final>>
    BY <1>2 DEF Interview!TextTurn
  <2>2. QED
    BY <2>1, QuietKeeps DEF InterviewInv, Continued
<1>3. CASE Interview!TextAnswer(t)
  <2>1. /\ UNCHANGED <<cursor, noted, finalizing>> /\ turns' \in {turns, turns + 1}
        /\ final' = final \/ Interview!CallFinalize
        /\ window' = window \/ Interview!ReadWindow(t, turns')
    BY <1>3 DEF Interview!TextAnswer, Interview!EndTurn, Interview!session
  <2>2. turns' \in Nat
    BY <2>1 DEF InterviewInv
  <2>3. Continued(window')
    BY <1>1, <2>1, <2>2, ReadContinues DEF InterviewInv, Interview!ReadWindow
  <2>4. \A f \in Finalizers : window'[f] = window[f]
    <3>1. window \in [Interview!Digesters -> {<<>>} \cup (Nat \X Nat)]
      BY DEF InterviewInv, Continued
    <3>2. \A f \in Finalizers : f # t
      BY <1>1
    <3>3. Finalizers \subseteq Interview!Digesters
      BY DEF Interview!Digesters
    <3>4. QED
      BY <2>1, <3>1, <3>2, <3>3 DEF Interview!ReadWindow
  <2>5. QED
    BY <2>1, <2>2, <2>3, <2>4, QuietKeeps DEF InterviewInv, Continued
<1>4. CASE Interview!TextDigested(t)
  <2>1. /\ window[t] # <<>> /\ Interview!Digested(t) /\ UNCHANGED <<turns, finalizing>>
        /\ final' = final \/ Interview!CallFinalize
    BY <1>4 DEF Interview!TextDigested, Interview!EndTurn, Interview!Reads
  <2>2. /\ cursor' \in Nat /\ 1 .. cursor' \subseteq noted'
        /\ window' = [window EXCEPT ![t] = <<>>] /\ Continued(window)'
    BY <1>1, <2>1, DigestedNotes
  <2>3. \A f \in Finalizers : window'[f] = window[f]
    BY <1>1, <2>2 DEF InterviewInv, Continued
  <2>4. QED
    BY <2>1, <2>2, <2>3, QuietKeeps DEF InterviewInv
<1>5. QED
  BY <1>2, <1>3, <1>4

LEMMA CallKeeps ==
    ASSUME Interview!InterviewAssumption, InterviewInv, NEW c \in Calls,
           \/ Interview!Offer(c) \/ Interview!RunVoice(c) \/ Interview!ClientReady(c)
           \/ Interview!Speak(c) \/ Interview!Brain(c) \/ Interview!BrainDigested(c)
           \/ Interview!CallEnds(c)
    PROVE  InterviewInv'
<1>1. c \in Interview!Digesters /\ c \notin Finalizers /\ Finalizers \subseteq Interview!Digesters
  BY DEF Interview!InterviewAssumption, Interview!Digesters
<1>2. CASE Interview!Offer(c) \/ Interview!RunVoice(c) \/ Interview!ClientReady(c)
  <2>1. UNCHANGED <<turns, cursor, window, noted, finalizing, final>>
    BY <1>2 DEF Interview!Offer, Interview!RunVoice, Interview!ClientReady, Interview!session
  <2>2. QED
    BY <2>1 DEF InterviewInv, Continued, Writes
<1>3. CASE Interview!Speak(c)
  <2>1. turns' \in {turns, turns + 1} /\ UNCHANGED <<cursor, window, noted, finalizing, final>>
    BY <1>3 DEF Interview!Speak
  <2>2. QED
    BY <2>1 DEF InterviewInv, Continued, Writes
<1>4. CASE Interview!Brain(c)
  <2>1. /\ UNCHANGED <<turns, cursor, noted, finalizing, final>>
        /\ window' = window \/ Interview!ReadWindow(c, turns)
    BY <1>4 DEF Interview!Brain, Interview!session
  <2>2. Continued(window')
    BY <1>1, <2>1, ReadContinues DEF InterviewInv, Interview!ReadWindow
  <2>3. \A f \in Finalizers : window'[f] = window[f]
    BY <1>1, <2>1 DEF InterviewInv, Continued, Interview!ReadWindow
  <2>4. QED
    BY <2>1, <2>2, <2>3, QuietKeeps DEF InterviewInv, Continued
<1>5. CASE Interview!BrainDigested(c)
  <2>1. window[c] # <<>> /\ Interview!Digested(c) /\ UNCHANGED <<turns, finalizing, final>>
    BY <1>5 DEF Interview!BrainDigested, Interview!Reads
  <2>2. /\ cursor' \in Nat /\ 1 .. cursor' \subseteq noted'
        /\ window' = [window EXCEPT ![c] = <<>>] /\ Continued(window)'
    BY <1>1, <2>1, DigestedNotes
  <2>3. \A f \in Finalizers : window'[f] = window[f]
    BY <1>1, <2>2 DEF InterviewInv, Continued
  <2>4. QED
    BY <2>1, <2>2, <2>3, QuietKeeps DEF InterviewInv
<1>6. CASE Interview!CallEnds(c)
  <2> DEFINE windows == [window EXCEPT ![c] = <<>>]
  <2>1. PICK f \in Finalizers : final[f] = "idle" /\ Interview!EnterFinalize(f, windows)
    BY <1>6 DEF Interview!CallEnds
  <2>2. UNCHANGED <<turns, cursor, noted>>
    BY <1>6 DEF Interview!CallEnds
  <2>3. Continued(windows) /\ \A g \in Finalizers : windows[g] = window[g]
    BY <1>1 DEF InterviewInv, Continued
  <2> HIDE DEF windows
  <2>4. QED
    BY <2>1, <2>2, <2>3, EnterKeeps
<1>7. QED
  BY <1>2, <1>3, <1>4, <1>5, <1>6

LEMMA FinalizeKeeps ==
    ASSUME InterviewInv, NEW f \in Finalizers,
           Interview!StartFinalize(f) \/ Interview!FinalizeDigested(f) \/ Interview!Written(f)
    PROVE  InterviewInv'
<1>1. f \in Interview!Digesters /\ Finalizers \subseteq Interview!Digesters
  BY DEF Interview!Digesters
<1>2. CASE Interview!StartFinalize(f)
  <2>1. /\ final[f] = "called" /\ Interview!EnterFinalize(f, window)
        /\ UNCHANGED <<turns, cursor, noted>>
    BY <1>2 DEF Interview!StartFinalize
  <2>2. QED
    BY <2>1, EnterKeeps DEF InterviewInv
<1>3. CASE Interview!FinalizeDigested(f)
  <2>1. /\ final[f] = "digest" /\ Interview!Digested(f) /\ UNCHANGED <<turns, finalizing>>
        /\ final' = [final EXCEPT ![f] = "writing"]
    BY <1>3 DEF Interview!FinalizeDigested
  <2>2. /\ cursor' \in Nat /\ 1 .. cursor' \subseteq noted'
        /\ window' = [window EXCEPT ![f] = <<>>] /\ Continued(window)'
    BY <1>1, <2>1, DigestedNotes DEF InterviewInv
  <2>3. final' \in [Finalizers -> {"idle", "called", "digest", "writing"}]
    BY <2>1 DEF InterviewInv
  <2>4. \A g \in Finalizers : /\ Writes(g)' <=> Writes(g)
                              /\ final'[g] = "digest" => g # f /\ final[g] = "digest"
    BY <2>1 DEF InterviewInv, Writes
  <2>5. \A g \in Finalizers : final'[g] = "digest" => window'[g] # <<>>
    BY <1>1, <2>2, <2>4 DEF InterviewInv, Continued
  <2>6. QED
    BY <2>1, <2>2, <2>3, <2>4, <2>5 DEF InterviewInv
<1>4. CASE Interview!Written(f)
  <2>1. /\ final[f] = "writing" /\ final' = [final EXCEPT ![f] = "idle"]
        /\ UNCHANGED <<turns, cursor, window, noted>>
    BY <1>4 DEF Interview!Written
  <2>2. /\ final' \in [Finalizers -> {"idle", "called", "digest", "writing"}]
        /\ \A g \in Finalizers : final'[g] = IF g = f THEN "idle" ELSE final[g]
    BY <2>1 DEF InterviewInv
  <2>3. \A g \in Finalizers : ~Writes(g)'
    BY <2>1, <2>2 DEF InterviewInv, Writes
  <2>4. QED
    BY <2>1, <2>2, <2>3 DEF InterviewInv, Continued
<1>5. QED
  BY <1>2, <1>3, <1>4

LEMMA InterviewKeeps ==
    ASSUME Interview!InterviewAssumption, InterviewInv, [Interview!Next]_Interview!vars
    PROVE  InterviewInv'
<1>1. CASE Interview!SetAgenda \/ Interview!Reingest
  <2>1. UNCHANGED <<turns, cursor, window, noted, finalizing, final>>
    BY <1>1 DEF Interview!SetAgenda, Interview!Reingest, Interview!session
  <2>2. QED
    BY <2>1 DEF InterviewInv, Continued, Writes
<1>2. CASE Interview!EndSession
  <2>1. /\ UNCHANGED <<turns, cursor, window, noted, finalizing>>
        /\ final' = final \/ Interview!CallFinalize
    BY <1>2 DEF Interview!EndSession
  <2>2. QED
    BY <2>1, QuietKeeps DEF InterviewInv, Continued
<1>3. CASE Interview!Restart
  BY <1>3 DEF Interview!Restart, Interview!session, InterviewInv, Continued, Writes, Interview!Digesters
<1>4. CASE UNCHANGED Interview!vars
  <2>1. UNCHANGED <<turns, cursor, window, noted, finalizing, final>>
    BY <1>4 DEF Interview!vars, Interview!session
  <2>2. QED
    BY <2>1 DEF InterviewInv, Continued, Writes
<1>5. QED
  BY <1>1, <1>2, <1>3, <1>4, TextKeeps, CallKeeps, FinalizeKeeps DEF Interview!Next

\* However many texts, calls and end paths overlap, fail or are cut short by a restart, no
\* turn behind the notes cursor is unread (digest), and one document at a time is written
\* up (finalize).
THEOREM InterviewIsSound == FieldSpec => []InterviewSound
<1> DEFINE Inv == stage = "interview" => InterviewInv
<1>1. FieldInit => Inv
  BY InterviewInit DEF FieldInit
<1>2. Inv /\ [FieldNext]_fieldVars => Inv'
  BY StageSteps, InterviewKeeps, FieldAssumption
<1>3. Inv => InterviewSound
  BY InvIsSound DEF InterviewSound
<1>4. QED
  BY <1>1, <1>2, <1>3, PTL DEF FieldSpec

-----------------------------------------------------------------------------
(***************************************************************************)
(* The drafts.  What a tool returned the graph held when it was called, so *)
(* all that is harvested from the trace, and all that the grounding check  *)
(* lets pass, is among what the graph has held since the question.         *)
(***************************************************************************)
Shaped(f) == f = [r \in Drafts!Relations |-> f[r]]

Harvest ==
    /\ Shaped(graph) /\ Shaped(held)
    /\ \A r \in Drafts!Relations : graph[r] \subseteq held[r]
    /\ trigger.siblings \subseteq held["siblings"]
    /\ \A made \in trace : made[1] \in Drafts!Relations /\ made[2] \subseteq held[made[1]]
    /\ phase \in {"asked", "answered"} => case \in Drafts!Cases

DraftsInv ==
    /\ Harvest
    /\ Drafts!NothingInvented
    /\ draft # None => draft.clauses \union draft.procedures \subseteq Drafts!Citable

\* What the graph holds at the question is what it has held.
LEMMA DraftsInit == Drafts!Init => DraftsInv
<1> SUFFICES ASSUME Drafts!Init PROVE DraftsInv
  OBVIOUS
<1>1. PICK m, n, c, o, p :
         graph = [connected |-> m, siblings |-> n, clauses |-> c, overdue |-> o,
                  procedures |-> p]
  BY DEF Drafts!Init, Drafts!Graphs
<1>2. Shaped(graph) /\ held = graph
  BY <1>1 DEF Shaped, Drafts!Relations, Drafts!Init
<1>3. trigger.siblings = graph["siblings"]
  BY DEF Drafts!Init
<1>4. Harvest
  BY <1>2, <1>3 DEF Harvest, Drafts!Init
<1>5. QED
  BY <1>4 DEF DraftsInv, Drafts!NothingInvented, Drafts!Init

\* What tools returned, and what the check lets pass.
LEMMA ReturnedHeld ==
    ASSUME Harvest, NEW tools
    PROVE  \A x \in Drafts!Returned(tools) : \E r \in tools \cap Drafts!Relations : x \in held[r]
  BY DEF Harvest, Drafts!Returned

LEMMA CitedHeld ==
    ASSUME Harvest
    PROVE  /\ Drafts!Returned({"clauses"}) \subseteq Drafts!Citable
           /\ Drafts!Returned({"procedures"}) \subseteq Drafts!Citable
           /\ Drafts!Returned({"siblings", "connected"}) \subseteq Drafts!Known
<1>1. /\ Drafts!Returned({"clauses"}) \subseteq held["clauses"]
      /\ Drafts!Returned({"procedures"}) \subseteq held["procedures"]
  BY ReturnedHeld
<1>2. Drafts!Returned({"siblings", "connected"}) \subseteq Drafts!Known
  BY ReturnedHeld DEF Drafts!Known
<1>3. QED
  BY <1>1, <1>2 DEF Drafts!Citable

LEMMA GroundedKnown ==
    ASSUME Harvest, NEW tags, Drafts!Ungrounded(tags) = {}
    PROVE  tags \subseteq Drafts!Known
<1>1. Drafts!Returned(Drafts!Tools) \subseteq Drafts!Known
  BY ReturnedHeld DEF Drafts!Known
<1>2. Drafts!Given \subseteq Drafts!Known
  BY DEF Drafts!Given, Drafts!Known, Drafts!Relations, Harvest
<1>3. tags \subseteq Drafts!Given \union Drafts!Returned(Drafts!Tools)
  BY DEF Drafts!Ungrounded
<1>4. QED
  BY <1>1, <1>2, <1>3

\* The graph forgets and learns; what it has held only grows.
LEMMA HeldStays ==
    ASSUME DraftsInv, UNCHANGED <<artifact, draft, brief>>,
           \A r \in Drafts!Relations : held[r] \subseteq held'[r]
    PROVE  /\ Drafts!NothingInvented'
           /\ draft' # None => draft'.clauses \union draft'.procedures \subseteq Drafts!Citable'
<1>1. Drafts!Known \subseteq Drafts!Known' /\ Drafts!Citable \subseteq Drafts!Citable'
  BY DEF Drafts!Known, Drafts!Citable, Drafts!Relations
<1>2. QED
  BY <1>1 DEF DraftsInv, Drafts!NothingInvented, Drafts!Urgent

\* An artifact is urgent or verified by the grounding of what it names alone.
LEMMA BuildSound ==
    ASSUME DraftsInv, Drafts!Build
    PROVE  /\ artifact'.verified \/ artifact'.severity = "critical" =>
                  artifact'.names \subseteq Drafts!Known
           /\ artifact'.clauses \union artifact'.procedures \union artifact'.flags
                  \subseteq Drafts!Citable
<1> DEFINE ok == Drafts!Ungrounded(claimed) = {}
<1>1. case \in Drafts!Cases
  BY DEF DraftsInv, Harvest, Drafts!Build
<1>2. Drafts!Flags \subseteq Drafts!Citable
  BY DEF Drafts!Flags, Drafts!Overdue, Drafts!Citable, DraftsInv, Harvest, Drafts!Relations
<1>3. \E severity, flags :
         /\ artifact' = Drafts!Artifact(severity, flags)
         /\ severity = "critical" => ok
         /\ flags \subseteq Drafts!Citable
  <2>1. CASE case = "alert"
    <3>1. artifact' = Drafts!Artifact(Drafts!Severity(ok), {})
      BY <2>1 DEF Drafts!Build, Drafts!Alert
    <3>2. Drafts!Severity(ok) = "critical" => ok
      BY DEF Drafts!Severity
    <3>3. QED
      BY <3>1, <3>2
  <2>2. CASE case # "alert"
    <3>1. artifact' = Drafts!Artifact("none", Drafts!Flags)
      BY <1>1, <2>2 DEF Drafts!Build, Drafts!Permit, Drafts!Assessment, Drafts!Report,
                        Drafts!Cases, Drafts!Streamed
    <3>2. QED
      BY <1>2, <3>1
  <2>3. QED
    BY <2>1, <2>2
<1>4. PICK severity, flags : /\ artifact' = Drafts!Artifact(severity, flags)
                             /\ severity = "critical" => ok
                             /\ flags \subseteq Drafts!Citable
  BY <1>3
<1>5. /\ artifact'.severity = severity /\ artifact'.verified = ok
      /\ artifact'.names = claimed /\ artifact'.flags = flags
      /\ artifact'.clauses = Drafts!Returned({"clauses"})
      /\ artifact'.procedures = Drafts!Returned({"procedures"})
  BY <1>4 DEF Drafts!Artifact
<1>6. ok => claimed \subseteq Drafts!Known
  BY GroundedKnown DEF DraftsInv
<1> HIDE DEF ok
<1>7. QED
  BY <1>4, <1>5, <1>6, CitedHeld DEF DraftsInv

\* So is an order, whose prose is checked on its own.
LEMMA OrderSound ==
    ASSUME DraftsInv, Drafts!DraftOrder, draft' # draft
    PROVE  /\ draft'.verified \/ Drafts!Urgent(draft') => draft'.names \subseteq Drafts!Known
           /\ draft'.affected \subseteq Drafts!Known
           /\ draft'.clauses \union draft'.procedures \subseteq Drafts!Citable
<1>1. PICK prose :
         draft' = [affected |-> {Subject} \union Drafts!Returned({"siblings", "connected"}),
                   clauses |-> Drafts!Returned({"clauses"}),
                   procedures |-> Drafts!Returned({"procedures"}),
                   names |-> prose,
                   verified |-> Drafts!Ungrounded(prose) = {},
                   priority |-> Drafts!Priority(Drafts!Returned({"clauses"}),
                                                Drafts!Ungrounded(prose) = {})]
  BY DEF Drafts!DraftOrder
<1>2. \A clauses : Drafts!Priority(clauses, FALSE) \notin {"high", "immediate"}
  BY DEF Drafts!Priority
<1>3. /\ draft'.affected = {Subject} \union Drafts!Returned({"siblings", "connected"})
      /\ draft'.clauses = Drafts!Returned({"clauses"})
      /\ draft'.procedures = Drafts!Returned({"procedures"})
      /\ draft'.names = prose
      /\ draft'.verified = (Drafts!Ungrounded(prose) = {})
      /\ draft'.priority = Drafts!Priority(Drafts!Returned({"clauses"}),
                                           Drafts!Ungrounded(prose) = {})
  BY <1>1
<1>4. draft'.verified \/ Drafts!Urgent(draft') => Drafts!Ungrounded(prose) = {}
  <2> SUFFICES ASSUME Drafts!Ungrounded(prose) # {}
               PROVE  ~draft'.verified /\ ~Drafts!Urgent(draft')
    OBVIOUS
  <2>1. (Drafts!Ungrounded(prose) = {}) = FALSE
    OBVIOUS
  <2>2. draft'.priority = Drafts!Priority(Drafts!Returned({"clauses"}), FALSE)
    BY <1>3, <2>1
  <2>3. QED
    BY <1>2, <1>3, <2>1, <2>2 DEF Drafts!Urgent
<1>5. Drafts!Ungrounded(prose) = {} => prose \subseteq Drafts!Known
  BY GroundedKnown DEF DraftsInv
<1>6. {Subject} \subseteq Drafts!Known
  BY DEF Drafts!Known
<1>7. QED
  BY <1>3, <1>4, <1>5, <1>6, CitedHeld DEF DraftsInv

LEMMA DraftsKeep == DraftsInv /\ [Drafts!Next]_Drafts!vars => DraftsInv'
<1> SUFFICES ASSUME DraftsInv, [Drafts!Next]_Drafts!vars PROVE DraftsInv'
  OBVIOUS
<1>0. Harvest
  BY DEF DraftsInv
<1>1. CASE Drafts!CallTool
  <2>1. /\ UNCHANGED <<graph, trigger, case, phase, artifact, draft, brief, held>>
        /\ \E tool \in Drafts!Tools, rows \in SUBSET UNION {graph[r] : r \in Drafts!Relations} :
              rows \in {graph[tool], {}} /\ trace' = trace \union {<<tool, rows>>}
    BY <1>1 DEF Drafts!CallTool, Drafts!Rows, Drafts!Tools, Drafts!Relations
  <2>2. Drafts!Tools \subseteq Drafts!Relations
    BY DEF Drafts!Tools, Drafts!Relations
  <2>3. Harvest'
    BY <1>0, <2>1, <2>2 DEF Harvest, Shaped
  <2>4. QED
    BY <2>1, <2>3, HeldStays DEF DraftsInv
<1>2. CASE Drafts!AnswerGiven
  <2>1. /\ UNCHANGED <<graph, trigger, case, trace, artifact, draft, brief, held>>
        /\ phase = "asked"
    BY <1>2 DEF Drafts!AnswerGiven
  <2>2. Harvest'
    BY <1>0, <2>1 DEF Harvest, Shaped
  <2>3. QED
    BY <2>1, <2>2, HeldStays DEF DraftsInv
<1>3. CASE Drafts!GraphChanges
  <2>1. /\ UNCHANGED <<trigger, case, phase, trace, artifact, draft, brief>>
        /\ \E r \in Drafts!Relations : \E rows :
              graph' = [graph EXCEPT ![r] = rows] /\ held' = [held EXCEPT ![r] = @ \union rows]
    BY <1>3 DEF Drafts!GraphChanges
  <2>0. PICK r \in Drafts!Relations : \E rows :
           graph' = [graph EXCEPT ![r] = rows] /\ held' = [held EXCEPT ![r] = @ \union rows]
    BY <2>1
  <2>2. PICK rows :
           graph' = [graph EXCEPT ![r] = rows] /\ held' = [held EXCEPT ![r] = @ \union rows]
    BY <2>0
  <2>3. /\ DOMAIN graph = Drafts!Relations /\ DOMAIN held = Drafts!Relations
    BY <1>0 DEF Harvest, Shaped
  <2>4. Shaped(graph)' /\ Shaped(held)'
    BY <1>0, <2>2, <2>3 DEF Harvest, Shaped
  <2>5. \A q \in Drafts!Relations :
           /\ held'[q] = IF q = r THEN held[q] \union rows ELSE held[q]
           /\ graph'[q] = IF q = r THEN rows ELSE graph[q]
    BY <2>2, <2>3
  <2>6. /\ \A q \in Drafts!Relations : held[q] \subseteq held'[q] /\ graph'[q] \subseteq held'[q]
    BY <1>0, <2>5 DEF Harvest
  <2>7. "siblings" \in Drafts!Relations
    BY DEF Drafts!Relations
  <2>8. Harvest'
    BY <1>0, <2>1, <2>4, <2>6, <2>7 DEF Harvest
  <2>9. QED
    BY <2>1, <2>6, <2>8, HeldStays DEF DraftsInv
<1>4. CASE Drafts!Build
  <2>1. /\ phase' = "built" /\ UNCHANGED <<graph, trigger, trace, draft, brief, held>>
    BY <1>4 DEF Drafts!Build
  <2>2. Harvest'
    BY <1>0, <2>1 DEF Harvest, Shaped
  <2>3. UNCHANGED <<Drafts!Known, Drafts!Citable>>
    BY <2>1 DEF Drafts!Known, Drafts!Citable
  <2>4. QED
    BY <1>4, <2>1, <2>2, <2>3, BuildSound DEF DraftsInv, Drafts!NothingInvented, Drafts!Urgent
<1>5. CASE Drafts!DraftOrder
  <2>1. /\ phase' = "drafted" /\ artifact' = None /\ UNCHANGED <<graph, trigger, trace, brief, held>>
    BY <1>5 DEF Drafts!DraftOrder
  <2>2. Harvest'
    BY <1>0, <2>1 DEF Harvest, Shaped
  <2>3. UNCHANGED <<Drafts!Known, Drafts!Citable>>
    BY <2>1 DEF Drafts!Known, Drafts!Citable
  <2>4. QED
    BY <1>5, <2>1, <2>2, <2>3, OrderSound DEF DraftsInv, Drafts!NothingInvented, Drafts!Urgent
<1>6. CASE Drafts!ScheduleInspection
  <2>1. /\ phase' = "drafted" /\ UNCHANGED <<graph, trigger, trace, artifact, brief, held>>
    BY <1>6 DEF Drafts!ScheduleInspection
  <2>2. Harvest'
    BY <1>0, <2>1 DEF Harvest, Shaped
  <2>3. UNCHANGED <<Drafts!Known, Drafts!Citable>>
    BY <2>1 DEF Drafts!Known, Drafts!Citable
  <2>4. \E c \in held["clauses"] :
           /\ draft'.affected = {Subject} /\ draft'.names = {Subject}
           /\ draft'.clauses = {c} /\ draft'.procedures = {}
    BY <1>0, <1>6 DEF Drafts!ScheduleInspection, Harvest, Drafts!Relations
  <2>5. {Subject} \subseteq Drafts!Known /\ held["clauses"] \subseteq Drafts!Citable
    BY DEF Drafts!Known, Drafts!Citable
  <2>6. QED
    BY <2>1, <2>2, <2>3, <2>4, <2>5 DEF DraftsInv, Drafts!NothingInvented, Drafts!Urgent
<1>7. CASE Drafts!BuildCards
  <2>1. /\ phase' = "carded" /\ draft # None
        /\ UNCHANGED <<graph, trigger, trace, artifact, draft, held>>
    BY <1>7 DEF Drafts!BuildCards
  <2>2. \A code \in Codes : brief'[code].references = Drafts!References
    BY <1>7 DEF Drafts!BuildCards, Drafts!Cards
  <2>3. Drafts!References \subseteq Drafts!Citable
    BY <2>1 DEF Drafts!References, DraftsInv
  <2>4. Harvest'
    BY <1>0, <2>1 DEF Harvest, Shaped
  <2>5. UNCHANGED <<Drafts!Known, Drafts!Citable>>
    BY <2>1 DEF Drafts!Known, Drafts!Citable
  <2>6. QED
    BY <2>1, <2>2, <2>3, <2>4, <2>5 DEF DraftsInv, Drafts!NothingInvented, Drafts!Urgent
<1>8. CASE UNCHANGED Drafts!vars
  <2>1. UNCHANGED <<graph, trigger, case, phase, trace, artifact, draft, brief, held>>
    BY <1>8 DEF Drafts!vars
  <2>2. Harvest'
    BY <1>0, <2>1 DEF Harvest, Shaped
  <2>3. QED
    BY <2>1, <2>2, HeldStays DEF DraftsInv
<1>9. QED
  BY <1>1, <1>2, <1>3, <1>4, <1>5, <1>6, <1>7, <1>8 DEF Drafts!Next

\* Whatever the model writes, whichever tools fail and however the graph changes under
\* an investigation: what is verified or urgent names no tag the graph never held, and
\* no artifact and no job card in any language cites an obligation or a procedure that
\* it never held.
THEOREM NothingIsInvented == FieldSpec => []DraftsTraced
<1> DEFINE Inv == stage = "drafts" => DraftsInv
<1>1. FieldInit => Inv
  BY DraftsInit DEF FieldInit
<1>2. Inv /\ [FieldNext]_fieldVars => Inv'
  BY StageSteps, DraftsKeep
<1>3. Inv => DraftsTraced
  BY DEF DraftsInv, DraftsTraced
<1>4. QED
  BY <1>1, <1>2, <1>3, PTL DEF FieldSpec

-----------------------------------------------------------------------------
(* The language-model client: requests leave the limiter an interval apart *)

\* The limiter's time is that of the request that left it last.
LimiterInv ==
    /\ now \in Nat /\ lastTime \in Nat /\ lastTime <= now
    /\ started = lastTime

LEMMA LimiterInit == ASSUME Client!ClientAssumption PROVE Client!Init => LimiterInv
  BY DEF Client!ClientAssumption, Client!Init, Client!Never, LimiterInv

LEMMA LimiterKeeps ==
    ASSUME Client!ClientAssumption, LimiterInv, [Client!Next]_Client!vars
    PROVE  LimiterInv' /\ Client!RateStep
<1> USE DEF LimiterInv, Client!RateStep
<1>1. CASE Client!Tick
  BY <1>1 DEF Client!Tick
<1>2. ASSUME NEW t \in Tasks, Client!Call(t) PROVE UNCHANGED <<now, lastTime, started>>
  BY <1>2 DEF Client!Call
<1>3. ASSUME NEW t \in Tasks, Client!TakeSlot(t) PROVE UNCHANGED <<now, lastTime, started>>
  BY <1>3 DEF Client!TakeSlot
<1>4. CASE \E t \in Tasks : Client!Acquire(t)
  BY <1>4 DEF Client!Acquire
<1>5. CASE \E t \in Tasks : Client!Wake(t)
  BY <1>5 DEF Client!Wake
<1>6. ASSUME NEW t \in Tasks, Client!Reply(t) PROVE UNCHANGED <<now, lastTime, started>>
  BY <1>6 DEF Client!Reply
<1>7. ASSUME NEW t \in Tasks, Client!Retry(t) PROVE UNCHANGED <<now, lastTime, started>>
  BY <1>7 DEF Client!Retry
<1>8. ASSUME NEW t \in Tasks, Client!Use(t) PROVE UNCHANGED <<now, lastTime, started>>
  BY <1>8 DEF Client!Use
<1>9. CASE UNCHANGED Client!vars
  BY <1>9 DEF Client!vars
<1>10. CASE UNCHANGED <<now, lastTime, started>>
  BY <1>10
<1>11. QED
  BY <1>1, <1>2, <1>3, <1>4, <1>5, <1>6, <1>7, <1>8, <1>9, <1>10 DEF Client!Next

\* However many tasks call, wait, retry and fail, two requests leave the limiter at least
\* Interval apart (AsyncRateLimiter.acquire).
THEOREM RequestsKeepTheRate == FieldSpec => RateKept
<1> DEFINE Inv == stage = "model" => LimiterInv
           Step == stage = "model" => Client!RateStep
<1>1. FieldInit => Inv
  BY LimiterInit, FieldAssumption DEF FieldInit
<1>2. Inv /\ [FieldNext]_fieldVars => Inv' /\ [Step]_fieldVars
  BY StageSteps, LimiterKeeps, FieldAssumption
<1>3. QED
  BY <1>1, <1>2, PTL DEF FieldSpec, RateKept

=============================================================================
