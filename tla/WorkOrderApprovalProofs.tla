----------------------- MODULE WorkOrderApprovalProofs -----------------------
(***************************************************************************)
(* Type correctness of WorkOrderApproval; that no worker ever holds a job  *)
(* card for a slot that was not approved; that those a row names as sent   *)
(* to hold a card; and that a proposal is answered twice only by handlers  *)
(* that held its row together, its answers being final after that.         *)
(***************************************************************************)
EXTENDS WorkOrderApproval, TLAPS

\* What a deciding handler holds and a proposer has saved are proposals.
Held ==
    /\ schedule.status = "pending" => schedule.n \in Proposal
    /\ \A l \in Loops : turn[l] = "deciding" =>
           tapped[l].row.n \in Proposal /\ tapped[l].msg \in Proposal
    /\ \A p \in Proposers : offer[p][1] = "saved" => offer[p][2] \in 1..proposals

\* An approved row, a dispatch and a card all stem from an approval.
Backed ==
    /\ schedule.status = "approved" => Approved(schedule.n)
    /\ \A t \in Tasks : task[t].pc # "none" =>
           task[t].row.status = "approved" /\ Approved(task[t].row.n)
    /\ \A w \in Crew : card[w] # NoCard => Approved(card[w].window)

IInv == TypeOK /\ Held /\ Backed

\* Starting a dispatch adds one with the row it was given.
LEMMA StartedInd ==
    ASSUME TypeOK, NEW r \in Row, NEW l \in Loops, Idle # {}
    PROVE  /\ Started(r, l) \in [Tasks -> TaskType]
           /\ \A t \in Tasks : Started(r, l)[t] = task[t] \/ Started(r, l)[t].row = r
<1> DEFINE t0 == CHOOSE t \in Idle : \A u \in Idle : t <= u
           new == [pc |-> "start", loop |-> l, row |-> r, crew |-> {}, left |-> {},
                   brief |-> 0]
<1>1. new \in TaskType /\ new.row = r
  BY ApprovalAssumption DEF Number, TaskType
<1>2. Started(r, l) = [task EXCEPT ![t0] = new]
  BY DEF Started
<1> HIDE DEF new, t0
<1>3. task \in [Tasks -> TaskType]
  BY DEF TypeOK
<1>4. QED BY <1>1, <1>2, <1>3

\* A dispatch that moves on with its row leaves the dispatches as they must be.
TasksBacked ==
    /\ task \in [Tasks -> TaskType]
    /\ \A t \in Tasks : task[t].pc # "none" =>
           task[t].row.status = "approved" /\ Approved(task[t].row.n)

LEMMA MovedInd ==
    ASSUME IInv, NEW t \in Tasks, NEW new \in TaskType, new.row = task[t].row,
           task[t].pc # "none", task' = [task EXCEPT ![t] = new], answers' = answers
    PROVE  TasksBacked'
<1>1. task \in [Tasks -> TaskType]
  BY DEF IInv, TypeOK
<1>2. task' \in [Tasks -> TaskType]
  BY <1>1
<1>3. ASSUME NEW u \in Tasks, task'[u].pc # "none"
      PROVE  task'[u].row.status = "approved" /\ Approved(task'[u].row.n)
  <2>1. CASE u = t
    BY <2>1, <1>1 DEF IInv, Backed
  <2>2. CASE u # t
    BY <2>2, <1>1, <1>3 DEF IInv, Backed
  <2>3. QED BY <2>1, <2>2
<1>4. QED BY <1>2, <1>3 DEF TasksBacked, Approved

\* A fault is one more of the bounded ones.
LEMMA FaultInd == TypeOK /\ Fault => faults' \in 0..MaxFaults
  BY ApprovalAssumption DEF TypeOK, Fault

LEMMA InitInd == Init => IInv
<1> SUFFICES ASSUME Init PROVE IInv
  OBVIOUS
<1> USE ApprovalAssumption DEF Init
<1>1. NoRow \in Row /\ NoTask \in TaskType /\ NoCard \in Card
  BY DEF NoRow, NoTask, NoCard, Row, TaskType, Card, Number, Decisions
<1>2. NoTap \in [row : Row, decision : Decisions, msg : Number]
  BY <1>1 DEF NoTap, Decisions, Number
<1>3. TypeOK
  BY <1>1, <1>2 DEF TypeOK, Number
<1>4. Held /\ Backed
  BY DEF Held, Backed, NoRow, NoTask
<1>5. QED BY <1>3, <1>4 DEF IInv

LEMMA StepInd == IInv /\ [Next]_vars => IInv'
<1> SUFFICES ASSUME IInv, [Next]_vars PROVE IInv'
  OBVIOUS
<1> USE DEF IInv
<1>0. task \in [Tasks -> TaskType] /\ schedule \in Row
  BY DEF TypeOK
<1>1. ASSUME NEW p \in Proposers, Check(p) PROVE IInv'
  BY <1>1, ApprovalAssumption DEF Check, TypeOK, Held, Backed, Approved, Number
<1>2. ASSUME NEW p \in Proposers, Save(p) PROVE IInv'
  <2>1. proposals + 1 \in Proposal /\ proposals + 1 \in Number /\ proposals \in Nat
    BY <1>2, ApprovalAssumption DEF Save, TypeOK, Number, Proposal
  <2>2. schedule' \in Row /\ schedule'.status # "approved" /\ schedule'.n \in Proposal
    BY <1>2, <2>1 DEF Save, Row
  <2>3. TypeOK'
    BY <1>2, <2>1, <2>2 DEF Save, TypeOK
  <2>4. Held'
    BY <1>2, <2>1, <2>2 DEF Save, TypeOK, Held
  <2>5. Backed'
    BY <1>2, <2>2 DEF Save, Backed, Approved
  <2>6. QED BY <2>3, <2>4, <2>5
<1>3. ASSUME NEW p \in Proposers, Ask(p) PROVE IInv'
  <2>1. offer[p][2] \in 1..proposals /\ 0 \in Number
    BY <1>3, ApprovalAssumption DEF Ask, Held, Number
  <2>2. asked' \subseteq 1..proposals /\ faults' \in 0..MaxFaults
    BY <1>3, <2>1, FaultInd DEF Ask, TypeOK
  <2>3. offer' = [offer EXCEPT ![p] = <<"idle", 0>>]
    BY <1>3 DEF Ask
  <2>4. TypeOK'
    BY <1>3, <2>1, <2>2, <2>3 DEF Ask, TypeOK
  <2>5. Held'
    BY <1>3, <2>3 DEF Ask, TypeOK, Held
  <2>6. Backed'
    BY <1>3 DEF Ask, Backed, Approved
  <2>7. QED BY <2>4, <2>5, <2>6
<1>4. ASSUME NEW l \in Loops, NEW n \in Proposal, NEW d \in Decisions, Tap(l, n, d)
      PROVE  IInv'
  BY <1>4, ApprovalAssumption DEF Tap, TypeOK, Held, Backed, Approved, Number, Proposal
<1>5. ASSUME NEW l \in Loops, Decide(l) PROVE IInv'
  <2>1. PICK r \in Row, a \in [n : Proposal, decision : Decisions, msg : Proposal] :
           /\ a.n = r.n /\ a.decision = r.status
           /\ schedule' = r /\ answers' = answers \cup {a}
           /\ \/ r.status = "approved" /\ Idle # {} /\ task' = Started(r, l)
              \/ r.status # "approved" /\ task' = task
    <3> DEFINE row == [tapped[l].row EXCEPT !.status = tapped[l].decision]
               ans == [n |-> row.n, decision |-> row.status, msg |-> tapped[l].msg]
    <3>1. row \in Row /\ row.n \in Proposal /\ row.status \in Decisions
      BY <1>5 DEF Decide, TypeOK, Held, Row
    <3>2. /\ ans \in [n : Proposal, decision : Decisions, msg : Proposal]
          /\ ans.n = row.n /\ ans.decision = row.status
      BY <1>5, <3>1 DEF Decide, Held
    <3>3. schedule' = row /\ answers' = answers \cup {ans}
      BY <1>5 DEF Decide
    <3>4. \/ row.status = "approved" /\ Idle # {} /\ task' = Started(row, l)
          \/ row.status # "approved" /\ task' = task
      BY <1>5, Zenon DEF Decide
    <3> HIDE DEF row, ans
    <3>5. QED BY <3>1, <3>2, <3>3, <3>4
  <2>2. /\ turn' = [turn EXCEPT ![l] = "free"]
        /\ tapped' = [tapped EXCEPT ![l] = NoTap]
        /\ UNCHANGED <<proposals, asked, offer, brief, card, roster, faults, crashes>>
    BY <1>5 DEF Decide
  <2>3. \A n : Approved(n) => Approved(n)'
    BY <2>1 DEF Approved
  <2>4. r.status = "approved" => Approved(r.n)'
    BY <2>1 DEF Approved
  <2>5. TasksBacked'
    <3>1. CASE r.status # "approved"
      BY <3>1, <1>0, <2>1, <2>3 DEF Backed, TasksBacked
    <3>2. CASE r.status = "approved"
      <4>1. /\ Started(r, l) \in [Tasks -> TaskType]
            /\ \A t \in Tasks : Started(r, l)[t] = task[t] \/ Started(r, l)[t].row = r
        BY <2>1, <3>2, StartedInd
      <4>2. /\ task' \in [Tasks -> TaskType]
            /\ \A t \in Tasks : task'[t] = task[t] \/ task'[t].row = r
        BY <2>1, <3>2, <4>1
      <4>3. QED BY <2>3, <2>4, <3>2, <4>2 DEF Backed, TasksBacked
    <3>3. QED BY <3>1, <3>2
  <2>6. NoTap \in [row : Row, decision : Decisions, msg : Number]
    BY ApprovalAssumption DEF NoTap, NoRow, Row, Number, Decisions
  <2>7. TypeOK'
    BY <2>1, <2>2, <2>5, <2>6 DEF TypeOK, TasksBacked
  <2>8. Held'
    BY <2>1, <2>2 DEF Held, TypeOK, Decisions
  <2>9. Backed'
    BY <2>1, <2>2, <2>3, <2>4, <2>5 DEF Backed, TasksBacked
  <2>10. QED BY <2>7, <2>8, <2>9
<1>6. ASSUME NEW l \in Loops, Redispatch(l) PROVE IInv'
  <2>1. /\ task' \in [Tasks -> TaskType]
        /\ \A t \in Tasks : task'[t] = task[t] \/ task'[t].row = schedule
    <3>1. schedule \in Row /\ Idle # {} /\ task' = Started(schedule, l)
      BY <1>0, <1>6 DEF Redispatch
    <3>2. QED BY <3>1, StartedInd
  <2>2. TasksBacked'
    BY <1>6, <2>1 DEF Redispatch, Backed, TasksBacked, Approved
  <2>3. TypeOK' /\ Held' /\ Backed'
    BY <1>6, <2>2 DEF Redispatch, TypeOK, Held, Backed, TasksBacked, Approved
  <2>4. QED BY <2>3
<1>7. ASSUME NEW l \in Loops, Crash(l) PROVE IInv'
  <2>1. /\ task' \in [Tasks -> TaskType]
        /\ \A t \in Tasks : /\ task'[t].row = task[t].row
                            /\ task[t].pc = "none" => task'[t].pc = "none"
    BY <1>7, <1>0 DEF Crash, TaskType
  <2>2. TasksBacked'
    BY <1>7, <2>1 DEF Crash, Backed, TasksBacked, Approved
  <2>3. NoTap \in [row : Row, decision : Decisions, msg : Number]
    BY ApprovalAssumption DEF NoTap, NoRow, Row, Number, Decisions
  <2>4. TypeOK'
    BY <1>7, <2>2, <2>3, ApprovalAssumption DEF Crash, TypeOK, TasksBacked
  <2>5. Held'
    BY <1>7 DEF Crash, TypeOK, Held
  <2>6. Backed'
    BY <1>7, <2>2 DEF Crash, Backed, TasksBacked, Approved
  <2>7. QED BY <2>4, <2>5, <2>6
<1>8. ASSUME NEW t \in Tasks, Dispatch(t) PROVE IInv'
  <2>1. CASE DraftUnreadable(t)
    <3> DEFINE new == [task[t] EXCEPT !.pc = "failed"]
    <3>1. new \in TaskType /\ new.row = task[t].row
      BY <2>1, <1>0 DEF DraftUnreadable, TaskType
    <3>2. TasksBacked'
      <4>1. task' = [task EXCEPT ![t] = new] /\ task[t].pc # "none" /\ answers' = answers
        BY <2>1, <1>0 DEF DraftUnreadable, TaskType
      <4> HIDE DEF new
      <4>2. QED BY <3>1, <4>1, MovedInd
    <3>3. /\ schedule' \in Row /\ schedule'.status = "approved"
          /\ schedule'.n = task[t].row.n /\ Approved(task[t].row.n)
      BY <2>1, <1>0 DEF DraftUnreadable, TaskType, Row, Backed
    <3>4. TypeOK'
      BY <2>1, <3>2, <3>3, FaultInd DEF DraftUnreadable, TypeOK, TasksBacked
    <3>5. Held'
      BY <2>1, <3>3, <1>0 DEF DraftUnreadable, TypeOK, Held, TaskType
    <3>6. Backed'
      BY <2>1, <3>2, <3>3 DEF DraftUnreadable, Backed, TasksBacked, Approved
    <3>7. QED BY <3>4, <3>5, <3>6
  <2>2. CASE NoCrew(t)
    <3> DEFINE new == [task[t] EXCEPT !.pc = "failed"]
    <3>1. new \in TaskType /\ new.row = task[t].row
      BY <2>2, <1>0 DEF NoCrew, TaskType
    <3>2. TasksBacked'
      <4>1. task' = [task EXCEPT ![t] = new] /\ task[t].pc # "none" /\ answers' = answers
        BY <2>2, <1>0 DEF NoCrew, TaskType
      <4> HIDE DEF new
      <4>2. QED BY <3>1, <4>1, MovedInd
    <3>3. TypeOK'
      BY <2>2, <1>0, <3>2 DEF NoCrew, TypeOK, TasksBacked, TaskType
    <3>4. Held'
      BY <2>2 DEF NoCrew, TypeOK, Held
    <3>5. Backed'
      BY <2>2, <3>2 DEF NoCrew, Backed, TasksBacked, Approved
    <3>6. QED BY <3>3, <3>4, <3>5
  <2>3. CASE Prepare(t)
    <3> DEFINE new == [task[t] EXCEPT
                         !.pc = IF brief = 0 THEN "asking" ELSE "deliver",
                         !.crew = roster, !.left = roster, !.brief = brief]
    <3>1. new \in TaskType /\ new.row = task[t].row
      <4>1. (IF brief = 0 THEN "asking" ELSE "deliver") \in {"asking", "deliver"}
        OBVIOUS
      <4>2. brief \in Number /\ roster \in SUBSET Crew /\ task[t] \in TaskType
        BY <1>0 DEF TypeOK
      <4>3. QED BY <4>1, <4>2 DEF TaskType
    <3>2. TasksBacked'
      <4>1. task' = [task EXCEPT ![t] = new] /\ task[t].pc # "none" /\ answers' = answers
        BY <2>3, <1>0 DEF Prepare, TaskType
      <4> HIDE DEF new
      <4>2. QED BY <3>1, <4>1, MovedInd
    <3>3. TypeOK'
      BY <2>3, <1>0, <3>2 DEF Prepare, TypeOK, TasksBacked, TaskType
    <3>4. Held'
      BY <2>3 DEF Prepare, TypeOK, Held
    <3>5. Backed'
      BY <2>3, <3>2 DEF Prepare, Backed, TasksBacked, Approved
    <3>6. QED BY <3>3, <3>4, <3>5
  <2>4. CASE BriefArrives(t)
    <3> DEFINE new == [task[t] EXCEPT !.pc = "deliver", !.brief = task[t].row.n]
    <3>1. new \in TaskType /\ new.row = task[t].row
      <4>1. task[t] \in TaskType /\ task[t].row.n \in Number
        BY <1>0 DEF TaskType, Row
      <4>2. QED BY <4>1 DEF TaskType
    <3>2. TasksBacked'
      <4>1. task' = [task EXCEPT ![t] = new] /\ task[t].pc # "none" /\ answers' = answers
        BY <2>4, <1>0 DEF BriefArrives, TaskType
      <4> HIDE DEF new
      <4>2. QED BY <3>1, <4>1, MovedInd
    <3>3. TypeOK'
      BY <2>4, <1>0, <3>2 DEF BriefArrives, TypeOK, TasksBacked, TaskType, Row
    <3>4. Held'
      BY <2>4 DEF BriefArrives, TypeOK, Held
    <3>5. Backed'
      BY <2>4, <3>2 DEF BriefArrives, Backed, TasksBacked, Approved
    <3>6. QED BY <3>3, <3>4, <3>5
  <2>5. CASE BriefRefused(t)
    <3> DEFINE new == [task[t] EXCEPT !.pc = "failed"]
    <3>1. new \in TaskType /\ new.row = task[t].row
      BY <2>5, <1>0 DEF BriefRefused, TaskType
    <3>2. TasksBacked'
      <4>1. task' = [task EXCEPT ![t] = new] /\ task[t].pc # "none" /\ answers' = answers
        BY <2>5, <1>0 DEF BriefRefused, TaskType
      <4> HIDE DEF new
      <4>2. QED BY <3>1, <4>1, MovedInd
    <3>3. TypeOK'
      BY <2>5, <3>2, FaultInd DEF BriefRefused, TypeOK, TasksBacked
    <3>4. Held'
      BY <2>5 DEF BriefRefused, TypeOK, Held
    <3>5. Backed'
      BY <2>5, <3>2 DEF BriefRefused, Backed, TasksBacked, Approved
    <3>6. QED BY <3>3, <3>4, <3>5
  <2>6. CASE Finish(t)
    <3> DEFINE new == [task[t] EXCEPT !.pc = "done"]
    <3>1. new \in TaskType /\ new.row = task[t].row
      BY <2>6, <1>0 DEF Finish, TaskType
    <3>2. TasksBacked'
      <4>1. task' = [task EXCEPT ![t] = new] /\ task[t].pc # "none" /\ answers' = answers
        BY <2>6, <1>0 DEF Finish, TaskType
      <4> HIDE DEF new
      <4>2. QED BY <3>1, <4>1, MovedInd
    <3>3. /\ schedule' \in Row /\ schedule'.status = "approved"
          /\ schedule'.n = task[t].row.n /\ Approved(task[t].row.n)
      BY <2>6, <1>0 DEF Finish, TaskType, Row, Backed
    <3>4. TypeOK'
      BY <2>6, <1>0, <3>2, <3>3 DEF Finish, TypeOK, TasksBacked, TaskType
    <3>5. Held'
      BY <2>6, <3>3, <1>0 DEF Finish, TypeOK, Held, TaskType
    <3>6. Backed'
      BY <2>6, <3>2, <3>3 DEF Finish, Backed, TasksBacked, Approved
    <3>7. QED BY <3>4, <3>5, <3>6
  <2>7. ASSUME NEW w \in Crew, Deliver(t, w) PROVE IInv'
    <3> DEFINE new == [task[t] EXCEPT !.left = @ \ {w}]
    <3>1. new \in TaskType /\ new.row = task[t].row
      BY <1>0 DEF TaskType
    <3>2. TasksBacked'
      <4>1. task' = [task EXCEPT ![t] = new] /\ task[t].pc # "none" /\ answers' = answers
        BY <2>7, <1>0 DEF Deliver, TaskType
      <4> HIDE DEF new
      <4>2. QED BY <3>1, <4>1, MovedInd
    <3>3. PICK c \in Card : c.window = task[t].row.n /\ card' = [card EXCEPT ![w] = c]
      BY <2>7, <1>0 DEF Deliver, TaskType, Row, Card
    <3>4. TypeOK'
      BY <2>7, <3>2, <3>3 DEF Deliver, TypeOK, TasksBacked
    <3>5. Held'
      BY <2>7 DEF Deliver, TypeOK, Held
    <3>6. Approved(task[t].row.n)
      BY <2>7 DEF Deliver, Backed
    <3>7. Backed'
      BY <2>7, <3>2, <3>3, <3>6 DEF Deliver, Backed, TasksBacked, Approved, TypeOK
    <3>8. QED BY <3>4, <3>5, <3>7
  <2>8. QED BY <1>8, <2>1, <2>2, <2>3, <2>4, <2>5, <2>6, <2>7 DEF Dispatch
<1>9. ASSUME NEW w \in Crew, ChangeRoster(w) PROVE IInv'
  BY <1>9 DEF ChangeRoster, TypeOK, Held, Backed, Approved
<1>10. CASE BriefExpires
  BY <1>10, ApprovalAssumption DEF BriefExpires, TypeOK, Held, Backed, Approved, Number
<1>11. CASE UNCHANGED vars
  BY <1>11 DEF vars, TypeOK, Held, Backed, Approved
<1>12. QED BY <1>1, <1>2, <1>3, <1>4, <1>5, <1>6, <1>7, <1>8, <1>9, <1>10, <1>11
           DEF Next, Propose

LEMMA Inductive == Spec => []IInv
  BY InitInd, StepInd, PTL DEF Spec

\* Every reachable state is type-correct.
THEOREM TypeCorrect == Spec => []TypeOK
  BY Inductive, PTL DEF IInv

LEMMA BackedDelivered == IInv => OnlyApprovedDelivered
  BY DEF IInv, Backed, OnlyApprovedDelivered

\* Whatever number of gateway processes race, are lost or dispatch again: a job
\* card carries the slot of a proposal that was approved.  A dispatch may start
\* only from an approved row, and a row becomes approved only with an answer.
THEOREM ApprovalGatesDelivery == Spec => []OnlyApprovedDelivered
  BY Inductive, BackedDelivered, PTL

-----------------------------------------------------------------------------
(***************************************************************************)
(* The record.  A row is carried about before it is written back: by a     *)
(* handler that decides, by a dispatch that finishes.  Whom such a copy    *)
(* names as sent to must hold a card already, and a dispatch must have     *)
(* delivered to whoever it has struck off its list.                        *)
(***************************************************************************)
Served == {w \in Crew : card[w] # NoCard}
Underway(d) == d.pc \in {"asking", "deliver"}

SentServed ==
    /\ schedule.sent \subseteq Served
    /\ \A l \in Loops : tapped[l].row.sent \subseteq Served
    /\ \A t \in Tasks :
          /\ task[t].row.sent \subseteq Served
          /\ Underway(task[t]) => task[t].crew \ task[t].left \subseteq Served

\* A dispatch that moves on, with the cards that are there or one more.
LEMMA MovedServed ==
    ASSUME IInv, SentServed, NEW t \in Tasks, NEW new \in TaskType, new.row = task[t].row,
           task' = [task EXCEPT ![t] = new], tapped' = tapped, Served \subseteq Served',
           Underway(new) => new.crew \ new.left \subseteq Served',
           schedule'.sent \subseteq Served'
    PROVE  SentServed'
<1>1. task \in [Tasks -> TaskType]
  BY DEF IInv, TypeOK
<1>2. ASSUME NEW u \in Tasks
      PROVE  /\ task'[u].row.sent \subseteq Served'
             /\ Underway(task'[u]) => task'[u].crew \ task'[u].left \subseteq Served'
  <2>1. CASE u = t
    BY <1>1, <2>1 DEF SentServed
  <2>2. CASE u # t
    BY <1>1, <2>2 DEF SentServed
  <2>3. QED
    BY <2>1, <2>2
<1>3. QED
  BY <1>2 DEF SentServed

\* What a new dispatch is.
LEMMA StartedIs ==
    ASSUME TypeOK, NEW r \in Row, NEW l \in Loops
    PROVE  \A t \in Tasks :
             Started(r, l)[t] = task[t] \/ (Started(r, l)[t].row = r /\ Started(r, l)[t].pc = "start")
<1> DEFINE t0 == CHOOSE t \in Idle : \A u \in Idle : t <= u
           new == [pc |-> "start", loop |-> l, row |-> r, crew |-> {}, left |-> {},
                   brief |-> 0]
<1>1. new.row = r /\ new.pc = "start"
  OBVIOUS
<1>2. Started(r, l) = [task EXCEPT ![t0] = new]
  BY DEF Started
<1> HIDE DEF new, t0
<1>3. task \in [Tasks -> TaskType]
  BY DEF TypeOK
<1>4. QED
  BY <1>1, <1>2, <1>3

\* A dispatch that starts with a row whose recipients are served.
LEMMA StartServed ==
    ASSUME IInv, SentServed, NEW r \in Row, NEW l \in Loops, r.sent \subseteq Served,
           task' = Started(r, l), card' = card
    PROVE  \A t \in Tasks :
             /\ task'[t].row.sent \subseteq Served'
             /\ Underway(task'[t]) => task'[t].crew \ task'[t].left \subseteq Served'
<1>1. \A t \in Tasks : task'[t] = task[t] \/ (task'[t].row = r /\ task'[t].pc = "start")
  BY StartedIs DEF IInv
<1>2. Served' = Served
  BY DEF Served
<1>3. QED
  BY <1>1, <1>2 DEF SentServed, Underway

LEMMA ServedStep ==
    ASSUME IInv, SentServed, [Next]_vars
    PROVE  SentServed'
<1>0. /\ task \in [Tasks -> TaskType] /\ schedule \in Row /\ NoTap.row.sent = {}
      /\ tapped \in [Loops -> [row : Row, decision : Decisions, msg : Number]]
      /\ card \in [Crew -> Card]
  BY DEF IInv, TypeOK, NoTap, NoRow
<1>1. ASSUME NEW p \in Proposers, Check(p) \/ Ask(p) PROVE SentServed'
  BY <1>1 DEF Check, Ask, SentServed, Served
<1>2. ASSUME NEW p \in Proposers, Save(p) PROVE SentServed'
  BY <1>2 DEF Save, SentServed, Served
<1>3. ASSUME NEW l \in Loops, NEW n \in Proposal, NEW d \in Decisions, Tap(l, n, d)
      PROVE  SentServed'
  BY <1>0, <1>3 DEF Tap, SentServed, Served
<1>4. ASSUME NEW l \in Loops, Decide(l) PROVE SentServed'
  <2>1. PICK r \in Row : /\ r.sent = tapped[l].row.sent /\ schedule' = r
                         /\ task' = Started(r, l) \/ task' = task
    <3> DEFINE row == [tapped[l].row EXCEPT !.status = tapped[l].decision]
    <3>1. row \in Row /\ row.sent = tapped[l].row.sent
      BY <1>0 DEF Row
    <3>2. schedule' = row
      BY <1>4 DEF Decide
    <3>3. task' = Started(row, l) \/ task' = task
      BY <1>4, Zenon DEF Decide
    <3> HIDE DEF row
    <3>4. QED
      BY <3>1, <3>2, <3>3
  <2>2. card' = card /\ tapped' = [tapped EXCEPT ![l] = NoTap] /\ r.sent \subseteq Served
    BY <1>4, <2>1 DEF Decide, SentServed
  <2>3. \A t \in Tasks :
          /\ task'[t].row.sent \subseteq Served'
          /\ Underway(task'[t]) => task'[t].crew \ task'[t].left \subseteq Served'
    <3>1. CASE task' = Started(r, l)
      BY <2>2, <3>1, StartServed
    <3>2. CASE task' = task
      BY <2>2, <3>2 DEF SentServed, Served
    <3>3. QED
      BY <2>1, <3>1, <3>2
  <2>4. QED
    BY <1>0, <2>1, <2>2, <2>3 DEF SentServed, Served
<1>5. ASSUME NEW l \in Loops, Redispatch(l) PROVE SentServed'
  <2>1. task' = Started(schedule, l) /\ card' = card /\ schedule' = schedule /\ tapped' = tapped
    BY <1>5 DEF Redispatch
  <2>2. \A t \in Tasks :
          /\ task'[t].row.sent \subseteq Served'
          /\ Underway(task'[t]) => task'[t].crew \ task'[t].left \subseteq Served'
    BY <1>0, <2>1, StartServed DEF SentServed
  <2>3. QED
    BY <2>1, <2>2 DEF SentServed, Served
<1>6. ASSUME NEW l \in Loops, Crash(l) PROVE SentServed'
  <2>1. /\ card' = card /\ schedule' = schedule /\ tapped' = [tapped EXCEPT ![l] = NoTap]
        /\ \A t \in Tasks : task'[t] = task[t] \/ task'[t] = [task[t] EXCEPT !.pc = "lost"]
    BY <1>6 DEF Crash
  <2>2. ASSUME NEW t \in Tasks
        PROVE  /\ task'[t].row = task[t].row
               /\ Underway(task'[t]) => task'[t] = task[t]
    <3>1. task[t] \in TaskType
      BY <1>0
    <3>2. task'[t].row = task[t].row /\ (task'[t] = task[t] \/ task'[t].pc = "lost")
      BY <2>1, <3>1 DEF TaskType
    <3>3. QED
      BY <3>2 DEF Underway
  <2>3. QED
    BY <1>0, <2>1, <2>2 DEF SentServed, Served
<1>7. ASSUME NEW t \in Tasks, Dispatch(t) PROVE SentServed'
  <2>1. CASE DraftUnreadable(t) \/ NoCrew(t) \/ BriefRefused(t)
    <3> DEFINE new == [task[t] EXCEPT !.pc = "failed"]
    <3>1. new \in TaskType /\ new.row = task[t].row /\ ~Underway(new)
      BY <1>0 DEF TaskType, Underway
    <3>2. /\ task' = [task EXCEPT ![t] = new] /\ tapped' = tapped /\ Served' = Served
          /\ schedule'.sent \in {schedule.sent, task[t].row.sent}
      BY <1>0, <2>1 DEF DraftUnreadable, NoCrew, BriefRefused, Served, TaskType, Row
    <3> HIDE DEF new
    <3>3. QED
      BY <3>1, <3>2, MovedServed DEF SentServed
  <2>2. CASE Prepare(t)
    <3> DEFINE place == IF brief = 0 THEN "asking" ELSE "deliver"
               new == [task[t] EXCEPT !.pc = place, !.crew = roster, !.left = roster,
                                      !.brief = brief]
    <3>1. new \in TaskType /\ new.row = task[t].row /\ new.crew \ new.left = {}
      <4>1. place \in {"asking", "deliver"}
        OBVIOUS
      <4>2. brief \in Number /\ roster \in SUBSET Crew
        BY DEF IInv, TypeOK
      <4> HIDE DEF place
      <4>3. QED
        BY <1>0, <4>1, <4>2 DEF TaskType
    <3>2. /\ task' = [task EXCEPT ![t] = new] /\ tapped' = tapped /\ Served' = Served
          /\ schedule' = schedule
      BY <2>2 DEF Prepare, Served
    <3> HIDE DEF new
    <3>3. QED
      BY <3>1, <3>2, MovedServed DEF SentServed
  <2>3. CASE BriefArrives(t)
    <3> DEFINE new == [task[t] EXCEPT !.pc = "deliver", !.brief = task[t].row.n]
    <3>1. /\ new \in TaskType /\ new.row = task[t].row /\ new.crew = task[t].crew
          /\ new.left = task[t].left
      <4>1. task[t].row.n \in Number
        BY <1>0 DEF TaskType, Row
      <4>2. QED
        BY <1>0, <4>1 DEF TaskType
    <3>2. /\ task' = [task EXCEPT ![t] = new] /\ tapped' = tapped /\ Served' = Served
          /\ schedule' = schedule /\ Underway(task[t])
      BY <2>3 DEF BriefArrives, Served, Underway
    <3> HIDE DEF new
    <3>3. QED
      BY <3>1, <3>2, MovedServed DEF SentServed
  <2>4. CASE Finish(t)
    <3> DEFINE new == [task[t] EXCEPT !.pc = "done"]
    <3>1. new \in TaskType /\ new.row = task[t].row /\ ~Underway(new)
      BY <1>0 DEF TaskType, Underway
    <3>2. /\ task' = [task EXCEPT ![t] = new] /\ tapped' = tapped /\ Served' = Served
          /\ schedule'.sent = task[t].crew /\ Underway(task[t]) /\ task[t].left = {}
      BY <1>0, <2>4 DEF Finish, Served, TaskType, Row, Underway
    <3>3. schedule'.sent \subseteq Served'
      BY <3>2 DEF SentServed
    <3> HIDE DEF new
    <3>4. QED
      BY <3>1, <3>2, <3>3, MovedServed
  <2>5. ASSUME NEW w \in Crew, Deliver(t, w) PROVE SentServed'
    <3> DEFINE new == [task[t] EXCEPT !.left = @ \ {w}]
    <3>1. /\ new \in TaskType /\ new.row = task[t].row /\ new.crew = task[t].crew
          /\ new.left = task[t].left \ {w}
      BY <1>0 DEF TaskType
    <3>2. /\ task' = [task EXCEPT ![t] = new] /\ tapped' = tapped /\ schedule' = schedule
          /\ task[t].pc = "deliver" /\ Underway(task[t])
          /\ card' = [card EXCEPT ![w] = [window |-> task[t].row.n, brief |-> task[t].brief]]
      BY <1>0, <2>5 DEF Deliver, TaskType, Underway
    <3>3. Served' = Served \cup {w}
      <4>1. task[t].row.n # 0
        <5>1. Approved(task[t].row.n) /\ answers \subseteq [n : Proposal, decision : Decisions, msg : Proposal]
          BY <3>2 DEF IInv, Backed, TypeOK
        <5>2. QED
          BY <5>1, ApprovalAssumption DEF Approved, Proposal
      <4>2. QED
        BY <1>0, <3>2, <4>1 DEF Served, NoCard
    <3> HIDE DEF new
    <3>4. new.crew \ new.left \subseteq Served'
      BY <3>1, <3>2, <3>3 DEF SentServed
    <3>5. QED
      BY <3>1, <3>2, <3>3, <3>4, MovedServed DEF SentServed
  <2>6. QED
    BY <1>7, <2>1, <2>2, <2>3, <2>4, <2>5 DEF Dispatch
<1>8. ASSUME NEW w \in Crew, ChangeRoster(w) PROVE SentServed'
  BY <1>8 DEF ChangeRoster, SentServed, Served
<1>9. CASE BriefExpires \/ UNCHANGED vars
  BY <1>9 DEF BriefExpires, vars, SentServed, Served
<1>10. QED
  BY <1>1, <1>2, <1>3, <1>4, <1>5, <1>6, <1>7, <1>8, <1>9 DEF Next, Propose

-----------------------------------------------------------------------------
(***************************************************************************)
(* The answer.  Two loops may hold the same pending row and both answer it *)
(* (FirstDecisionStands fails).  What every number of loops keeps is that  *)
(* this is the only way: a row that waits for an answer has had none, so   *)
(* whoever reads one later starts afresh, and once the handlers that read  *)
(* it together are through, its answers are final - no dispatch, redispatch*)
(* or stale row brings an answered proposal back before a human.           *)
(***************************************************************************)
PendingUnanswered ==
    /\ schedule.status = "pending" =>
           ~Answered(schedule.n) /\ schedule.n <= proposals
    /\ \A l \in Loops : turn[l] = "deciding" => tapped[l].row.n <= proposals
    /\ \A a \in answers : a.n <= proposals

LEMMA PendingStep ==
    ASSUME IInv, PendingUnanswered, [Next]_vars
    PROVE  PendingUnanswered'
<1>0. /\ task \in [Tasks -> TaskType] /\ schedule \in Row /\ proposals \in Nat
      /\ tapped \in [Loops -> [row : Row, decision : Decisions, msg : Number]]
      /\ turn \in [Loops -> {"free", "deciding", "dispatching"}]
      /\ \A a \in answers : a.n \in Nat
  BY ApprovalAssumption DEF IInv, TypeOK, Proposal, Number
<1> USE DEF PendingUnanswered, Answered
<1>1. ASSUME NEW p \in Proposers, Check(p) \/ Ask(p) PROVE PendingUnanswered'
  BY <1>1 DEF Check, Ask
<1>2. ASSUME NEW p \in Proposers, Save(p) PROVE PendingUnanswered'
  <2>1. /\ answers' = answers /\ schedule'.n = proposals + 1
        /\ proposals' = proposals + 1
    BY <1>2 DEF Save
  <2>2. turn' = turn /\ tapped' = tapped
    BY <1>2 DEF Save
  <2>3. \A l \in Loops : turn[l] = "deciding" => tapped[l].row.n \in Nat
    BY <1>0 DEF Row, Number
  <2>4. QED
    BY <1>0, <2>1, <2>2, <2>3
<1>3. ASSUME NEW l \in Loops, NEW n \in Proposal, NEW d \in Decisions, Tap(l, n, d)
      PROVE  PendingUnanswered'
  BY <1>0, <1>3 DEF Tap
<1>4. ASSUME NEW l \in Loops, Decide(l) PROVE PendingUnanswered'
  <2>1. PICK r, a : /\ r.status # "pending" /\ schedule' = r
                    /\ answers' = answers \cup {a} /\ a.n = tapped[l].row.n
    <3> DEFINE row == [tapped[l].row EXCEPT !.status = tapped[l].decision]
               ans == [n |-> row.n, decision |-> row.status, msg |-> tapped[l].msg]
    <3>1. row.status # "pending" /\ ans.n = tapped[l].row.n
      BY <1>0 DEF Row, Decisions
    <3>2. schedule' = row /\ answers' = answers \cup {ans}
      BY <1>4 DEF Decide
    <3> HIDE DEF row, ans
    <3>3. QED
      BY <3>1, <3>2
  <2>2. /\ tapped[l].row.n <= proposals /\ proposals' = proposals
        /\ turn' = [turn EXCEPT ![l] = "free"]
        /\ tapped' = [tapped EXCEPT ![l] = NoTap]
    BY <1>4 DEF Decide
  <2>3. QED
    BY <1>0, <2>1, <2>2
<1>5. ASSUME NEW l \in Loops, Redispatch(l) \/ Crash(l) PROVE PendingUnanswered'
  BY <1>0, <1>5 DEF Redispatch, Crash
<1>6. ASSUME NEW t \in Tasks, Dispatch(t) PROVE PendingUnanswered'
  <2>1. CASE DraftUnreadable(t) \/ Finish(t)
    <3>1. schedule'.status = "approved"
      <4>1. task[t].row.status = "approved"
        BY <2>1 DEF DraftUnreadable, Finish, IInv, Backed
      <4>2. QED
        BY <1>0, <2>1, <4>1 DEF DraftUnreadable, Finish, TaskType, Row
    <3>2. /\ answers' = answers /\ tapped' = tapped /\ proposals' = proposals
          /\ \A l \in Loops : turn'[l] = "deciding" => turn[l] = "deciding"
      BY <1>0, <2>1 DEF DraftUnreadable, Finish
    <3>3. QED
      BY <3>1, <3>2
  <2>2. CASE NoCrew(t) \/ Prepare(t) \/ BriefArrives(t) \/ BriefRefused(t)
    <3>1. /\ answers' = answers /\ tapped' = tapped /\ proposals' = proposals
          /\ schedule' = schedule
          /\ \A l \in Loops : turn'[l] = "deciding" => turn[l] = "deciding"
      BY <1>0, <2>2 DEF NoCrew, Prepare, BriefArrives, BriefRefused
    <3>2. QED
      BY <3>1
  <2>3. CASE \E w \in Crew : Deliver(t, w)
    BY <2>3 DEF Deliver
  <2>4. QED
    BY <1>6, <2>1, <2>2, <2>3 DEF Dispatch
<1>7. CASE BriefExpires \/ (\E w \in Crew : ChangeRoster(w)) \/ UNCHANGED vars
  BY <1>7 DEF BriefExpires, ChangeRoster, vars
<1>8. QED
  BY <1>1, <1>2, <1>3, <1>4, <1>5, <1>6, <1>7 DEF Next, Propose

\* A step that brings an answer is a Decide, of the proposal whose row it holds.
LEMMA FinalStep ==
    ASSUME IInv, PendingUnanswered, [Next]_vars, NEW n \in Proposal,
           Answered(n), ~AtStake(n)
    PROVE  AnswersTo(n)' = AnswersTo(n) /\ ~AtStake(n)'
<1>0. /\ tapped \in [Loops -> [row : Row, decision : Decisions, msg : Number]]
      /\ turn \in [Loops -> {"free", "deciding", "dispatching"}]
  BY DEF IInv, TypeOK
<1> USE DEF AnswersTo, AtStake
<1>1. ASSUME NEW l \in Loops, NEW m \in Proposal, NEW d \in Decisions, Tap(l, m, d)
      PROVE  AnswersTo(n)' = AnswersTo(n) /\ ~AtStake(n)'
  <2>1. schedule.n # n
    BY <1>1 DEF Tap, PendingUnanswered
  <2>2. /\ answers' = answers
        /\ \A k \in Loops : \/ turn'[k] = turn[k] /\ tapped'[k] = tapped[k]
                            \/ tapped'[k].row = schedule
    BY <1>0, <1>1 DEF Tap
  <2>3. QED
    BY <2>1, <2>2
<1>2. ASSUME NEW l \in Loops, Decide(l)
      PROVE  AnswersTo(n)' = AnswersTo(n) /\ ~AtStake(n)'
  <2>1. PICK a : answers' = answers \cup {a} /\ a.n = tapped[l].row.n
    <3> DEFINE row == [tapped[l].row EXCEPT !.status = tapped[l].decision]
               ans == [n |-> row.n, decision |-> row.status, msg |-> tapped[l].msg]
    <3>1. ans.n = tapped[l].row.n
      BY <1>0 DEF Row
    <3>2. answers' = answers \cup {ans}
      BY <1>2 DEF Decide
    <3> HIDE DEF row, ans
    <3>3. QED
      BY <3>1, <3>2
  <2>2. tapped[l].row.n # n
    BY <1>2 DEF Decide
  <2>3. /\ turn' = [turn EXCEPT ![l] = "free"]
        /\ tapped' = [tapped EXCEPT ![l] = NoTap]
    BY <1>2 DEF Decide
  <2>4. \A k \in Loops : turn'[k] = "deciding" => turn[k] = "deciding" /\ tapped'[k] = tapped[k]
    BY <1>0, <2>3
  <2>5. QED
    BY <2>1, <2>2, <2>4
<1>3. ASSUME \/ \E p \in Proposers : Propose(p)
             \/ \E l \in Loops : Redispatch(l) \/ Crash(l)
             \/ \E t \in Tasks : Dispatch(t)
             \/ \E w \in Crew : ChangeRoster(w)
             \/ BriefExpires \/ UNCHANGED vars
      PROVE  AnswersTo(n)' = AnswersTo(n) /\ ~AtStake(n)'
  <2>1. answers' = answers
    BY <1>3 DEF Propose, Check, Save, Ask, Redispatch, Crash, Dispatch, DraftUnreadable,
                NoCrew, Prepare, BriefArrives, BriefRefused, Finish, Deliver,
                ChangeRoster, BriefExpires, vars
  <2>2. \A l \in Loops : turn'[l] = "deciding" => turn[l] = "deciding" /\ tapped'[l] = tapped[l]
    <3>1. CASE \E l \in Loops : Crash(l)
      BY <1>0, <3>1 DEF Crash
    <3>2. ASSUME NEW t \in Tasks, Dispatch(t)
          PROVE  \A l \in Loops : turn'[l] = "deciding" => turn[l] = "deciding" /\ tapped'[l] = tapped[l]
      <4>1. /\ tapped' = tapped
            /\ \/ turn' = turn
               \/ turn' = [turn EXCEPT ![task[t].loop] = "free"]
               \/ turn' = [turn EXCEPT ![task[t].loop] = "dispatching"]
        BY <3>2 DEF Dispatch, DraftUnreadable, NoCrew, Prepare, BriefArrives, BriefRefused,
                    Finish, Deliver
      <4>2. QED
        BY <1>0, <4>1
    <3>3. CASE \/ \E p \in Proposers : Propose(p)
               \/ \E l \in Loops : Redispatch(l)
               \/ \E w \in Crew : ChangeRoster(w)
               \/ BriefExpires \/ UNCHANGED vars
      <4>1. UNCHANGED <<turn, tapped>>
        BY <3>3 DEF Propose, Check, Save, Ask, Redispatch, ChangeRoster, BriefExpires, vars
      <4>2. QED
        BY <4>1
    <3>4. QED
      BY <1>3, <3>1, <3>2, <3>3
  <2>3. QED
    BY <2>1, <2>2
<1>4. QED
  BY <1>1, <1>2, <1>3 DEF Next

\* Whom the console shows a work order as sent to holds a job card, however
\* many processes write over one another's row, fail or are lost: a row names a
\* worker only after the card is written, and cards are not taken back.
THEOREM SentAreServed == Spec => []SentIsTrue
<1>1. Init => SentServed
  BY DEF Init, SentServed, NoRow, NoTap, NoTask, Underway
<1>2. IInv /\ SentServed /\ [Next]_vars => SentServed'
  BY ServedStep
<1>3. SentServed => SentIsTrue
  BY DEF SentServed, Served, SentIsTrue
<1>4. QED
  BY <1>1, <1>2, <1>3, Inductive, PTL DEF Spec

\* However many loops take the taps and write over one another's row: once a proposal
\* has an answer and no handler is left that read it before, its answers are final.
\* Two answers to one proposal come from two handlers that held its row together.
THEOREM AnswersAreFinal == Spec => AnswersFinal
<1>1. Init => PendingUnanswered
  BY DEF Init, PendingUnanswered, Answered, NoRow
<1>2. IInv /\ PendingUnanswered /\ [Next]_vars => PendingUnanswered'
  BY PendingStep
<1>3. IInv /\ PendingUnanswered /\ [Next]_vars =>
          [\A n \in Proposal :
              Answered(n) /\ ~AtStake(n) => AnswersTo(n)' = AnswersTo(n) /\ ~AtStake(n)']_vars
  BY FinalStep
<1>4. QED
  BY <1>1, <1>2, <1>3, Inductive, PTL DEF Spec, AnswersFinal

=============================================================================
