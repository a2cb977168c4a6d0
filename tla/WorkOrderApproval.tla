-------------------------- MODULE WorkOrderApproval --------------------------
(***************************************************************************)
(* One drafted work order on its way to a crew: an engineer proposes a     *)
(* slot, Slack is asked, a human taps Approve or Reject, and on approval a *)
(* background task of the gateway has the job cards written and delivered. *)
(*                                                                         *)
(* The gateway runs in several processes.  A route declared with def runs  *)
(* in a thread (proposing), one declared with async def on the process's   *)
(* event loop (deciding, dispatching), which it leaves only at an await.   *)
(* A proposal is the number of its slot; a brief and a window are the      *)
(* number of the proposal they were made from.                             *)
(***************************************************************************)
EXTENDS Naturals, FiniteSets

CONSTANTS
    Loops,         \* the event loops of the gateway
    NoLoop,        \* the loop of a dispatch that was not started
    Proposers,     \* requests to propose a slot, one at a time each
    Crew,          \* whom the engineer may put on the roster
    MaxProposals,  \* bound
    MaxTasks,      \* bound: dispatches started
    MaxFaults,     \* bound: failing calls of Slack, the agents, the stream
    MaxCrashes     \* bound: lost gateway processes

ASSUME ApprovalAssumption ==
    /\ NoLoop \notin Loops
    /\ MaxProposals \in Nat /\ MaxTasks \in Nat
    /\ MaxFaults \in Nat /\ MaxCrashes \in Nat

Decisions == {"approved", "rejected"}
Tasks == 1..MaxTasks
Proposal == 1..MaxProposals
Number == 0..MaxProposals

\* A row of workorders:schedules; n = 0 stands for no row.
Row == [n : Number, status : {"pending"} \cup Decisions,
        sent : SUBSET Crew, error : BOOLEAN]
NoRow == [n |-> 0, status |-> "rejected", sent |-> {}, error |-> FALSE]
Card == [window : Number, brief : Number]
NoCard == [window |-> 0, brief |-> 0]

VARIABLES
    schedule,   \* the row of this draft
    proposals,  \* how many slots were saved
    asked,      \* the proposals whose message is in Slack
    answers,    \* the decisions recorded: proposal, decision, message tapped
    offer,      \* a proposer: <<its place, the slot it saved>>
    turn,       \* what runs on a loop: "free", "deciding", "dispatching"
    tapped,     \* the handler deciding on a loop: the row it read, its tap
    task,       \* the dispatches
    brief,      \* the cached brief, 0 when there is none
    card,       \* the crew's inboxes
    roster,     \* the engineer's crew
    faults, crashes

vars == <<schedule, proposals, asked, answers, offer, turn, tapped, task, brief,
          card, roster, faults, crashes>>

Free(l) == turn[l] = "free"
NoTap == [row |-> NoRow, decision |-> "rejected", msg |-> 0]
NoTask == [pc |-> "none", loop |-> NoLoop, row |-> NoRow, crew |-> {},
           left |-> {}, brief |-> 0]
Idle == {t \in Tasks : task[t].pc = "none"}
\* The bound on dispatches leaves one to every handler that is deciding.
Room == Cardinality(Idle) > Cardinality({l \in Loops : turn[l] = "deciding"})
Fault == faults < MaxFaults /\ faults' = faults + 1

\* A dispatch of row r on loop l; ids are handed out in order.
Started(r, l) ==
    LET t == CHOOSE t \in Idle : \A u \in Idle : t <= u
    IN [task EXCEPT ![t] = [pc |-> "start", loop |-> l, row |-> r, crew |-> {},
                            left |-> {}, brief |-> 0]]

-----------------------------------------------------------------------------
(* Proposing *)

\* The 409: a pending schedule is not proposed over.
Check(p) ==
    /\ offer[p][1] = "idle" /\ proposals < MaxProposals
    /\ schedule.status # "pending"
    /\ offer' = [offer EXCEPT ![p] = <<"checked", 0>>]
    /\ UNCHANGED <<schedule, proposals, asked, answers, turn, tapped, task, brief,
                   card, roster, faults, crashes>>

\* set_work_order_schedule writes the whole row.
Save(p) ==
    /\ offer[p][1] = "checked" /\ proposals < MaxProposals
    /\ proposals' = proposals + 1
    /\ schedule' = [n |-> proposals + 1, status |-> "pending", sent |-> {},
                    error |-> FALSE]
    /\ offer' = [offer EXCEPT ![p] = <<"saved", proposals + 1>>]
    /\ UNCHANGED <<asked, answers, turn, tapped, task, brief, card, roster, faults,
                   crashes>>

\* The message to Slack; a failure is logged and nothing else.
Ask(p) ==
    /\ offer[p][1] = "saved"
    /\ \/ asked' = asked \cup {offer[p][2]} /\ UNCHANGED faults
       \/ Fault /\ UNCHANGED asked
    /\ offer' = [offer EXCEPT ![p] = <<"idle", 0>>]
    /\ UNCHANGED <<schedule, proposals, answers, turn, tapped, task, brief, card,
                   roster, crashes>>

(* Deciding *)

\* Mutant: any row may be decided, as often as somebody taps.
TapAnyRow(l, n, d) ==
    /\ Free(l) /\ Room /\ n \in asked
    /\ turn' = [turn EXCEPT ![l] = "deciding"]
    /\ tapped' = [tapped EXCEPT ![l] = [row |-> schedule, decision |-> d, msg |-> n]]
    /\ UNCHANGED <<schedule, proposals, asked, answers, offer, task, brief, card,
                   roster, faults, crashes>>

\* A button or link of message n.  It carries the draft, not the proposal; the
\* row is read, and a decided one ends it.
Tap(l, n, d) ==
    /\ Free(l) /\ Room /\ n \in asked
    /\ schedule.status = "pending"
    /\ turn' = [turn EXCEPT ![l] = "deciding"]
    /\ tapped' = [tapped EXCEPT ![l] = [row |-> schedule, decision |-> d, msg |-> n]]
    /\ UNCHANGED <<schedule, proposals, asked, answers, offer, task, brief, card,
                   roster, faults, crashes>>

\* Mutant: the approval is recorded and nobody starts the dispatch.
DecideOnly(l) ==
    /\ turn[l] = "deciding"
    /\ LET row == [tapped[l].row EXCEPT !.status = tapped[l].decision]
       IN /\ schedule' = row
          /\ answers' = answers \cup {[n |-> row.n, decision |-> row.status,
                                       msg |-> tapped[l].msg]}
    /\ turn' = [turn EXCEPT ![l] = "free"]
    /\ tapped' = [tapped EXCEPT ![l] = NoTap]
    /\ UNCHANGED <<proposals, asked, offer, task, brief, card, roster, faults,
                   crashes>>

\* The row as it was read, with the decision, is written back; an approval
\* starts the dispatch in the background.
Decide(l) ==
    /\ turn[l] = "deciding"
    /\ LET row == [tapped[l].row EXCEPT !.status = tapped[l].decision]
       IN /\ schedule' = row
          /\ answers' = answers \cup {[n |-> row.n, decision |-> row.status,
                                       msg |-> tapped[l].msg]}
          /\ IF row.status = "approved"
             THEN Idle # {} /\ task' = Started(row, l)
             ELSE UNCHANGED task
    /\ turn' = [turn EXCEPT ![l] = "free"]
    /\ tapped' = [tapped EXCEPT ![l] = NoTap]
    /\ UNCHANGED <<proposals, asked, offer, brief, card, roster, faults,
                   crashes>>

\* Mutant: the engineer may send a schedule that waits for its approval.
RedispatchPending(l) ==
    /\ Free(l) /\ Room /\ Idle # {}
    /\ schedule.n # 0 /\ schedule.status # "rejected"
    /\ task' = Started(schedule, l)
    /\ UNCHANGED <<schedule, proposals, asked, answers, offer, turn, tapped, brief,
                   card, roster, faults, crashes>>

\* The engineer sends an approved order again.
Redispatch(l) ==
    /\ Free(l) /\ Room /\ Idle # {}
    /\ schedule.status = "approved"
    /\ task' = Started(schedule, l)
    /\ UNCHANGED <<schedule, proposals, asked, answers, offer, turn, tapped, brief,
                   card, roster, faults, crashes>>

(* Dispatching *)

\* The draft cannot be read back: the row of the task is saved with the error.
DraftUnreadable(t) ==
    /\ task[t].pc = "start" /\ Free(task[t].loop) /\ Fault
    /\ schedule' = [task[t].row EXCEPT !.error = TRUE]
    /\ task' = [task EXCEPT ![t].pc = "failed"]
    /\ UNCHANGED <<proposals, asked, answers, offer, turn, tapped, brief, card,
                   roster, crashes>>

\* Nobody on the roster: the dispatch raises.
NoCrew(t) ==
    /\ task[t].pc = "start" /\ Free(task[t].loop)
    /\ roster = {}
    /\ task' = [task EXCEPT ![t].pc = "failed"]
    /\ UNCHANGED <<schedule, proposals, asked, answers, offer, turn, tapped, brief,
                   card, roster, faults, crashes>>

\* The crew is read.  A cached brief is used at once, else the agents are
\* asked and the loop is left.
Prepare(t) ==
    /\ task[t].pc = "start" /\ Free(task[t].loop)
    /\ roster # {}
    /\ task' = [task EXCEPT ![t] = [@ EXCEPT
                    !.pc = IF brief = 0 THEN "asking" ELSE "deliver",
                    !.crew = roster, !.left = roster, !.brief = brief]]
    /\ turn' = IF brief = 0 THEN turn ELSE [turn EXCEPT ![task[t].loop] = "dispatching"]
    /\ UNCHANGED <<schedule, proposals, asked, answers, offer, tapped, brief, card,
                   roster, faults, crashes>>

\* The agents answer with a brief of the task's schedule, and it is cached.
BriefArrives(t) ==
    /\ task[t].pc = "asking" /\ Free(task[t].loop)
    /\ brief' = task[t].row.n
    /\ task' = [task EXCEPT ![t] = [@ EXCEPT !.pc = "deliver",
                                              !.brief = task[t].row.n]]
    /\ turn' = [turn EXCEPT ![task[t].loop] = "dispatching"]
    /\ UNCHANGED <<schedule, proposals, asked, answers, offer, tapped, card, roster,
                   faults, crashes>>

BriefRefused(t) ==
    /\ task[t].pc = "asking" /\ Free(task[t].loop) /\ Fault
    /\ task' = [task EXCEPT ![t].pc = "failed"]
    /\ UNCHANGED <<schedule, proposals, asked, answers, offer, turn, tapped, brief,
                   card, roster, crashes>>

\* add_assignment for one worker.
Deliver(t, w) ==
    /\ task[t].pc = "deliver" /\ w \in task[t].left
    /\ card' = [card EXCEPT ![w] = [window |-> task[t].row.n,
                                    brief |-> task[t].brief]]
    /\ task' = [task EXCEPT ![t].left = @ \ {w}]
    /\ UNCHANGED <<schedule, proposals, asked, answers, offer, turn, tapped, brief,
                   roster, faults, crashes>>

\* Mutant: the row is written before the cards are.
FinishEarly(t) ==
    /\ task[t].pc = "deliver"
    /\ schedule' = [task[t].row EXCEPT !.sent = task[t].crew, !.error = FALSE]
    /\ task' = [task EXCEPT ![t].pc = "done"]
    /\ turn' = [turn EXCEPT ![task[t].loop] = "free"]
    /\ UNCHANGED <<proposals, asked, answers, offer, tapped, brief, card, roster,
                   faults, crashes>>

\* The row of the task, with its recipients, is written over whatever is there.
Finish(t) ==
    /\ task[t].pc = "deliver" /\ task[t].left = {}
    /\ schedule' = [task[t].row EXCEPT !.sent = task[t].crew, !.error = FALSE]
    /\ task' = [task EXCEPT ![t].pc = "done"]
    /\ turn' = [turn EXCEPT ![task[t].loop] = "free"]
    /\ UNCHANGED <<proposals, asked, answers, offer, tapped, brief, card, roster,
                   faults, crashes>>

(* Surroundings *)

\* An engineer adds a worker to the roster or takes one off; cards stay.
ChangeRoster(w) ==
    /\ roster' = IF w \in roster THEN roster \ {w} ELSE roster \cup {w}
    /\ UNCHANGED <<schedule, proposals, asked, answers, offer, turn, tapped, task,
                   brief, card, faults, crashes>>

\* dispatch_brief_ttl_s is over.
BriefExpires ==
    /\ brief # 0 /\ brief' = 0
    /\ UNCHANGED <<schedule, proposals, asked, answers, offer, turn, tapped, task,
                   card, roster, faults, crashes>>

\* A gateway process dies with the handler and the dispatches on its loop.
Crash(l) ==
    /\ crashes < MaxCrashes /\ crashes' = crashes + 1
    /\ turn' = [turn EXCEPT ![l] = "free"]
    /\ tapped' = [tapped EXCEPT ![l] = NoTap]
    /\ task' = [t \in Tasks |->
                  IF task[t].loop = l /\ task[t].pc \in {"start", "asking", "deliver"}
                  THEN [task[t] EXCEPT !.pc = "lost"] ELSE task[t]]
    /\ UNCHANGED <<schedule, proposals, asked, answers, offer, brief, card, roster,
                   faults>>

-----------------------------------------------------------------------------
Init ==
    /\ schedule = NoRow
    /\ proposals = 0
    /\ asked = {} /\ answers = {}
    /\ offer = [p \in Proposers |-> <<"idle", 0>>]
    /\ turn = [l \in Loops |-> "free"]
    /\ tapped = [l \in Loops |-> NoTap]
    /\ task = [t \in Tasks |-> NoTask]
    /\ brief = 0
    /\ card = [w \in Crew |-> NoCard]
    /\ roster = Crew
    /\ faults = 0 /\ crashes = 0

Propose(p) == Check(p) \/ Save(p) \/ Ask(p)
Dispatch(t) ==
    \/ DraftUnreadable(t) \/ NoCrew(t) \/ Prepare(t) \/ BriefArrives(t)
    \/ BriefRefused(t) \/ Finish(t)
    \/ \E w \in Crew : Deliver(t, w)

Next ==
    \/ \E p \in Proposers : Propose(p)
    \/ \E l \in Loops :
          \/ \E n \in Proposal, d \in Decisions : Tap(l, n, d)
          \/ Decide(l) \/ Redispatch(l) \/ Crash(l)
    \/ \E t \in Tasks : Dispatch(t)
    \/ \E w \in Crew : ChangeRoster(w)
    \/ BriefExpires

Spec == Init /\ [][Next]_vars

\* A loop that lives goes on with its handlers; whether anyone taps is open.
Fairness ==
    /\ \A l \in Loops : WF_vars(Decide(l))
    /\ \A t \in Tasks : WF_vars(Dispatch(t))

FairSpec == Spec /\ Fairness

-----------------------------------------------------------------------------
(* Properties *)

TaskType == [pc : {"none", "start", "asking", "deliver", "done", "failed", "lost"},
             loop : Loops \cup {NoLoop}, row : Row, crew : SUBSET Crew,
             left : SUBSET Crew, brief : Number]

\* Type invariant.
TypeOK ==
    /\ schedule \in Row
    /\ proposals \in Number
    /\ asked \subseteq 1..proposals
    /\ answers \subseteq [n : Proposal, decision : Decisions, msg : Proposal]
    /\ offer \in [Proposers -> {"idle", "checked", "saved"} \X Number]
    /\ turn \in [Loops -> {"free", "deciding", "dispatching"}]
    /\ tapped \in [Loops -> [row : Row, decision : Decisions, msg : Number]]
    /\ task \in [Tasks -> TaskType]
    /\ brief \in Number
    /\ card \in [Crew -> Card]
    /\ roster \subseteq Crew
    /\ faults \in 0..MaxFaults /\ crashes \in 0..MaxCrashes

Approved(n) == \E a \in answers : a.n = n /\ a.decision = "approved"

\* Nothing reaches a worker that nobody approved: whatever is retried, lost or
\* proposed anew, the slot on a job card is one that Slack said yes to.
OnlyApprovedDelivered ==
    \A w \in Crew : card[w] # NoCard => Approved(card[w].window)

\* A proposal is answered once: a second tap neither stamps another answer on it
\* nor turns an approval into a rejection.
FirstDecisionStands ==
    \A a, b \in answers : a.n = b.n => a = b

\* Whom the console shows as dispatched to has a job card.
SentIsTrue == \A w \in schedule.sent : card[w] # NoCard

\* What the console shows of a proposal is so: its one answer, and its crew.
RecordHolds == FirstDecisionStands /\ SentIsTrue

\* A proposal that has an answer, and no handler still on its way with the row it
\* read before, has had its last word: nothing brings it before a human again.
Answered(n) == \E a \in answers : a.n = n
AtStake(n) == \E l \in Loops : turn[l] = "deciding" /\ tapped[l].row.n = n
AnswersTo(n) == {a \in answers : a.n = n}

AnswersFinal ==
    [][\A n \in Proposal :
          Answered(n) /\ ~AtStake(n) => AnswersTo(n)' = AnswersTo(n) /\ ~AtStake(n)']_vars

\* "only the Slack return path can move it": a pending row is left only by a
\* decision on it.
PendingOnlyDecided ==
    [][schedule.status = "pending" =>
          \/ schedule' = schedule
          \/ schedule'.n = schedule.n /\ schedule'.status \in Decisions]_vars

\* There are never two live approval requests for the same work.
OneLiveRequest ==
    \A m, n \in asked : m # n => \E a \in answers : a.n \in {m, n}

\* What a human approves is the slot the message states.
AnsweredAsAsked == \A a \in answers : a.msg = a.n

\* The brief on a card was written for the window on that card.
BriefMatchesWindow == \A w \in Crew : card[w].brief = card[w].window

\* A pending schedule has its question in Slack.
PendingIsAsked ==
    (/\ schedule.status = "pending"
     /\ \A p \in Proposers : offer[p][1] # "saved") => schedule.n \in asked

\* A dispatch that failed is on the record of its schedule, so that the console
\* can show it, until another dispatch of it succeeds or is on its way.
FailureOnRecord ==
    \A t \in Tasks :
        (/\ task[t].pc = "failed" /\ schedule.n = task[t].row.n
         /\ \A u \in Tasks : u > t => task[u].pc = "none") => schedule.error

\* An approval is followed up: some dispatch of it delivers or reports failure,
\* unless a process was lost.
ApprovalFollowedUp ==
    \A n \in Proposal :
        Approved(n) ~> \/ crashes > 0
                       \/ \E t \in Tasks : /\ task[t].row.n = n
                                          /\ task[t].pc \in {"done", "failed"}

=============================================================================
