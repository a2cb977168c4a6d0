-------------------------------- MODULE Field --------------------------------
(***************************************************************************)
(* What the plant's people meet: the worker's job card (card, the module   *)
(* JobCard itself), and with it, one at a time, the drafts and cards the   *)
(* agents make (drafts), the interview (interview) and the language-model  *)
(* client they share (model).                                              *)
(*                                                                         *)
(* A behaviour is of one stage, chosen at the start.  The variables of     *)
(* JobCard move only in its own; those of another stay None but in theirs. *)
(***************************************************************************)
EXTENDS JobCard

CONSTANTS
    None, MaxFaults, MaxRestarts,
    \* GroundedDrafts
    Tags, Subject, Clauses, Procedures, Languages, Codes, Imports, MaxToolCalls, MaxChanges,
    \* InterviewSession
    Texts, Calls, Finalizers, DigestMin, Rounds, MaxTopics, MaxTurns, MaxDocuments,
    \* LanguageModel
    Tasks, Slots, Interval, MaxRetries, MaxSteps, MaxNow, MaxFailures

VARIABLES
    stage,
    graph, trigger, case, phase, trace, claimed, artifact, draft, brief, held, changes,
    status, turns, topics, agendaDue, cursor, window, noted, text, call, activeVoice,
    finalizing, final, documents, staged, faults, restarts,
    now, at, kind, attempt, left, outcome, lastTime, started, failures

draftVars == <<graph, trigger, case, phase, trace, claimed, artifact, draft, brief, held, changes>>
interviewVars == <<status, turns, topics, agendaDue, cursor, window, noted, text, call,
                   activeVoice, finalizing, final, documents, staged, faults, restarts>>
modelVars == <<now, at, kind, attempt, left, outcome, lastTime, started, failures>>

fieldVars == <<vars, stage, draftVars, interviewVars, modelVars>>

Drafts == INSTANCE GroundedDrafts WITH card <- brief, MaxSteps <- MaxToolCalls
Interview == INSTANCE InterviewSession
Client == INSTANCE LanguageModel WITH pc <- at

ASSUME FieldAssumption ==
    Drafts!DraftAssumption /\ Interview!InterviewAssumption /\ Client!ClientAssumption

-----------------------------------------------------------------------------
FieldInit ==
    /\ Init
    /\ \/ stage = "card"
       \/ stage = "drafts" /\ Drafts!Init
       \/ stage = "interview" /\ Interview!Init
       \/ stage = "model" /\ Client!Init
    /\ IF stage = "drafts" THEN TRUE
       ELSE /\ graph = None /\ trigger = None /\ case = None /\ phase = None /\ trace = None
            /\ claimed = None /\ artifact = None /\ draft = None /\ brief = None
            /\ held = None /\ changes = None
    /\ IF stage = "interview" THEN TRUE
       ELSE /\ status = None /\ turns = None /\ topics = None /\ agendaDue = None
            /\ cursor = None /\ window = None /\ noted = None /\ text = None /\ call = None
            /\ activeVoice = None /\ finalizing = None /\ final = None /\ documents = None
            /\ staged = None /\ faults = None /\ restarts = None
    /\ IF stage = "model" THEN TRUE
       ELSE /\ now = None /\ at = None /\ kind = None /\ attempt = None /\ left = None
            /\ outcome = None /\ lastTime = None /\ started = None /\ failures = None

FieldNext ==
    /\ UNCHANGED stage
    /\ \/ stage = "card" /\ Next /\ UNCHANGED <<draftVars, interviewVars, modelVars>>
       \/ stage = "drafts" /\ Drafts!Next /\ UNCHANGED <<vars, interviewVars, modelVars>>
       \/ stage = "interview" /\ Interview!Next /\ UNCHANGED <<vars, draftVars, modelVars>>
       \/ stage = "model" /\ Client!Next /\ UNCHANGED <<vars, draftVars, interviewVars>>

FieldSpec == FieldInit /\ [][FieldNext]_fieldVars

-----------------------------------------------------------------------------
(* The properties of the other modules, each of its own stage *)

\* Nothing is passed off as a fact that the graph never held: see GroundedDrafts.
DraftsTraced == stage = "drafts" => Drafts!NothingInvented

\* No turn behind the cursor is unread, and one document is written at a time: see
\* InterviewSession.
InterviewSound ==
    stage = "interview" => Interview!NotedIsRead /\ Interview!OneWriteUp

\* Requests leave the limiter an interval apart: see LanguageModel.
RateKept == [][stage = "model" => Client!RateStep]_fieldVars

=============================================================================
