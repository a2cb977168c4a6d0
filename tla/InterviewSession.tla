--------------------------- MODULE InterviewSession ---------------------------
(***************************************************************************)
(* One interview: a voice call or text turns add to a transcript, a        *)
(* notetaker digests it from a cursor on, and whatever ends it calls       *)
(* finalize, which writes the skills document and submits it.              *)
(*                                                                         *)
(* The service is one process with one event loop: what runs between two   *)
(* awaits is one step here.  A restart loses the tasks and the calls; the  *)
(* session is saved with each mutation and is loaded as it was.            *)
(***************************************************************************)
EXTENDS Naturals, Sequences, FiniteSets

CONSTANTS
    Texts,       \* text requests under way at most
    Calls,       \* voice calls under way at most
    Finalizers,  \* finalize coroutines under way at most: each coroutine is one of these
    DigestMin,   \* DIGEST_MIN_TURNS
    Rounds,      \* LLM rounds in a text turn
    MaxTopics,
    MaxTurns,    \* bound
    MaxDocuments, \* bound
    MaxFaults,   \* bound: LLM, pipeline and archive failures
    MaxRestarts  \* bound

InterviewAssumption ==
    /\ Texts \cap Calls = {} /\ (Texts \cup Calls) \cap Finalizers = {}
    /\ DigestMin \in Nat \ {0} /\ Rounds \in Nat \ {0} /\ MaxTopics \in Nat
    /\ MaxTurns \in Nat /\ MaxDocuments \in Nat /\ MaxFaults \in Nat /\ MaxRestarts \in Nat

VARIABLES
    status,
    turns,       \* the length of the transcript
    topics,      \* how far each topic is covered: 0 pending, 1 partial, 2 covered
    agendaDue,   \* _build_agenda is under way
    cursor,      \* notes_cursor
    window,      \* the turns each digest under way has read, <<>> none
    noted,       \* the turns some applied digest had read
    text,        \* rounds left to each text turn under way, 0 none
    call,        \* "off", "offered", "on" or "farewell"
    activeVoice,
    finalizing,  \* the session is in _finalizing
    final,       \* "idle", "called", "digest" or "writing"
    documents,   \* how many skills documents were written
    staged,      \* those submitted to the pipeline
    faults, restarts
session == <<status, turns, topics, cursor>>
vars == <<session, agendaDue, window, noted, text, call, activeVoice, finalizing, final,
          documents, staged, faults, restarts>>

Digesters == Texts \union Calls \union Finalizers

Init ==
    /\ status = "created" /\ turns = 0 /\ topics = <<>> /\ agendaDue = TRUE
    /\ cursor = 0 /\ noted = {} /\ window = [d \in Digesters |-> <<>>]
    /\ text = [t \in Texts |-> 0] /\ call = [c \in Calls |-> "off"]
    /\ activeVoice = FALSE /\ finalizing = FALSE /\ final = [f \in Finalizers |-> "idle"]
    /\ documents = 0 /\ staged = {} /\ faults = 0 /\ restarts = 0

Fault == faults < MaxFaults /\ faults' = faults + 1
Finished == status \in {"generating", "done"}

\* set_agenda: a late agenda never replaces topics that are already there.
SetAgenda ==
    /\ agendaDue /\ agendaDue' = FALSE
    /\ topics' \in IF topics = <<>> THEN {[i \in 1 .. n |-> 0] : n \in 0 .. MaxTopics}
                   ELSE {topics}
    /\ UNCHANGED <<status, turns, cursor, window, noted, text, call, activeVoice,
                   finalizing, final, documents, staged, faults, restarts>>

MarkCovered == \E i \in DOMAIN topics : topics' = [topics EXCEPT ![i] = 2]
AddTopic == Len(topics) < MaxTopics /\ topics' = Append(topics, 0)

\* The interviewer's tools; finish_interview ends an interview whatever its status.
UseTools ==
    \/ (MarkCovered \/ AddTopic) /\ UNCHANGED status
    \/ status' = "ending" /\ UNCHANGED topics

-----------------------------------------------------------------------------
(* The notetaker *)

Reads(d) == window[d] # <<>>

\* digest, up to the LLM call: the window runs from the cursor to the last turn.
ReadWindow(d, last) == window' = [window EXCEPT ![d] = <<cursor + 1, last>>]

\* _apply: coverage only rises, and topics are added up to the limit.
Covered(old) ==
    {new \in UNION {[1 .. n -> 0 .. 2] : n \in Len(old) .. MaxTopics} :
        \A i \in DOMAIN old : new[i] >= old[i]}

\* Mutant: the cursor goes to the end the transcript has after the call.
DigestedToEnd(d) ==
    /\ \/ /\ noted' = noted \union (window[d][1] .. window[d][2])
          /\ cursor' = turns
          /\ topics' \in Covered(topics) /\ UNCHANGED faults
       \/ Fault /\ UNCHANGED <<noted, cursor, topics>>
    /\ window' = [window EXCEPT ![d] = <<>>]

\* digest, after the LLM call.
Digested(d) ==
    /\ \/ /\ noted' = noted \union (window[d][1] .. window[d][2])
          /\ cursor' = window[d][2]
          /\ topics' \in Covered(topics) /\ UNCHANGED faults
       \/ Fault /\ UNCHANGED <<noted, cursor, topics>>
    /\ window' = [window EXCEPT ![d] = <<>>]

-----------------------------------------------------------------------------
(* finalize *)

CallFinalize == \E f \in Finalizers : final[f] = "idle" /\ final' = [final EXCEPT ![f] = "called"]

\* Mutant: finalize enters by the status alone.
EnterFinalizeByStatus(f, windows) ==
    LET enters == ~Finished /\ turns > 0
        digests == enters /\ cursor < turns
    IN  /\ status' = IF enters THEN "generating" ELSE IF Finished THEN status ELSE "failed"
        /\ finalizing' = (finalizing \/ enters)
        /\ window' = IF digests THEN [windows EXCEPT ![f] = <<cursor + 1, turns>>] ELSE windows
        /\ final' = [final EXCEPT ![f] = IF digests THEN "digest"
                                         ELSE IF enters THEN "writing" ELSE "idle"]

\* finalize up to its first await; the digests under way are those in windows.
EnterFinalize(f, windows) ==
    LET enters == ~Finished /\ ~finalizing /\ turns > 0
        digests == enters /\ cursor < turns
    IN  /\ status' = IF enters THEN "generating"
                     ELSE IF Finished \/ finalizing THEN status ELSE "failed"
        /\ finalizing' = (finalizing \/ enters)
        /\ window' = IF digests THEN [windows EXCEPT ![f] = <<cursor + 1, turns>>] ELSE windows
        /\ final' = [final EXCEPT ![f] = IF digests THEN "digest"
                                         ELSE IF enters THEN "writing" ELSE "idle"]

StartFinalize(f) ==
    /\ final[f] = "called" /\ EnterFinalize(f, window)
    /\ UNCHANGED <<turns, topics, cursor, agendaDue, noted, text, call, activeVoice,
                   documents, staged, faults, restarts>>

FinalizeDigested(f) ==
    /\ final[f] = "digest" /\ Digested(f)
    /\ final' = [final EXCEPT ![f] = "writing"]
    /\ UNCHANGED <<status, turns, agendaDue, text, call, activeVoice, finalizing,
                   documents, staged, restarts>>

\* The document is written by the LLM and saved, then submitted: a pipeline that cannot
\* be reached is only logged.
Saved == documents < MaxDocuments /\ documents' = documents + 1
Published == staged' \in {staged, staged \union {documents'}}

\* generate, save, publish and archive, or one of them raises.
Written(f) ==
    /\ final[f] = "writing"
    /\ final' = [final EXCEPT ![f] = "idle"] /\ finalizing' = FALSE
    /\ \/ /\ Fault /\ status' = "failed" /\ UNCHANGED <<documents, staged>>
       \/ /\ Saved /\ Published /\ status' \in {"done", "failed"}
          /\ IF staged' # staged /\ status' = "done" THEN UNCHANGED faults ELSE Fault
    /\ UNCHANGED <<turns, topics, cursor, agendaDue, window, noted, text, call,
                   activeVoice, restarts>>

-----------------------------------------------------------------------------
(* Text turns *)

\* debug_text and text_turn up to the first LLM call.
TextTurn(t) ==
    /\ text[t] = 0 /\ ~Reads(t) /\ ~Finished /\ turns < MaxTurns
    /\ status' = IF status = "created" THEN "live" ELSE status
    /\ turns' = turns + 1 /\ text' = [text EXCEPT ![t] = Rounds]
    /\ UNCHANGED <<topics, cursor, agendaDue, window, noted, call, activeVoice, finalizing,
                   final, documents, staged, faults, restarts>>

\* The end of text_turn.
EndTurn(ended) == IF ended THEN CallFinalize ELSE UNCHANGED final

\* The LLM raises, asks for tools, or replies; the last turns may then be digested.
TextAnswer(t) ==
    /\ text[t] > 0
    /\ \/ Fault /\ text' = [text EXCEPT ![t] = 0] /\ UNCHANGED <<session, window, final>>
       \/ /\ UseTools /\ text' = [text EXCEPT ![t] = @ - 1] /\ UNCHANGED <<turns, cursor, faults>>
          /\ IF text[t] > 1 THEN UNCHANGED <<window, final>>
             ELSE IF turns - cursor >= DigestMin THEN ReadWindow(t, turns) /\ UNCHANGED final
             ELSE EndTurn(status' = "ending") /\ UNCHANGED window
       \/ /\ turns' \in {turns} \union {n \in {turns + 1} : n <= MaxTurns}
          /\ text' = [text EXCEPT ![t] = 0]
          /\ IF turns' - cursor >= DigestMin THEN ReadWindow(t, turns') /\ UNCHANGED final
             ELSE EndTurn(status = "ending") /\ UNCHANGED window
          /\ UNCHANGED <<status, topics, cursor, faults>>
    /\ UNCHANGED <<agendaDue, noted, call, activeVoice, finalizing, documents, staged, restarts>>

TextDigested(t) ==
    /\ Reads(t) /\ Digested(t) /\ EndTurn(status = "ending")
    /\ UNCHANGED <<status, turns, agendaDue, text, call, activeVoice, finalizing,
                   documents, staged, restarts>>

-----------------------------------------------------------------------------
(* Voice calls *)

\* negotiate: a connection, whose coroutine is not running yet.
Connected(c) == call[c] = "off" /\ call' = [call EXCEPT ![c] = "offered"]

\* offer: the status is tested before the connection is negotiated.
Offer(c) ==
    /\ ~Finished /\ Connected(c)
    /\ UNCHANGED <<session, agendaDue, window, noted, text, activeVoice, finalizing, final,
                   documents, staged, faults, restarts>>

RunVoice(c) ==
    /\ call[c] = "offered" /\ call' = [call EXCEPT ![c] = "on"] /\ activeVoice' = TRUE
    /\ UNCHANGED <<session, agendaDue, window, noted, text, finalizing, final, documents,
                   staged, faults, restarts>>

\* on_client_ready: the interview is live, whatever it was.
ClientReady(c) ==
    /\ call[c] = "on" /\ status' = "live"
    /\ UNCHANGED <<turns, topics, cursor, agendaDue, window, noted, text, call, activeVoice,
                   finalizing, final, documents, staged, faults, restarts>>

\* Speech and tool calls of the interviewer in the call.
Speak(c) ==
    /\ call[c] \in {"on", "farewell"}
    /\ \/ turns < MaxTurns /\ turns' = turns + 1 /\ UNCHANGED <<status, topics>>
       \/ UseTools /\ UNCHANGED turns
    /\ UNCHANGED <<cursor, agendaDue, window, noted, text, call, activeVoice, finalizing,
                   final, documents, staged, faults, restarts>>

\* _brain: the farewell once the interview is ending, else a digest when it is time.
Brain(c) ==
    /\ call[c] = "on" /\ ~Reads(c)
    /\ \/ /\ status = "ending" /\ call' = [call EXCEPT ![c] = "farewell"] /\ UNCHANGED window
       \/ /\ status # "ending" /\ turns - cursor >= DigestMin
          /\ ReadWindow(c, turns) /\ UNCHANGED call
    /\ UNCHANGED <<session, agendaDue, noted, text, activeVoice, finalizing, final,
                   documents, staged, faults, restarts>>

BrainDigested(c) ==
    /\ Reads(c) /\ Digested(c)
    /\ UNCHANGED <<status, turns, agendaDue, text, call, activeVoice, finalizing, final,
                   documents, staged, restarts>>

\* The farewell was spoken, the client disconnected or the pipeline crashed: the brain
\* is cancelled, and _run_voice enters finalize.
CallEnds(c) ==
    /\ call[c] \in {"on", "farewell"} /\ call' = [call EXCEPT ![c] = "off"]
    /\ activeVoice' = FALSE
    /\ \E f \in Finalizers :
          final[f] = "idle" /\ EnterFinalize(f, [window EXCEPT ![c] = <<>>])
    /\ UNCHANGED <<turns, topics, cursor, agendaDue, noted, text, documents, staged,
                   faults, restarts>>

-----------------------------------------------------------------------------
(* The other routes, and restarts *)

\* end_session: without a voice call to say goodbye, finalize is called here.
EndSession ==
    /\ status' = IF status \in {"created", "live"} THEN "ending" ELSE status
    /\ IF status' = "ending" /\ ~activeVoice THEN CallFinalize ELSE UNCHANGED final
    /\ UNCHANGED <<turns, topics, cursor, agendaDue, window, noted, text, call, activeVoice,
                   finalizing, documents, staged, faults, restarts>>

\* reingest: the last document is submitted once more.
Reingest ==
    /\ documents > 0 /\ staged' = staged \union {documents}
    /\ UNCHANGED <<session, agendaDue, window, noted, text, call, activeVoice, finalizing,
                   final, documents, faults, restarts>>

Restart ==
    /\ restarts < MaxRestarts /\ restarts' = restarts + 1
    /\ agendaDue' = FALSE /\ window' = [d \in Digesters |-> <<>>]
    /\ text' = [t \in Texts |-> 0] /\ call' = [c \in Calls |-> "off"]
    /\ activeVoice' = FALSE /\ finalizing' = FALSE /\ final' = [f \in Finalizers |-> "idle"]
    /\ UNCHANGED <<session, noted, documents, staged, faults>>

Next ==
    \/ SetAgenda \/ EndSession \/ Reingest \/ Restart
    \/ \E t \in Texts : TextTurn(t) \/ TextAnswer(t) \/ TextDigested(t)
    \/ \E c \in Calls : \/ Offer(c) \/ RunVoice(c) \/ ClientReady(c) \/ Speak(c)
                        \/ Brain(c) \/ BrainDigested(c) \/ CallEnds(c)
    \/ \E f \in Finalizers : StartFinalize(f) \/ FinalizeDigested(f) \/ Written(f)

Spec == Init /\ [][Next]_vars

-----------------------------------------------------------------------------
(* Properties *)

\* No turn behind the notes cursor went unread: digests of a text turn, of a call and of
\* finalize overlap, and turns are added while the LLM reads.
NotedIsRead == 1 .. cursor \subseteq noted

\* However many end paths call finalize, and whatever the tools and the client do to the
\* status meanwhile, one document is written at a time.
OneWriteUp == Cardinality({f \in Finalizers : final[f] \in {"digest", "writing"}}) <= 1

\* finalize's docstring: "Skills document + ingestion, exactly once."
ExactlyOnce == Cardinality(staged) <= 1
===============================================================================
