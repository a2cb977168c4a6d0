---------------------------- MODULE LanguageModel ----------------------------
(***************************************************************************)
(* The language-model client: every task of a process shares its slots     *)
(* (a semaphore) and its rate limiter.                                     *)
(* A request that fails is tried again after a back-off; structured        *)
(* output is asked for twice, a web search falls back to a plain request,  *)
(* and an agent asks again for as long as the model calls tools.           *)
(***************************************************************************)
EXTENDS Naturals, FiniteSets

CONSTANTS
    Tasks,       \* coroutines that use the client
    Slots,       \* llm_max_concurrency
    Interval,    \* clock ticks between two requests, 1 / llm_max_rps
    MaxRetries,
    MaxSteps,    \* of an agent
    MaxNow,      \* bound
    MaxFailures  \* bound: requests a provider fails

ClientAssumption ==
    /\ Slots \in Nat \ {0} /\ Interval \in Nat \ {0} /\ MaxRetries \in Nat
    /\ MaxSteps \in Nat \ {0} /\ MaxNow \in Nat /\ MaxFailures \in Nat

VARIABLES
    now,
    pc,        \* "idle", "queued" for a slot, "limited", "sleeping", "sent", "backoff"
    kind,      \* of Kinds
    attempt,
    left,      \* further asks of a structured output, or steps of an agent
    outcome,   \* of the last call: "none", "answer", "empty", "raised" or "nothing"
    lastTime,  \* of the limiter
    started,   \* when a request last left the limiter
    failures
vars == <<now, pc, kind, attempt, left, outcome, lastTime, started, failures>>

Never == 0   \* the clock starts at Interval, so that 0 is long ago
Kinds == {"complete", "structured", "search", "grounded", "agent", "agent_stream", "stream"}

Init ==
    /\ now = Interval /\ lastTime = Never /\ started = Never
    /\ pc = [t \in Tasks |-> "idle"] /\ kind = [t \in Tasks |-> "complete"]
    /\ attempt = [t \in Tasks |-> 0] /\ left = [t \in Tasks |-> 0]
    /\ outcome = [t \in Tasks |-> "none"] /\ failures = 0

InSlot == {t \in Tasks : pc[t] \in {"limited", "sleeping", "sent"}}

Tick ==
    /\ now < MaxNow /\ now' = now + 1
    /\ UNCHANGED <<pc, kind, attempt, left, outcome, lastTime, started, failures>>

\* A call of one of the client's methods, or of an agent.
Call(t) ==
    /\ pc[t] = "idle" /\ outcome[t] = "none"
    /\ \E k \in Kinds :
          /\ kind' = [kind EXCEPT ![t] = k]
          /\ left' = [left EXCEPT ![t] = IF k = "structured" THEN 1
                                         ELSE IF k \in {"agent", "agent_stream"} THEN MaxSteps
                                         ELSE 0]
    /\ pc' = [pc EXCEPT ![t] = "queued"] /\ attempt' = [attempt EXCEPT ![t] = 0]
    /\ UNCHANGED <<now, outcome, lastTime, started, failures>>

\* async with self._sem: a stream goes on without the limiter.
TakeSlot(t) ==
    /\ pc[t] = "queued" /\ Cardinality(InSlot) < Slots
    /\ pc' = [pc EXCEPT ![t] = IF kind[t] = "stream" THEN "sent" ELSE "limited"]
    /\ UNCHANGED <<now, kind, attempt, left, outcome, lastTime, started, failures>>

\* AsyncRateLimiter.acquire: the lock is held by whoever sleeps.
Acquire(t) ==
    /\ pc[t] = "limited" /\ \A u \in Tasks : pc[u] # "sleeping"
    /\ IF now - lastTime >= Interval
       THEN pc' = [pc EXCEPT ![t] = "sent"] /\ lastTime' = now /\ started' = now
       ELSE pc' = [pc EXCEPT ![t] = "sleeping"] /\ UNCHANGED <<lastTime, started>>
    /\ UNCHANGED <<now, kind, attempt, left, outcome, failures>>

\* Mutant: the time taken before the sleep is the one kept.
WakeStale(t) ==
    /\ pc[t] = "sleeping" /\ now - lastTime >= Interval
    /\ pc' = [pc EXCEPT ![t] = "sent"] /\ lastTime' = now - 1 /\ started' = now
    /\ UNCHANGED <<now, kind, attempt, left, outcome, failures>>

Wake(t) ==
    /\ pc[t] = "sleeping" /\ now - lastTime >= Interval
    /\ pc' = [pc EXCEPT ![t] = "sent"] /\ lastTime' = now /\ started' = now
    /\ UNCHANGED <<now, kind, attempt, left, outcome, failures>>

-----------------------------------------------------------------------------
(* The provider's reply *)

\* The call returns to the task with this outcome.
Return(t, o) ==
    /\ pc' = [pc EXCEPT ![t] = "idle"] /\ outcome' = [outcome EXCEPT ![t] = o]
    /\ UNCHANGED <<kind, attempt, left>>

\* Another request on behalf of the same call.
Again(t, k, n) ==
    /\ pc' = [pc EXCEPT ![t] = "queued"] /\ kind' = [kind EXCEPT ![t] = k]
    /\ attempt' = [attempt EXCEPT ![t] = 0] /\ left' = [left EXCEPT ![t] = n]
    /\ UNCHANGED outcome

\* A reply: text, unusable text, or tool calls.  An agent without steps left asks for a
\* plain answer; stream_run always generates its answer anew, as a stream.
Replied(t) ==
    \/ kind[t] \in {"complete", "search", "grounded", "agent", "stream"} /\ Return(t, "answer")
    \/ kind[t] = "structured" /\ (Return(t, "answer")
                                  \/ IF left[t] = 0 THEN Return(t, "raised")
                                     ELSE Again(t, "structured", 0))
    \/ kind[t] = "agent_stream" /\ Again(t, "stream", 0)
    \/ /\ kind[t] \in {"agent", "agent_stream"}
       /\ IF left[t] > 1 THEN Again(t, kind[t], left[t] - 1)
          ELSE Again(t, IF kind[t] = "agent" THEN "complete" ELSE "stream", 0)

\* A call that raises: a web search is asked as a plain prompt instead.
Raise(t) ==
    IF kind[t] = "search" THEN Again(t, "complete", 0) ELSE Return(t, "raised")

\* The back-off, outside the slot.
BackOff(t) ==
    /\ pc' = [pc EXCEPT ![t] = "backoff"] /\ attempt' = [attempt EXCEPT ![t] = @ + 1]
    /\ UNCHANGED <<kind, left, outcome>>

Last(t) == attempt[t] = MaxRetries

\* _create: an error that is not worth a retry raises, and so does the last attempt.
CreateFails(t) == Raise(t) \/ (~Last(t) /\ BackOff(t))

\* Mutant: out of credit (402) is retried with a smaller budget even at the last attempt,
\* and the loop ends with no response.
CreateFailsSilently(t) ==
    \/ Raise(t)
    \/ IF Last(t) THEN Return(t, "nothing") ELSE BackOff(t)

\* stream retries only when out of credit, at the last attempt too: the loop then ends
\* without a word.
StreamFails(t) ==
    \/ Return(t, "raised")
    \/ IF Last(t) THEN Return(t, "nothing") ELSE BackOff(t)

\* Vertex's own web search is tried once, and is empty when it fails.
Fails(t) ==
    CASE kind[t] = "stream" -> StreamFails(t)
      [] kind[t] = "grounded" -> Return(t, "empty")
      [] OTHER -> CreateFails(t)

Reply(t) ==
    /\ pc[t] = "sent"
    /\ \/ Replied(t) /\ UNCHANGED failures
       \/ failures < MaxFailures /\ failures' = failures + 1 /\ Fails(t)
    /\ UNCHANGED <<now, lastTime, started>>

Retry(t) ==
    /\ pc[t] = "backoff" /\ pc' = [pc EXCEPT ![t] = "queued"]
    /\ UNCHANGED <<now, kind, attempt, left, outcome, lastTime, started, failures>>

\* The task looks at what it got and may call again.
Use(t) ==
    /\ pc[t] = "idle" /\ outcome[t] # "none" /\ outcome' = [outcome EXCEPT ![t] = "none"]
    /\ UNCHANGED <<now, pc, kind, attempt, left, lastTime, started, failures>>

Next ==
    \/ Tick
    \/ \E t \in Tasks : \/ Call(t) \/ TakeSlot(t) \/ Acquire(t) \/ Wake(t) \/ Reply(t)
                        \/ Retry(t) \/ Use(t)

Spec == Init /\ [][Next]_vars

-----------------------------------------------------------------------------
(* Properties *)

\* Two requests leave the limiter at least Interval apart, however many tasks wait for it
\* and for the slots, and retry meanwhile.
RateStep == started' # started => started' - started >= Interval
RateKept == [][RateStep]_vars
===============================================================================
