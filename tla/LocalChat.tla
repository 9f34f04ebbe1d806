------------------------------ MODULE LocalChat ------------------------------
(***************************************************************************)
(* The local backend's calls (llm/local.rs) behind their circuit breaker   *)
(* (infra/circuit_breaker.rs): chat, with three attempts, and chat_stream, *)
(* from several turns at once.  The breaker keeps a counter and two        *)
(* mutexes, each taken for itself, so that a reset, a success and a        *)
(* failure may fall between each other's steps.                            *)
(*                                                                         *)
(* The server is well, refuses connections, or answers with errors.  The   *)
(* wait for a swap before a call changes nothing here and is left out, as  *)
(* is what a stream sends after its response has begun.                    *)
(***************************************************************************)
EXTENDS Naturals

CONSTANTS
    Callers,
    Threshold,   \* failure_threshold, 3 in the code
    Attempts,    \* of chat, 3 in the code
    MaxTurns     \* bound on the changes of the server's condition

ASSUME ChatConstants == Threshold \in Nat \ {0} /\ Attempts \in Nat \ {0} /\ MaxTurns \in Nat

VARIABLES
    server,    \* how the server is
    turns,     \* how often that has changed
    failures,  \* failure_count, of which only the first Threshold matter
    circuit,   \* the state
    since,     \* whether last_failure holds an instant
    chatAt,    \* where each call stands
    calls,     \* what it is: a chat or a stream
    attempt,   \* of a chat
    trips,     \* whether the count a failing call has read reaches the threshold
    overtaken, \* history: the failing calls whose count was cleared since they took it
    belated    \* history: one of them has opened the circuit

breaker  == <<failures, circuit, since>>
chatVars == <<server, turns, breaker, chatAt, calls, attempt, trips, overtaken, belated>>

ChatTypeOK ==
    /\ server \in {"well", "down", "failing"} /\ turns \in 0..MaxTurns
    /\ failures \in 0..Threshold /\ circuit \in {"closed", "open", "half_open"} /\ since \in BOOLEAN
    /\ chatAt \in [Callers -> {"idle", "ask", "sent", "refused", "close", "stamp", "trip",
                               "reset", "unstamp"}]
    /\ calls \in [Callers -> {"chat", "stream"}]
    /\ attempt \in [Callers -> 0..(Attempts - 1)]
    /\ trips \in [Callers -> BOOLEAN]
    /\ overtaken \subseteq Callers /\ belated \in BOOLEAN

ChatInit ==
    /\ server = "well" /\ turns = 0
    /\ failures = 0 /\ circuit = "closed" /\ since = FALSE
    /\ chatAt = [c \in Callers |-> "idle"]
    /\ calls = [c \in Callers |-> "chat"]
    /\ attempt = [c \in Callers |-> 0]
    /\ trips = [c \in Callers |-> FALSE]
    /\ overtaken = {} /\ belated = FALSE

StepsTo(c, p) == chatAt' = [chatAt EXCEPT ![c] = p]

\* The call is over: chat forgets its attempts.
Over(c) == StepsTo(c, "idle") /\ attempt' = [attempt EXCEPT ![c] = 0]

\* A failed attempt of a chat is followed by another one, if there is one left.
Again(c) ==
    \/ /\ calls[c] = "chat" /\ attempt[c] < Attempts - 1
       /\ StepsTo(c, "ask") /\ attempt' = [attempt EXCEPT ![c] = @ + 1]
    \/ /\ calls[c] = "stream" \/ attempt[c] = Attempts - 1
       /\ Over(c)

\* on_success and reset begin with the count; who has taken it and not yet opened the
\* circuit is overtaken.
ClearCount ==
    /\ failures' = 0
    /\ overtaken' = overtaken \cup {d \in Callers : chatAt[d] \in {"stamp", "trip"}}

-----------------------------------------------------------------------------
Ask(c, k) ==
    /\ chatAt[c] = "idle"
    /\ StepsTo(c, "ask") /\ calls' = [calls EXCEPT ![c] = k]
    /\ UNCHANGED <<server, turns, breaker, attempt, trips, overtaken, belated>>

\* CircuitBreaker::state: an open circuit is half open once recovery_timeout has passed
\* since the last failure.
Admit(c) ==
    /\ chatAt[c] = "ask"
    /\ \/ /\ circuit # "open"
          /\ StepsTo(c, "sent") /\ UNCHANGED circuit
       \/ /\ circuit = "open" /\ since
          /\ StepsTo(c, "sent") /\ circuit' = "half_open"
       \/ /\ circuit = "open"
          /\ StepsTo(c, "refused") /\ UNCHANGED circuit
    /\ UNCHANGED <<server, turns, failures, since, calls, attempt, trips, overtaken, belated>>

\* The answer is there: on_success, which stores the count, then the state.
Answered(c) ==
    /\ chatAt[c] = "sent" /\ server = "well"
    /\ ClearCount
    /\ StepsTo(c, "close")
    /\ UNCHANGED <<server, turns, circuit, since, calls, attempt, trips, belated>>

Close(c) ==
    /\ chatAt[c] = "close"
    /\ circuit' = "closed"
    /\ belated' = FALSE
    /\ Over(c)
    /\ UNCHANGED <<server, turns, failures, since, calls, trips, overtaken>>

\* Errors that do not count: the context is too large, which a chat answers by trimming,
\* and, for a chat, a server that cannot be reached.
Ignored(c) ==
    /\ chatAt[c] = "sent"
    /\ server = "well" \/ (server = "down" /\ calls[c] = "chat")
    /\ Again(c)
    /\ UNCHANGED <<server, turns, breaker, calls, trips, overtaken, belated>>

\* A plausible slip: the count begins anew when it has opened the circuit.
FailsAfresh(c) ==
    /\ chatAt[c] = "sent"
    /\ server = "failing" \/ (server = "down" /\ calls[c] = "stream")
    /\ failures' = (failures + 1) % Threshold
    /\ trips' = [trips EXCEPT ![c] = failures' = 0]
    /\ StepsTo(c, "stamp")
    /\ overtaken' = overtaken \ {c}
    /\ UNCHANGED <<server, turns, circuit, since, calls, attempt, belated>>

\* on_failure: the count, the instant, and the state if the count calls for it.
Fails(c) ==
    /\ chatAt[c] = "sent"
    /\ server = "failing" \/ (server = "down" /\ calls[c] = "stream")
    /\ failures' = (IF failures < Threshold THEN failures + 1 ELSE failures)
    /\ trips' = [trips EXCEPT ![c] = failures' = Threshold]
    /\ StepsTo(c, "stamp")
    /\ overtaken' = overtaken \ {c}
    /\ UNCHANGED <<server, turns, circuit, since, calls, attempt, belated>>

Stamp(c) ==
    /\ chatAt[c] = "stamp"
    /\ since' = TRUE
    /\ \/ trips[c] /\ StepsTo(c, "trip") /\ UNCHANGED attempt
       \/ ~trips[c] /\ Again(c)
    /\ trips' = [trips EXCEPT ![c] = FALSE]
    /\ UNCHANGED <<server, turns, failures, circuit, calls, overtaken, belated>>

Trip(c) ==
    /\ chatAt[c] = "trip"
    /\ circuit' = "open"
    /\ belated' = (c \in overtaken) /\ UNCHANGED overtaken
    /\ Again(c)
    /\ UNCHANGED <<server, turns, failures, since, calls, trips>>

-----------------------------------------------------------------------------
\* try_recover_open_circuit: if the server is healthy, reset the circuit; the last
\* attempt of a chat does not ask.
Probe(c) ==
    /\ chatAt[c] = "refused" /\ (calls[c] = "chat" => attempt[c] < Attempts - 1)
    /\ server = "well"
    /\ ClearCount
    /\ StepsTo(c, "reset")
    /\ UNCHANGED <<server, turns, circuit, since, calls, attempt, trips, belated>>

\* The probe fails.  A stream looks at the state once more, which may be half open by now.
TurnedAway(c) ==
    /\ chatAt[c] = "refused"
    /\ \/ server # "well"
       \/ calls[c] = "chat" /\ attempt[c] = Attempts - 1
    /\ \/ Over(c) /\ UNCHANGED circuit
       \/ /\ calls[c] = "stream" /\ (circuit = "open" => since)
          /\ circuit' = (IF circuit = "open" THEN "half_open" ELSE circuit)
          /\ StepsTo(c, "sent") /\ UNCHANGED attempt
    /\ UNCHANGED <<server, turns, failures, since, calls, trips, overtaken, belated>>

\* A plausible slip: only the count is cleared.
ResetCount(c) ==
    /\ chatAt[c] = "reset"
    /\ StepsTo(c, "unstamp")
    /\ UNCHANGED <<server, turns, breaker, calls, attempt, trips, overtaken, belated>>

\* reset: the state, then the instant.
Reset(c) ==
    /\ chatAt[c] = "reset"
    /\ circuit' = "closed"
    /\ belated' = FALSE
    /\ StepsTo(c, "unstamp")
    /\ UNCHANGED <<server, turns, failures, since, calls, attempt, trips, overtaken>>

\* A chat goes on with its next attempt, a stream with its request.
Unstamp(c) ==
    /\ chatAt[c] = "unstamp"
    /\ since' = FALSE
    /\ \/ calls[c] = "chat" /\ Again(c)
       \/ calls[c] = "stream" /\ StepsTo(c, "sent") /\ UNCHANGED attempt
    /\ UNCHANGED <<server, turns, failures, circuit, calls, trips, overtaken, belated>>

\* The server fails, or is repaired.
ServerTurns(s) ==
    /\ turns < MaxTurns /\ s # server
    /\ server' = s /\ turns' = turns + 1
    /\ UNCHANGED <<breaker, chatAt, calls, attempt, trips, overtaken, belated>>

-----------------------------------------------------------------------------
CallStep(c) ==
    \/ Admit(c) \/ Answered(c) \/ Close(c) \/ Ignored(c) \/ Fails(c) \/ Stamp(c) \/ Trip(c)
    \/ Probe(c) \/ TurnedAway(c) \/ Reset(c) \/ Unstamp(c)

ChatNext ==
    \/ \E c \in Callers : CallStep(c) \/ \E k \in {"chat", "stream"} : Ask(c, k)
    \/ \E s \in {"well", "down", "failing"} : ServerTurns(s)

ChatSpec == ChatInit /\ [][ChatNext]_chatVars

\* Requests time out and locks are released; the user goes on asking.
ChatFairness ==
    \A c \in Callers : WF_chatVars(CallStep(c)) /\ WF_chatVars(\E k \in {"chat", "stream"} : Ask(c, k))

ChatFair == ChatSpec /\ ChatFairness

-----------------------------------------------------------------------------
\* A success or a reset clears the count and closes the circuit in two steps.
Closing(c) == chatAt[c] \in {"close", "reset"}

\* "HALF_OPEN -> CLOSED on success, OPEN on failure" (circuit_breaker.rs:17): while the
\* circuit is open or half open the count is full, so that the next failure opens it
\* again and does not start counting: unless a success or a reset is between its two
\* writes, or the circuit was opened by a failure whose count one of them had cleared
\* between its own (on_failure, on_success, reset).
OpenIsFull ==
    circuit # "closed" => failures = Threshold \/ belated \/ \E c \in Callers : Closing(c)

\* The circuit does not stay open in front of a server that is well, whatever steps of a
\* reset, a success and a failure fall between each other: not even when a reset has
\* taken away the instant from which the recovery time counts.
CircuitCloses == <>[](server = "well") => <>[](circuit # "open")
=============================================================================
