----------------------------- MODULE LlmStreams -----------------------------
(***************************************************************************)
(* The streamed answers of LocalBackend (llm/local.rs, chat_stream) over   *)
(* the model server.  Every stream watches the one cancellation token of   *)
(* LlamaServerManager, which cancel_streams cancels whenever the server is *)
(* stopped and which is made once, with the manager.                       *)
(***************************************************************************)
EXTENDS LlmRuntime

CONSTANT Streams

VARIABLES
    stream,   \* [Streams -> {"none", "open", "cut", "ended"}]
    token,    \* the token is cancelled
    stopped   \* history: the streams that were open when a stop began

streamVars == <<stream, token, stopped>>

StreamsInit ==
    /\ Init
    /\ stream = [s \in Streams |-> "none"]
    /\ token = FALSE
    /\ stopped = {}

\* A step of the server; a stop begins by cancelling the token.
RuntimeStep ==
    /\ Next
    /\ LET stops == \E a \in Actors : at[a] = "stop" /\ at'[a] = "take"
       IN /\ token' = (token \/ stops)
          /\ stopped' = IF stops THEN stopped \cup {s \in Streams : stream[s] = "open"}
                        ELSE stopped
    /\ UNCHANGED stream

\* The swap is over, or was waited for in vain; the request is answered or fails.
ChatStream(s) ==
    /\ stream[s] = "none"
    /\ \/ /\ state # "SWAPPING" /\ url \in alive
          /\ stream' = [stream EXCEPT ![s] = "open"]
       \/ stream' = [stream EXCEPT ![s] = "ended"]
    /\ UNCHANGED <<vars, token, stopped>>

\* The select! looks at the token before the next chunk.
Cut(s) ==
    /\ stream[s] = "open" /\ token
    /\ stream' = [stream EXCEPT ![s] = "cut"]
    /\ UNCHANGED <<vars, token, stopped>>

LastChunk(s) ==
    /\ stream[s] = "open" /\ ~token
    /\ stream' = [stream EXCEPT ![s] = "ended"]
    /\ UNCHANGED <<vars, token, stopped>>

StreamsNext ==
    \/ RuntimeStep
    \/ \E s \in Streams : ChatStream(s) \/ Cut(s) \/ LastChunk(s)

StreamsSpec == StreamsInit /\ [][StreamsNext]_<<vars, streamVars>>
-----------------------------------------------------------------------------
\* What the token is documented to do: it is cancelled during a swap to abort the
\* streams in flight, so a stream that is cut was open when a stop began.
CutOnlyBySwap == \A s \in Streams : stream[s] = "cut" => s \in stopped
=============================================================================
