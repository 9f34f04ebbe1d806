---------------------------- MODULE TurnConsumer ----------------------------
(***************************************************************************)
(* The desktop's side of a turn (commands.rs): the command that starts it, *)
(* the task that consumes its events until the run is over or silent for   *)
(* too long, the one retry after an early transport error, and the monitor *)
(* that releases the model server when no turn is counted and nothing has  *)
(* happened for a while.                                                   *)
(*                                                                         *)
(* The run (AgentTurns has its inside) is what it sends: tokens, results   *)
(* of tools, one closing event.  Events arrive in order and the consumer   *)
(* acts on nothing else, so each is consumed as it is sent.  A run sends   *)
(* finitely many.  The server (LlmRuntime) is whether its process lives.   *)
(***************************************************************************)
EXTENDS Naturals, FiniteSets

CONSTANT Turns      \* turns; one that is over is used again

ASSUME ConsumerConstants == IsFiniteSet(Turns)

VARIABLES
    stage,      \* where the command or the consumer of each turn stands
    kind,       \* which command started it: chat, image or voice
    run,        \* which run of the agent goes on for it: 0 none, 1, 2 the retry
    shown,      \* full_response: where its text comes from
    good,       \* whether successful_tool_count is above 0
    retried,    \* recovery_attempted
    count,      \* orchestrator_active_turns
    quiet,      \* whether the last activity is longer ago than idle_after
    live,       \* has_live_process
    monitor,    \* the idle monitor: asleep, or sure that it may release
    did,        \* history: what the first run did that a retry would do again
    late        \* history: turns counted since the monitor became sure

turnSide     == <<stage, kind, run, shown, good, retried, did>>
consumerVars == <<turnSide, count, quiet, live, monitor, late>>

TurnKinds == {"chat", "image", "voice"}
Counted   == {t \in Turns : stage[t] \in {"live", "recover", "closing"}}

ConsumerTypeOK ==
    /\ stage \in [Turns -> {"idle", "prep", "ready", "live", "recover", "closing", "left"}]
    /\ kind \in [Turns -> TurnKinds]
    /\ run \in [Turns -> 0..2]
    /\ shown \in [Turns -> {"none", "tokens", "final", "fallback", "error", "timeout"}]
    /\ good \in [Turns -> BOOLEAN] /\ retried \in [Turns -> BOOLEAN]
    /\ count \in Nat
    /\ quiet \in BOOLEAN /\ live \in BOOLEAN
    /\ monitor \in {"asleep", "sure"}
    /\ did \in [Turns -> SUBSET {"token", "tool"}]
    /\ late \subseteq Turns

ConsumerInit ==
    /\ stage = [t \in Turns |-> "idle"]
    /\ kind = [t \in Turns |-> "chat"]
    /\ run = [t \in Turns |-> 0]
    /\ shown = [t \in Turns |-> "none"]
    /\ good = [t \in Turns |-> FALSE] /\ retried = [t \in Turns |-> FALSE]
    /\ count = 0 /\ quiet = FALSE /\ live = TRUE
    /\ monitor = "asleep"
    /\ did = [t \in Turns |-> {}] /\ late = {}

Goes(t, s)  == stage' = [stage EXCEPT ![t] = s]
Shows(t, s) == shown' = [shown EXCEPT ![t] = IF @ = "none" THEN s ELSE @]

-----------------------------------------------------------------------------
\* The command: activity is touched, the server made ready, the messages built (for an
\* image with an analysis that may take long), the turn counted, the run spawned.
\* Transcripts are handled one at a time.
Begin(t, k) ==
    /\ stage[t] = "idle"
    /\ k = "voice" => \A u \in Turns : kind[u] = "voice" => stage[u] = "idle"
    /\ kind' = [kind EXCEPT ![t] = k]
    /\ Goes(t, "prep")
    /\ quiet' = FALSE
    /\ UNCHANGED <<run, shown, good, retried, did, count, live, monitor, late>>

\* ensure_ready; a turn without a server is refused.
MakeReady(t) ==
    /\ stage[t] = "prep"
    /\ \/ Goes(t, "ready") /\ live' = TRUE
          /\ UNCHANGED kind
       \/ Goes(t, "idle") /\ kind' = [kind EXCEPT ![t] = "chat"] /\ UNCHANGED live
    /\ UNCHANGED <<run, shown, good, retried, did, count, quiet, monitor, late>>

CountAndRun(t) ==
    /\ stage[t] = "ready"
    /\ Goes(t, "live")
    /\ count' = count + 1
    /\ run' = [run EXCEPT ![t] = 1]
    /\ late' = IF monitor = "sure" THEN late \cup {t} ELSE late
    /\ UNCHANGED <<kind, shown, good, retried, did, quiet, live, monitor>>

-----------------------------------------------------------------------------
\* Events of the run.
Hears(t)   == stage[t] = "live" /\ run[t] # 0
Acts(t, a) == did' = [did EXCEPT ![t] = IF run[t] = 1 THEN @ \cup {a} ELSE @]
RunOver(t) == run' = [run EXCEPT ![t] = 0]

Token(t) ==
    /\ Hears(t)
    /\ Shows(t, "tokens")
    /\ Acts(t, "token")
    /\ UNCHANGED <<stage, kind, run, good, retried, count, quiet, live, monitor, late>>

ToolSucceeds(t) ==
    /\ Hears(t)
    /\ good' = [good EXCEPT ![t] = TRUE]
    /\ Acts(t, "tool")
    /\ UNCHANGED <<stage, kind, run, shown, retried, count, quiet, live, monitor, late>>

\* Done with a text or without, and the end of the channel.
RunDone(t) ==
    /\ Hears(t)
    /\ Goes(t, "closing") /\ RunOver(t)
    /\ Shows(t, "final") \/ UNCHANGED shown
    /\ UNCHANGED <<kind, good, retried, did, count, quiet, live, monitor, late>>

\* An error that is not the model's transport ends the run; the voice consumer shows it
\* and keeps nothing.
OtherError(t) ==
    /\ Hears(t)
    /\ Goes(t, "closing") /\ RunOver(t)
    /\ IF kind[t] = "voice" THEN UNCHANGED shown ELSE Shows(t, "error")
    /\ UNCHANGED <<kind, good, retried, did, count, quiet, live, monitor, late>>

\* A plausible slip: the retry does not look for tools that already succeeded.
RetriableAfterTools(t) == kind[t] = "chat" /\ shown[t] = "none" /\ ~retried[t]

Retriable(t) == kind[t] = "chat" /\ shown[t] = "none" /\ ~good[t] /\ ~retried[t]

\* The transport to the model failed.  A chat turn with nothing to show restarts the
\* server, once; otherwise what there is stays: the tokens, a text made from the last
\* tool's result, the analysis of the picture if there was one, or the error.
TransportError(t) ==
    /\ Hears(t) /\ RunOver(t)
    /\ IF Retriable(t)
       THEN /\ Goes(t, "recover")
            /\ retried' = [retried EXCEPT ![t] = TRUE]
            /\ UNCHANGED shown
       ELSE /\ Goes(t, "closing")
            /\ \/ kind[t] = "chat" /\ Shows(t, IF good[t] THEN "fallback" ELSE "error")
               \/ kind[t] = "image" /\ \E s \in {"fallback", "error"} : Shows(t, s)
               \/ kind[t] = "voice" /\ UNCHANGED shown
            /\ UNCHANGED retried
    /\ UNCHANGED <<kind, good, did, count, quiet, live, monitor, late>>

\* orchestrator.restart: a second run with the same messages, or the error is shown.
Recover(t) ==
    /\ stage[t] = "recover"
    /\ \/ /\ Goes(t, "live") /\ live' = TRUE
          /\ run' = [run EXCEPT ![t] = 2]
          /\ UNCHANGED shown
       \/ /\ Goes(t, "closing") /\ Shows(t, "error")
          /\ UNCHANGED <<run, live>>
    /\ UNCHANGED <<kind, good, retried, did, count, quiet, monitor, late>>

\* A plausible slip: silence is waited for only until the first output.
TimeOutBeforeOutput(t) ==
    /\ stage[t] = "live" /\ kind[t] # "voice" /\ shown[t] = "none"
    /\ Goes(t, "closing")
    /\ shown' = [shown EXCEPT ![t] = "timeout"]
    /\ UNCHANGED <<kind, run, good, retried, did, count, quiet, live, monitor, late>>

\* No event for AGENT_EVENT_IDLE_TIMEOUT_SECS: the consumer leaves and the run goes on.
\* The voice consumer waits without a limit.
TimeOut(t) ==
    /\ stage[t] = "live" /\ kind[t] # "voice"
    /\ Goes(t, "closing")
    /\ shown' = [shown EXCEPT ![t] = "timeout"]
    /\ UNCHANGED <<kind, run, good, retried, did, count, quiet, live, monitor, late>>

\* The locals of the consumer are gone with it.
Forgets(t) ==
    /\ kind' = [kind EXCEPT ![t] = "chat"]
    /\ shown' = [shown EXCEPT ![t] = "none"]
    /\ good' = [good EXCEPT ![t] = FALSE]
    /\ retried' = [retried EXCEPT ![t] = FALSE]
    /\ did' = [did EXCEPT ![t] = {}]

\* A plausible slip: a consumer that gave up takes its turn off the count twice.
FinishTwice(t) ==
    /\ stage[t] = "closing"
    /\ Goes(t, IF run[t] = 0 THEN "idle" ELSE "left")
    /\ count' = IF shown[t] = "timeout" /\ count > 1 THEN count - 2 ELSE count - 1
    /\ quiet' = FALSE
    /\ Forgets(t)
    /\ UNCHANGED <<run, live, monitor, late>>

\* The answer is stored (a voice turn also speaks it), the turn no longer counted, and
\* activity touched.
Finish(t) ==
    /\ stage[t] = "closing"
    /\ Goes(t, IF run[t] = 0 THEN "idle" ELSE "left")
    /\ count' = count - 1
    /\ quiet' = FALSE
    /\ Forgets(t)
    /\ UNCHANGED <<run, live, monitor, late>>

\* A run nobody listens to any more ends.
RunEndsUnheard(t) ==
    /\ run[t] # 0 /\ stage[t] \in {"closing", "left"}
    /\ RunOver(t)
    /\ Goes(t, IF stage[t] = "left" THEN "idle" ELSE "closing")
    /\ UNCHANGED <<kind, shown, good, retried, did, count, quiet, live, monitor, late>>

-----------------------------------------------------------------------------
\* idle_after passes without activity.
Quiets == ~quiet /\ quiet' = TRUE /\ UNCHANGED <<turnSide, count, live, monitor, late>>

\* The monitor's checks, in its order: turns, activity, the process.  (Voice and a swap
\* make it skip its turn as well.)
MonitorChecks ==
    /\ monitor = "asleep"
    /\ count = 0 /\ quiet /\ live
    /\ monitor' = "sure"
    /\ UNCHANGED <<turnSide, count, quiet, live, late>>

\* release_if_idle: it waits for lifecycle_lock and looks again only for a process.
MonitorReleases ==
    /\ monitor = "sure"
    /\ live' = FALSE
    /\ monitor' = "asleep"
    /\ quiet' = IF live THEN FALSE ELSE quiet
    /\ late' = {}
    /\ UNCHANGED <<turnSide, count>>

-----------------------------------------------------------------------------
Consume(t) == MakeReady(t) \/ CountAndRun(t) \/ Recover(t) \/ TimeOut(t) \/ Finish(t)

ConsumerNext ==
    \/ \E t \in Turns : \/ \E k \in TurnKinds : Begin(t, k)
                        \/ Consume(t)
                        \/ Token(t) \/ ToolSucceeds(t) \/ RunDone(t) \/ OtherError(t)
                        \/ TransportError(t) \/ RunEndsUnheard(t)
    \/ Quiets \/ MonitorChecks \/ MonitorReleases

ConsumerSpec == ConsumerInit /\ [][ConsumerNext]_consumerVars

\* The desktop's own steps happen and the timeout fires; nothing is asked of the run.
ConsumerFairness == \A t \in Turns : WF_consumerVars(Consume(t))

-----------------------------------------------------------------------------
\* A turn is retried only when its first run is over and left no trace: no text, no
\* tool that succeeded.
RetryIsClean == \A t \in Turns : run[t] = 2 => kind[t] = "chat" /\ did[t] = {}

\* The monitor takes the server from no run but one whose consumer has given it up and
\* one that was counted only after the monitor had looked.
ReleaseSparesTurns ==
    [][MonitorReleases => \A t \in Turns : run[t] # 0 => stage[t] # "live" \/ t \in late]_consumerVars

\* A chat or image turn comes to an end for its user whatever its run does: none is
\* counted for ever.
TurnsFinish == \A t \in Turns : []<>(t \in Counted => kind[t] = "voice")
=============================================================================
