----------------------------- MODULE VoiceTurns -----------------------------
(***************************************************************************)
(* Voice pipeline v2: run_turn, run_speak_turn and force_abort of          *)
(* voice/v2/pipeline.rs, the playback sink of voice/v2/playback.rs, and    *)
(* the desktop's callers (commands.rs): the loop that listens turn after   *)
(* turn, the command that speaks an answer, and the two that stop.         *)
(*                                                                         *)
(* The pipeline has one slot for the token of the current turn, one state  *)
(* and one sink, and nothing keeps two turns from running at once.  The    *)
(* transcriber ends when its audio channel closes; the audio's owner may   *)
(* end it (the tests do) or never (the desktop).  Audio is left out but    *)
(* for that, and so are partial transcripts, metrics and telemetry.        *)
(***************************************************************************)
EXTENDS Naturals, FiniteSets

CONSTANTS
    Speeches,     \* calls of voice_v2_speak; one that is over is used again
    Loop,         \* the turn of the listening loop
    NoTurn,
    Slots,        \* capacity of a playback session's channel, 4 in the code
    AudioEnds     \* whether the owner of the audio ever ends it

ASSUME VoiceConstants ==
    /\ Loop \notin Speeches /\ NoTurn \notin Speeches \cup {Loop}
    /\ IsFiniteSet(Speeches)
    /\ Slots \in Nat \ {0} /\ AudioEnds \in BOOLEAN

VARIABLES
    wanted,     \* voice_active
    loopAt,     \* the loop task: off, at its head, in a turn
    tokenSlot,  \* whose token turn_cancel holds
    cancelled,  \* the turns going on whose token is cancelled
    fsm,        \* VoiceSessionState
    vat,        \* where each turn stands
    tts,        \* where its speech task stands
    drain,      \* whether a task plays its session
    queue,      \* the chunks it has to play
    told,       \* the drains an abort has been sent to
    aborter,    \* force_abort: none going on, to abort the sink, to go to sleep
    newest,     \* history: the turn begun last, while it goes on
    aimed,      \* history: the turn the abort going on should end
    crossed     \* history: turns have run beside each other, or beside an abort

sink      == <<drain, queue, told>>
history   == <<newest, aimed, crossed>>
voiceVars == <<wanted, loopAt, tokenSlot, cancelled, fsm, vat, tts, sink, aborter, history>>

VTurns == Speeches \cup {Loop}
Live   == {t \in VTurns : vat[t] # "idle"}

VoiceTypeOK ==
    /\ wanted \in BOOLEAN /\ crossed \in BOOLEAN
    /\ loopAt \in {"off", "head", "turn"}
    /\ tokenSlot \in VTurns \cup {NoTurn} /\ {newest, aimed} \subseteq VTurns \cup {NoTurn}
    /\ cancelled \subseteq VTurns
    /\ fsm \in {"sleeping", "listening", "transcribing", "thinking", "speaking", "barge_in"}
    /\ vat \in [VTurns -> {"idle", "listen", "transcribe", "think", "speak", "wind"}]
    /\ tts \in [VTurns -> {"none", "begin", "next", "synth", "done"}]
    /\ drain \in [VTurns -> BOOLEAN]
    /\ queue \in [VTurns -> 0..Slots]
    /\ told \subseteq VTurns
    /\ aborter \in {"none", "sink", "sleep"}

VoiceInit ==
    /\ wanted = FALSE /\ crossed = FALSE /\ loopAt = "off"
    /\ tokenSlot = NoTurn /\ newest = NoTurn /\ aimed = NoTurn
    /\ cancelled = {} /\ told = {}
    /\ fsm = "sleeping" /\ aborter = "none"
    /\ vat = [t \in VTurns |-> "idle"]
    /\ tts = [t \in VTurns |-> "none"]
    /\ drain = [t \in VTurns |-> FALSE]
    /\ queue = [t \in VTurns |-> 0]

Moves(t, p) == vat' = [vat EXCEPT ![t] = p]
Says(t, p)  == tts' = [tts EXCEPT ![t] = p]

-----------------------------------------------------------------------------
\* A new turn: a new token takes the slot, whatever was there.
Enters(t) ==
    /\ vat[t] = "idle" /\ queue[t] = 0
    /\ newest' = t
    /\ aimed' = IF aimed = t THEN NoTurn ELSE aimed
    /\ crossed' = (Live # {} \/ aborter # "none")

\* start_voice, when no loop is left.
StartVoice ==
    /\ ~wanted /\ loopAt = "off"
    /\ wanted' = TRUE /\ loopAt' = "head"
    /\ UNCHANGED <<tokenSlot, cancelled, fsm, vat, tts, sink, aborter, history>>

\* A plausible slip: force_wake listens whatever the pipeline does.
WakeAlways ==
    /\ loopAt = "head" /\ wanted
    /\ loopAt' = "turn"
    /\ fsm' = "listening"
    /\ UNCHANGED <<wanted, tokenSlot, cancelled, vat, tts, sink, aborter, history>>

\* The head of the loop: force_wake from sleep, or the end.
Wake ==
    /\ loopAt = "head" /\ wanted
    /\ loopAt' = "turn"
    /\ fsm' = IF fsm = "sleeping" THEN "listening" ELSE fsm
    /\ UNCHANGED <<wanted, tokenSlot, cancelled, vat, tts, sink, aborter, history>>

LoopEnds ==
    /\ loopAt = "head" /\ ~wanted
    /\ loopAt' = "off"
    /\ UNCHANGED <<wanted, tokenSlot, cancelled, fsm, vat, tts, sink, aborter, history>>

\* run_turn.
Listen ==
    /\ loopAt = "turn" /\ Enters(Loop)
    /\ tokenSlot' = Loop
    /\ fsm' = "listening"
    /\ Moves(Loop, "listen")
    /\ UNCHANGED <<wanted, loopAt, cancelled, tts, sink, aborter>>

Transcribe ==
    /\ vat[Loop] = "listen"
    /\ fsm' = "transcribing"
    /\ Moves(Loop, "transcribe")
    /\ UNCHANGED <<wanted, loopAt, tokenSlot, cancelled, tts, sink, aborter, history>>

\* Back to the caller, or, after a short pause, to the head of its loop.  Its token stays in
\* the slot, where cancelling it does nothing any more.
Returns(t) ==
    /\ Moves(t, "idle")
    /\ loopAt' = IF t = Loop THEN "head" ELSE loopAt
    /\ crossed' = (crossed /\ Live # {t})
    /\ cancelled' = cancelled \ {t}
    /\ tokenSlot' = IF tokenSlot = t THEN NoTurn ELSE tokenSlot
    /\ newest' = IF newest = t THEN NoTurn ELSE newest
    /\ UNCHANGED aimed

CancelledEarly ==
    /\ vat[Loop] = "transcribe" /\ Loop \in cancelled
    /\ Returns(Loop)
    /\ fsm' = "sleeping"
    /\ UNCHANGED <<wanted, tts, sink, aborter>>

\* The audio ends and the transcriber answers, or fails and leaves the state as it is.
Transcribed ==
    /\ AudioEnds /\ vat[Loop] = "transcribe" /\ Loop \notin cancelled
    /\ \/ fsm' = "thinking" /\ Moves(Loop, "think")
          /\ UNCHANGED <<loopAt, tokenSlot, cancelled, history>>
       \/ Returns(Loop) /\ UNCHANGED fsm
    /\ UNCHANGED <<wanted, tts, sink, aborter>>

\* run_speak_turn, with a prompt in place of the transcript.
SpeakAs(s, token) ==
    /\ Enters(s)
    /\ tokenSlot' = token
    /\ fsm' = "thinking"
    /\ Moves(s, "think")
    /\ UNCHANGED <<wanted, loopAt, cancelled, tts, sink, aborter>>

\* A plausible slip: only run_turn stores its token.
SpeakUncancellable(s) == SpeakAs(s, tokenSlot)

Speak(s) == SpeakAs(s, s)

\* The model's stream is opened, cancelled or not, and the speech task spawned.
Open(t) ==
    /\ vat[t] = "think"
    /\ fsm' = "speaking"
    /\ Moves(t, "speak") /\ Says(t, "begin")
    /\ UNCHANGED <<wanted, loopAt, tokenSlot, cancelled, sink, aborter, history>>

-----------------------------------------------------------------------------
Closes(t) ==
    /\ drain' = [drain EXCEPT ![t] = FALSE]
    /\ queue' = [queue EXCEPT ![t] = 0]
    /\ told' = told \ {t}

\* The speech task: begin_session, then sentence by sentence.  The session lowers the abort
\* flag all drains share, so that one that was told but is still playing misses it.  The sink
\* keeps a sender of the newest session, so that its drain idles on; a drain with nothing
\* more to come is left out.
BeginSession(t) ==
    /\ tts[t] = "begin"
    /\ Says(t, "next")
    /\ drain' = [drain EXCEPT ![t] = TRUE]
    /\ queue' = [queue EXCEPT ![t] = 0]
    /\ told' = {}
    /\ UNCHANGED <<wanted, loopAt, tokenSlot, cancelled, fsm, vat, aborter, history>>

\* The model may fall silent: nothing makes this step happen.
Sentence(t) ==
    /\ tts[t] = "next" /\ t \notin cancelled
    /\ Says(t, "synth") \/ Says(t, "done")
    /\ UNCHANGED <<wanted, loopAt, tokenSlot, cancelled, fsm, vat, sink, aborter, history>>

SpeechCancelled(t) ==
    /\ tts[t] = "next" /\ t \in cancelled
    /\ Says(t, "done")
    /\ UNCHANGED <<wanted, loopAt, tokenSlot, cancelled, fsm, vat, sink, aborter, history>>

\* The sentence is synthesized and its samples queued (a session that is closed swallows
\* them), even when the cancel falls between the two; or it is given up, or fails.
Synthesized(t) ==
    /\ tts[t] = "synth"
    /\ \/ /\ Says(t, "next")
          /\ \/ ~drain[t] /\ UNCHANGED queue
             \/ drain[t] /\ queue[t] < Slots /\ queue' = [queue EXCEPT ![t] = @ + 1]
       \/ t \in cancelled /\ Says(t, "next") /\ UNCHANGED queue
       \/ Says(t, "done") /\ UNCHANGED queue
    /\ UNCHANGED <<wanted, loopAt, tokenSlot, cancelled, fsm, vat, drain, told, aborter, history>>

\* The drain: an abort first, then the next chunk, which leaves the queue when it has been
\* played.
Drain(t) ==
    /\ drain[t]
    /\ \/ t \in told /\ Closes(t)
       \/ t \notin told /\ queue[t] > 0
          /\ queue' = [queue EXCEPT ![t] = @ - 1]
          /\ UNCHANGED <<drain, told>>
       \/ t \notin told /\ queue[t] = 0 /\ tts[t] \in {"none", "done"} /\ Closes(t)
    /\ UNCHANGED <<wanted, loopAt, tokenSlot, cancelled, fsm, vat, tts, aborter, history>>

\* PlaybackSink::abort: every drain hears it, not only that of the turn meant.
AbortSink ==
    /\ told' = {t \in VTurns : drain[t]}
    /\ UNCHANGED <<drain, queue>>

-----------------------------------------------------------------------------
\* The turn waits for its speech, or is cancelled, and then not for long.
Spoken(t) ==
    /\ vat[t] = "speak" /\ tts[t] = "done" /\ t \notin cancelled
    /\ Returns(t)
    /\ Says(t, "none")
    /\ fsm' = "sleeping"
    /\ UNCHANGED <<wanted, sink, aborter>>

BargeIn(t) ==
    /\ vat[t] = "speak" /\ t \in cancelled
    /\ Moves(t, "wind")
    /\ fsm' = "barge_in"
    /\ AbortSink
    /\ UNCHANGED <<wanted, loopAt, tokenSlot, cancelled, tts, aborter, history>>

WoundDown(t) ==
    /\ vat[t] = "wind"
    /\ Returns(t)
    /\ Says(t, "none")
    /\ fsm' = "sleeping"
    /\ UNCHANGED <<wanted, sink, aborter>>

\* force_abort, by voice_v2_abort or by stop_voice: the token in the slot is cancelled,
\* the sink aborted, the state set, each after a wait for a lock.
AbortToken(stop) ==
    /\ aborter = "none"
    /\ wanted' = (wanted /\ ~stop)
    /\ cancelled' = cancelled \cup ({tokenSlot} \cap Live)
    /\ aimed' = newest
    /\ aborter' = "sink"
    /\ UNCHANGED <<loopAt, tokenSlot, fsm, vat, tts, sink, newest, crossed>>

AbortPlayback ==
    /\ aborter = "sink"
    /\ AbortSink
    /\ aborter' = "sleep"
    /\ UNCHANGED <<wanted, loopAt, tokenSlot, cancelled, fsm, vat, tts, history>>

AbortSleeps ==
    /\ aborter = "sleep"
    /\ fsm' = "sleeping"
    /\ aborter' = "none"
    /\ aimed' = NoTurn
    /\ UNCHANGED <<wanted, loopAt, tokenSlot, cancelled, vat, tts, sink, newest, crossed>>

-----------------------------------------------------------------------------
TurnStep(t) ==
    \/ Open(t) \/ BeginSession(t) \/ SpeechCancelled(t) \/ Synthesized(t)
    \/ Spoken(t) \/ BargeIn(t) \/ WoundDown(t)

LoopStep == Wake \/ LoopEnds \/ Listen \/ Transcribe \/ CancelledEarly

VoiceNext ==
    \/ StartVoice \/ LoopStep \/ Transcribed
    \/ \E s \in Speeches : Speak(s)
    \/ \E t \in VTurns : TurnStep(t) \/ Sentence(t) \/ Drain(t)
    \/ \E stop \in BOOLEAN : AbortToken(stop)
    \/ AbortPlayback \/ AbortSleeps

VoiceSpec == VoiceInit /\ [][VoiceNext]_voiceVars

\* Tasks run, locks are released, a chunk is played to its end and the timers fire; the
\* model may never send its next token, and the audio may never end.
VoiceFairness ==
    /\ \A t \in VTurns : WF_voiceVars(TurnStep(t)) /\ WF_voiceVars(Drain(t))
    /\ WF_voiceVars(LoopStep)
    /\ WF_voiceVars(AbortPlayback \/ AbortSleeps)

VoiceFair == VoiceSpec /\ VoiceFairness

-----------------------------------------------------------------------------
\* The microphone is gated by the state alone: while a turn speaks that was not
\* cancelled and has run by itself, the state says so.
GateHolds ==
    ~crossed => \A t \in VTurns : vat[t] = "speak" /\ t \notin cancelled => fsm = "speaking"

\* An abort ends the turn begun last, even if its model never says another word, and its
\* speech falls silent.
AbortSettles ==
    \A t \in VTurns : aimed = t ~> vat[t] = "idle" /\ queue[t] = 0

\* "stop_voice signals it to exit via voice_active = false + force_abort"
\* (commands.rs:1953): once stopped, the listening loop ends.
StopEndsLoop == ~wanted ~> loopAt = "off" \/ wanted
=============================================================================
