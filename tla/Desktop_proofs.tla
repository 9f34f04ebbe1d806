---------------------------- MODULE Desktop_proofs ----------------------------
(***************************************************************************)
(* Theorems about the desktop's side: TurnConsumer, for every finite set   *)
(* of turns, VoiceTurns, for every number of speeches, GpuWatchdog, for    *)
(* every card, set of thresholds, dwells and budgets, and LocalChat, for   *)
(* every number of callers, threshold and number of attempts.              *)
(*                                                                         *)
(* The count of turns is the number of consumers between the start of the  *)
(* run and its end (Counts), so a monitor that saw it at zero knows of all *)
(* turns but those counted since (Watched).                                *)
(***************************************************************************)
EXTENDS TurnConsumer, VoiceTurns, GpuWatchdog, LocalChat, FiniteSetTheorems, TLAPS

Counts == count = Cardinality(Counted)

Watched == monitor = "sure" => Counted \subseteq late

\* What the first run did shows: its tokens in the text, its tools in the count.
Traces ==
    \A t \in Turns :
        /\ "token" \in did[t] => shown[t] # "none"
        /\ "tool" \in did[t] => good[t]
        /\ stage[t] = "recover" => kind[t] = "chat" /\ did[t] = {}
        /\ stage[t] \in {"idle", "prep", "ready", "recover"} => run[t] = 0

ConsumerInv == ConsumerTypeOK /\ Counts /\ Watched /\ Traces /\ RetryIsClean

\* The set of counted turns is finite and its size a number.
LEMMA CountedFinite == IsFiniteSet(Counted) /\ Cardinality(Counted) \in Nat
  <1>1. Counted \subseteq Turns  BY DEF Counted
  <1> QED  BY <1>1, ConsumerConstants, FS_Subset, FS_CardinalityType

\* Initially no turn goes on.
LEMMA ConsumerInitInv == ConsumerInit => ConsumerInv
  <1> SUFFICES ASSUME ConsumerInit PROVE ConsumerInv  OBVIOUS
  <1>1. ConsumerTypeOK
    <2>1. /\ good \in [Turns -> BOOLEAN] /\ retried \in [Turns -> BOOLEAN] /\ quiet \in BOOLEAN
          /\ live \in BOOLEAN /\ did \in [Turns -> SUBSET {"token", "tool"}]
      BY Zenon DEF ConsumerInit
    <2>2. /\ stage \in [Turns -> {"idle", "prep", "ready", "live", "recover", "closing", "left"}]
          /\ kind \in [Turns -> TurnKinds] /\ run \in [Turns -> 0..2] /\ count \in Nat
          /\ shown \in [Turns -> {"none", "tokens", "final", "fallback", "error", "timeout"}]
          /\ monitor \in {"asleep", "sure"} /\ late \subseteq Turns
      BY DEF ConsumerInit, TurnKinds
    <2> QED  BY <2>1, <2>2 DEF ConsumerTypeOK
  <1>2. Counted = {}
    BY DEF ConsumerInit, Counted
  <1>3. Counts
    BY <1>2, FS_EmptySet DEF ConsumerInit, Counts
  <1>4. Watched /\ Traces /\ RetryIsClean
    BY DEF ConsumerInit, Watched, Traces, RetryIsClean
  <1> QED  BY <1>1, <1>3, <1>4 DEF ConsumerInv

\* A step of one turn that keeps it on the right side of the count leaves the count right.
LEMMA SameCount ==
    ASSUME ConsumerInv, NEW t \in Turns, stage' = [stage EXCEPT ![t] = stage'[t]],
           (stage[t] \in {"live", "recover", "closing"}) <=> (stage'[t] \in {"live", "recover", "closing"}),
           UNCHANGED <<count, monitor, late>>
    PROVE  Counts' /\ Watched'
  <1>1. Counted' = Counted
    BY DEF ConsumerInv, ConsumerTypeOK, Counted
  <1> QED  BY <1>1 DEF ConsumerInv, Counts, Watched

\* Begin and MakeReady: before the turn is counted.
LEMMA BeginInv == ASSUME ConsumerInv, NEW t \in Turns, NEW k \in TurnKinds, Begin(t, k) PROVE ConsumerInv'
  <1>1. ConsumerTypeOK'
    BY DEF ConsumerInv, ConsumerTypeOK, Begin, Goes
  <1>2. Counts' /\ Watched'
    BY SameCount DEF ConsumerInv, ConsumerTypeOK, Begin, Goes
  <1>3. Traces' /\ RetryIsClean'
    BY DEF ConsumerInv, ConsumerTypeOK, Traces, RetryIsClean, Begin, Goes
  <1> QED  BY <1>1, <1>2, <1>3 DEF ConsumerInv

\* The server is made ready or the turn refused.
LEMMA MakeReadyInv == ASSUME ConsumerInv, NEW t \in Turns, MakeReady(t) PROVE ConsumerInv'
  <1>1. ConsumerTypeOK'
    BY DEF ConsumerInv, ConsumerTypeOK, MakeReady, Goes, TurnKinds
  <1>2. Counts' /\ Watched'
    BY SameCount DEF ConsumerInv, ConsumerTypeOK, MakeReady, Goes
  <1>3. Traces' /\ RetryIsClean'
    BY DEF ConsumerInv, ConsumerTypeOK, Traces, RetryIsClean, MakeReady, Goes
  <1> QED  BY <1>1, <1>2, <1>3 DEF ConsumerInv

\* The turn is counted, and late for a monitor that has looked.
LEMMA CountAndRunInv == ASSUME ConsumerInv, NEW t \in Turns, CountAndRun(t) PROVE ConsumerInv'
  <1>1. ConsumerTypeOK'
    BY DEF ConsumerInv, ConsumerTypeOK, CountAndRun, Goes
  <1>2. Counted' = Counted \cup {t} /\ t \notin Counted
    BY DEF ConsumerInv, ConsumerTypeOK, CountAndRun, Goes, Counted
  <1>3. Cardinality(Counted') = Cardinality(Counted) + 1
    BY <1>2, CountedFinite, FS_AddElement
  <1>4. Counts'
    BY <1>3 DEF ConsumerInv, Counts, CountAndRun
  <1>5. Watched'
    BY <1>2 DEF ConsumerInv, Watched, CountAndRun
  <1>6. Traces' /\ RetryIsClean'
    BY DEF ConsumerInv, ConsumerTypeOK, Traces, RetryIsClean, CountAndRun, Goes
  <1> QED  BY <1>1, <1>4, <1>5, <1>6 DEF ConsumerInv

\* Output of a run leaves its trace.
LEMMA OutputInv == ASSUME ConsumerInv, NEW t \in Turns, Token(t) \/ ToolSucceeds(t) PROVE ConsumerInv'
  <1>1. ConsumerTypeOK'
    <2>1. CASE Token(t)
      BY <2>1 DEF ConsumerInv, ConsumerTypeOK, Token, Acts, Shows
    <2>2. CASE ToolSucceeds(t)
      BY <2>2 DEF ConsumerInv, ConsumerTypeOK, ToolSucceeds, Acts
    <2> QED  BY <2>1, <2>2
  <1>2. Counts' /\ Watched'
    BY DEF ConsumerInv, Counts, Watched, Counted, Token, ToolSucceeds
  <1>3. CASE Token(t)
    BY <1>1, <1>2, <1>3 DEF ConsumerInv, ConsumerTypeOK, Traces, RetryIsClean, Token, Hears, Acts, Shows
  <1>4. CASE ToolSucceeds(t)
    BY <1>1, <1>2, <1>4 DEF ConsumerInv, ConsumerTypeOK, Traces, RetryIsClean, ToolSucceeds, Hears, Acts
  <1> QED  BY <1>3, <1>4

\* The ends of a run: an error of the transport is retried only without a trace.
LEMMA RunEndsInv ==
    ASSUME ConsumerInv, NEW t \in Turns, RunDone(t) \/ OtherError(t) \/ TransportError(t)
    PROVE  ConsumerInv'
  <1>1. CASE RunDone(t)
    <2>1. ConsumerTypeOK'
      BY <1>1 DEF ConsumerInv, ConsumerTypeOK, RunDone, Hears, Goes, RunOver, Shows
    <2>2. Counts' /\ Watched'
      BY <1>1, SameCount DEF ConsumerInv, ConsumerTypeOK, RunDone, Hears, Goes
    <2>3. Traces' /\ RetryIsClean'
      BY <1>1 DEF ConsumerInv, ConsumerTypeOK, Traces, RetryIsClean, RunDone, Hears, Goes, RunOver, Shows
    <2> QED  BY <2>1, <2>2, <2>3 DEF ConsumerInv
  <1>2. CASE OtherError(t)
    <2>1. ConsumerTypeOK'
      BY <1>2 DEF ConsumerInv, ConsumerTypeOK, OtherError, Hears, Goes, RunOver, Shows
    <2>2. Counts' /\ Watched'
      BY <1>2, SameCount DEF ConsumerInv, ConsumerTypeOK, OtherError, Hears, Goes
    <2>3. Traces' /\ RetryIsClean'
      BY <1>2 DEF ConsumerInv, ConsumerTypeOK, Traces, RetryIsClean, OtherError, Hears, Goes, RunOver, Shows
    <2> QED  BY <2>1, <2>2, <2>3 DEF ConsumerInv
  <1>3. CASE TransportError(t) /\ Retriable(t)
    <2>0. /\ stage[t] = "live" /\ run' = [run EXCEPT ![t] = 0] /\ stage' = [stage EXCEPT ![t] = "recover"]
          /\ retried' = [retried EXCEPT ![t] = TRUE] /\ kind[t] = "chat" /\ did[t] = {}
          /\ UNCHANGED <<shown, kind, good, did, count, quiet, live, monitor, late>>
      BY <1>3 DEF ConsumerInv, ConsumerTypeOK, Traces, TransportError, Retriable, Hears, Goes, RunOver
    <2>1. ConsumerTypeOK'
      BY <2>0 DEF ConsumerInv, ConsumerTypeOK
    <2>2. Counts' /\ Watched'
      BY <2>0, SameCount DEF ConsumerInv, ConsumerTypeOK
    <2>3. Traces' /\ RetryIsClean'
      BY <2>0 DEF ConsumerInv, ConsumerTypeOK, Traces, RetryIsClean
    <2> QED  BY <2>1, <2>2, <2>3 DEF ConsumerInv
  <1>4. CASE TransportError(t) /\ ~Retriable(t)
    <2>0. /\ stage[t] = "live" /\ run' = [run EXCEPT ![t] = 0] /\ stage' = [stage EXCEPT ![t] = "closing"]
          /\ UNCHANGED <<retried, kind, good, did, count, quiet, live, monitor, late>>
          /\ \E s \in {"fallback", "error"} : Shows(t, s) \/ UNCHANGED shown
      BY <1>4, Zenon DEF TransportError, Hears, Goes, RunOver
    <2>1. ConsumerTypeOK'
      BY <2>0 DEF ConsumerInv, ConsumerTypeOK, Shows
    <2>2. Counts' /\ Watched'
      BY <2>0, SameCount DEF ConsumerInv, ConsumerTypeOK
    <2>3. Traces' /\ RetryIsClean'
      BY <2>0 DEF ConsumerInv, ConsumerTypeOK, Traces, RetryIsClean, Shows
    <2> QED  BY <2>1, <2>2, <2>3 DEF ConsumerInv
  <1> QED  BY <1>1, <1>2, <1>3, <1>4

\* The second run begins without a trace of the first.
LEMMA RecoverInv == ASSUME ConsumerInv, NEW t \in Turns, Recover(t) PROVE ConsumerInv'
  <1>1. ConsumerTypeOK'
    <2>1. /\ stage' \in [Turns -> {"idle", "prep", "ready", "live", "recover", "closing", "left"}]
          /\ run' \in [Turns -> 0..2]
          /\ shown' \in [Turns -> {"none", "tokens", "final", "fallback", "error", "timeout"}]
      BY DEF ConsumerInv, ConsumerTypeOK, Recover, Goes, Shows
    <2>2. live' \in BOOLEAN
      BY Zenon DEF ConsumerInv, ConsumerTypeOK, Recover
    <2> QED  BY <2>1, <2>2 DEF ConsumerInv, ConsumerTypeOK, Recover
  <1>2. Counts' /\ Watched'
    BY SameCount DEF ConsumerInv, ConsumerTypeOK, Recover, Goes
  <1>3. Traces' /\ RetryIsClean'
    BY DEF ConsumerInv, ConsumerTypeOK, Traces, RetryIsClean, Recover, Goes, Shows
  <1> QED  BY <1>1, <1>2, <1>3 DEF ConsumerInv

\* The consumer gives up; the run goes on.
LEMMA TimeOutInv == ASSUME ConsumerInv, NEW t \in Turns, TimeOut(t) PROVE ConsumerInv'
  <1>1. ConsumerTypeOK'
    BY DEF ConsumerInv, ConsumerTypeOK, TimeOut, Goes
  <1>2. Counts' /\ Watched'
    BY SameCount DEF ConsumerInv, ConsumerTypeOK, TimeOut, Goes
  <1>3. Traces' /\ RetryIsClean'
    BY DEF ConsumerInv, ConsumerTypeOK, Traces, RetryIsClean, TimeOut, Goes
  <1> QED  BY <1>1, <1>2, <1>3 DEF ConsumerInv

\* The turn is no longer counted.
LEMMA FinishInv == ASSUME ConsumerInv, NEW t \in Turns, Finish(t) PROVE ConsumerInv'
  <1>1. Counted' = Counted \ {t} /\ t \in Counted
    BY DEF ConsumerInv, ConsumerTypeOK, Finish, Goes, Counted
  <1>2. Cardinality(Counted') = Cardinality(Counted) - 1
    BY <1>1, CountedFinite, FS_RemoveElement
  <1>3. IsFiniteSet(Counted') /\ Cardinality(Counted') \in Nat
    BY <1>1, CountedFinite, FS_RemoveElement, FS_CardinalityType
  <1>4. Counts' /\ count' \in Nat
    BY <1>2, <1>3 DEF ConsumerInv, Counts, Finish
  <1>5. ConsumerTypeOK'
    BY <1>4 DEF ConsumerInv, ConsumerTypeOK, Finish, Goes, Forgets, TurnKinds
  <1>6. Watched'
    BY <1>1 DEF ConsumerInv, Watched, Finish
  <1>7. Traces' /\ RetryIsClean'
    BY DEF ConsumerInv, ConsumerTypeOK, Traces, RetryIsClean, Finish, Goes, Forgets
  <1> QED  BY <1>4, <1>5, <1>6, <1>7 DEF ConsumerInv

\* A run that nobody hears ends.
LEMMA RunEndsUnheardInv == ASSUME ConsumerInv, NEW t \in Turns, RunEndsUnheard(t) PROVE ConsumerInv'
  <1>1. ConsumerTypeOK'
    BY DEF ConsumerInv, ConsumerTypeOK, RunEndsUnheard, Goes, RunOver
  <1>2. Counts' /\ Watched'
    BY SameCount DEF ConsumerInv, ConsumerTypeOK, RunEndsUnheard, Goes
  <1>3. Traces' /\ RetryIsClean'
    BY DEF ConsumerInv, ConsumerTypeOK, Traces, RetryIsClean, RunEndsUnheard, Goes, RunOver
  <1> QED  BY <1>1, <1>2, <1>3 DEF ConsumerInv

\* The monitor and the clock: a count of zero means that no turn is counted.
LEMMA MonitorInv == ASSUME ConsumerInv, Quiets \/ MonitorChecks \/ MonitorReleases PROVE ConsumerInv'
  <1>1. ConsumerTypeOK'
    BY DEF ConsumerInv, ConsumerTypeOK, Quiets, MonitorChecks, MonitorReleases, turnSide
  <1>2. Counts' /\ Traces' /\ RetryIsClean'
    BY DEF ConsumerInv, Counts, Counted, Traces, RetryIsClean, Quiets, MonitorChecks, MonitorReleases, turnSide
  <1>3. Watched'
    <2>1. CASE Quiets
      BY <2>1 DEF ConsumerInv, Watched, Counted, Quiets, turnSide
    <2>2. CASE MonitorChecks
      <3>1. Cardinality(Counted) = 0
        BY <2>2 DEF ConsumerInv, Counts, MonitorChecks
      <3>2. Counted = {}
        BY <3>1, CountedFinite, FS_EmptySet
      <3> QED  BY <3>2, <2>2 DEF Watched, Counted, MonitorChecks, turnSide
    <2>3. CASE MonitorReleases
      BY <2>3 DEF Watched, MonitorReleases
    <2> QED  BY <2>1, <2>2, <2>3
  <1> QED  BY <1>1, <1>2, <1>3 DEF ConsumerInv

\* Every step keeps the invariant.
LEMMA ConsumerNextInv == ConsumerInv /\ [ConsumerNext]_consumerVars => ConsumerInv'
  <1> SUFFICES ASSUME ConsumerInv, [ConsumerNext]_consumerVars PROVE ConsumerInv'  OBVIOUS
  <1>1. CASE UNCHANGED consumerVars
    BY <1>1 DEF ConsumerInv, ConsumerTypeOK, Counts, Counted, Watched, Traces, RetryIsClean, consumerVars, turnSide
  <1>2. ASSUME NEW t \in Turns,
               \/ \E k \in TurnKinds : Begin(t, k)
               \/ Consume(t)
               \/ Token(t) \/ ToolSucceeds(t) \/ RunDone(t) \/ OtherError(t)
               \/ TransportError(t) \/ RunEndsUnheard(t)
        PROVE  ConsumerInv'
    BY <1>2, BeginInv, MakeReadyInv, CountAndRunInv, OutputInv, RunEndsInv, RecoverInv, TimeOutInv,
       FinishInv, RunEndsUnheardInv DEF Consume
  <1> QED  BY <1>1, <1>2, MonitorInv DEF ConsumerNext

\* Every reachable state of TurnConsumer satisfies its invariant.
LEMMA ConsumerInvariant == ConsumerSpec => []ConsumerInv
  BY ConsumerInitInv, ConsumerNextInv, PTL DEF ConsumerSpec

\* The variables of TurnConsumer keep their types; the count of turns does not go below
\* zero.
THEOREM ConsumerTypeCorrect == ConsumerSpec => []ConsumerTypeOK
  <1>1. ConsumerInv => ConsumerTypeOK  BY DEF ConsumerInv
  <1> QED  BY <1>1, ConsumerInvariant, PTL

\* A run is repeated only when the first showed nothing and changed nothing
\* (commands.rs, the recovery of a chat turn).
THEOREM RetriesAreClean == ConsumerSpec => []RetryIsClean
  <1>1. ConsumerInv => RetryIsClean  BY DEF ConsumerInv
  <1> QED  BY <1>1, ConsumerInvariant, PTL

\* The idle monitor takes the server from no turn it could have seen (commands.rs, the
\* monitor and orchestrator_active_turns).
THEOREM ReleasesSpareTurns == ConsumerSpec => ReleaseSparesTurns
  <1>1. ConsumerInv /\ [ConsumerNext]_consumerVars =>
            [MonitorReleases => \A t \in Turns : run[t] # 0 => stage[t] # "live" \/ t \in late]_consumerVars
    BY DEF ConsumerInv, Watched, Counted, MonitorReleases
  <1> QED  BY <1>1, ConsumerInvariant, PTL DEF ConsumerSpec, ReleaseSparesTurns

-----------------------------------------------------------------------------
(***************************************************************************)
(* VoiceTurns.  A turn that nobody crossed is the only one, its token is   *)
(* in the slot, and an abort that goes on has cancelled it.                *)
(***************************************************************************)
Alone ==
    ~crossed =>
        /\ \A t, u \in VTurns : vat[t] # "idle" /\ vat[u] # "idle" => t = u
        /\ \A t \in VTurns : vat[t] # "idle" =>
              tokenSlot = t /\ (aborter # "none" => t \in cancelled)

VoiceInv == VoiceTypeOK /\ Alone /\ GateHolds

\* Initially no turn goes on.
LEMMA VoiceInitInv == VoiceInit => VoiceInv
  <1> SUFFICES ASSUME VoiceInit PROVE VoiceInv  OBVIOUS
  <1>1. drain \in [VTurns -> BOOLEAN] /\ wanted \in BOOLEAN /\ crossed \in BOOLEAN
    BY Zenon DEF VoiceInit
  <1>2. VoiceTypeOK
    BY <1>1, VoiceConstants DEF VoiceInit, VoiceTypeOK
  <1>3. Alone /\ GateHolds
    BY DEF VoiceInit, Alone, GateHolds
  <1> QED  BY <1>2, <1>3 DEF VoiceInv

\* The loop begins.
LEMMA StartVoiceInv == ASSUME VoiceInv, StartVoice PROVE VoiceInv'
  <1>1. VoiceTypeOK'
    BY VoiceConstants DEF VoiceInv, VoiceTypeOK, VTurns, history, sink, StartVoice
  <1>2. Alone'
    BY VoiceConstants DEF VoiceInv, VoiceTypeOK, Alone, Live, VTurns, history, sink, StartVoice
  <1>3. GateHolds'
    BY VoiceConstants DEF VoiceInv, VoiceTypeOK, Alone, GateHolds, Live, VTurns, history, sink, StartVoice
  <1> QED  BY <1>1, <1>2, <1>3 DEF VoiceInv

\* The loop listens only from sleep.
LEMMA WakeInv == ASSUME VoiceInv, Wake PROVE VoiceInv'
  <1>1. VoiceTypeOK'
    BY VoiceConstants DEF VoiceInv, VoiceTypeOK, VTurns, history, sink, Wake
  <1>2. Alone'
    BY VoiceConstants DEF VoiceInv, VoiceTypeOK, Alone, Live, VTurns, history, sink, Wake
  <1>3. GateHolds'
    BY VoiceConstants DEF VoiceInv, VoiceTypeOK, Alone, GateHolds, Live, VTurns, history, sink, Wake
  <1> QED  BY <1>1, <1>2, <1>3 DEF VoiceInv

\* The loop ends.
LEMMA LoopEndsInv == ASSUME VoiceInv, LoopEnds PROVE VoiceInv'
  <1>1. VoiceTypeOK'
    BY VoiceConstants DEF VoiceInv, VoiceTypeOK, VTurns, history, sink, LoopEnds
  <1>2. Alone'
    BY VoiceConstants DEF VoiceInv, VoiceTypeOK, Alone, Live, VTurns, history, sink, LoopEnds
  <1>3. GateHolds'
    BY VoiceConstants DEF VoiceInv, VoiceTypeOK, Alone, GateHolds, Live, VTurns, history, sink, LoopEnds
  <1> QED  BY <1>1, <1>2, <1>3 DEF VoiceInv

\* A listening turn begins, alone or crossing another.
LEMMA ListenInv == ASSUME VoiceInv, Listen PROVE VoiceInv'
  <1>1. VoiceTypeOK'
    BY VoiceConstants DEF VoiceInv, VoiceTypeOK, VTurns, history, sink, Listen, Enters, Moves
  <1>2. Alone'
    BY VoiceConstants DEF VoiceInv, VoiceTypeOK, Alone, Live, VTurns, history, sink, Listen, Enters, Moves
  <1>3. GateHolds'
    BY VoiceConstants DEF VoiceInv, VoiceTypeOK, Alone, GateHolds, Live, VTurns, history, sink, Listen, Enters, Moves
  <1> QED  BY <1>1, <1>2, <1>3 DEF VoiceInv

\* It goes on to the transcriber.
LEMMA TranscribeInv == ASSUME VoiceInv, Transcribe PROVE VoiceInv'
  <1>1. VoiceTypeOK'
    BY VoiceConstants DEF VoiceInv, VoiceTypeOK, VTurns, history, sink, Transcribe, Moves
  <1>2. Alone'
    BY VoiceConstants DEF VoiceInv, VoiceTypeOK, Alone, Live, VTurns, history, sink, Transcribe, Moves
  <1>3. GateHolds'
    BY VoiceConstants DEF VoiceInv, VoiceTypeOK, Alone, GateHolds, Live, VTurns, history, sink, Transcribe, Moves
  <1> QED  BY <1>1, <1>2, <1>3 DEF VoiceInv

\* It was cancelled there.
LEMMA CancelledEarlyInv == ASSUME VoiceInv, CancelledEarly PROVE VoiceInv'
  <1>1. VoiceTypeOK'
    BY VoiceConstants DEF VoiceInv, VoiceTypeOK, VTurns, history, sink, CancelledEarly, Returns, Moves
  <1>2. Alone'
    BY VoiceConstants DEF VoiceInv, VoiceTypeOK, Alone, Live, VTurns, history, sink, CancelledEarly, Returns, Moves
  <1>3. GateHolds'
    BY VoiceConstants DEF VoiceInv, VoiceTypeOK, Alone, GateHolds, Live, VTurns, history, sink, CancelledEarly, Returns, Moves
  <1> QED  BY <1>1, <1>2, <1>3 DEF VoiceInv

\* The transcriber has answered.
LEMMA TranscribedInv == ASSUME VoiceInv, Transcribed PROVE VoiceInv'
  <1>1. VoiceTypeOK'
    <2>1. crossed' \in BOOLEAN
      BY Zenon DEF VoiceInv, VoiceTypeOK, history, Transcribed, Returns
    <2>2. wanted' \in BOOLEAN /\ drain' \in [VTurns -> BOOLEAN] /\ queue' \in [VTurns -> 0..Slots]
      BY Zenon DEF VoiceInv, VoiceTypeOK, sink, Transcribed
    <2>3. vat' \in [VTurns -> {"idle", "listen", "transcribe", "think", "speak", "wind"}]
      BY DEF VoiceInv, VoiceTypeOK, Transcribed, Returns, Moves
    <2>4. CASE fsm' = "thinking" /\ UNCHANGED <<loopAt, tokenSlot, cancelled, history>>
      BY <2>1, <2>2, <2>3, <2>4 DEF VoiceInv, VoiceTypeOK, history, sink, Transcribed
    <2>5. CASE Returns(Loop) /\ UNCHANGED fsm
      BY <2>1, <2>2, <2>3, <2>5 DEF VoiceInv, VoiceTypeOK, sink, Transcribed, Returns
    <2> QED  BY <2>4, <2>5 DEF Transcribed
  <1>2. Alone'
    BY VoiceConstants DEF VoiceInv, VoiceTypeOK, Alone, Live, VTurns, history, sink, Transcribed, Returns, Moves
  <1>3. GateHolds'
    BY VoiceConstants DEF VoiceInv, VoiceTypeOK, Alone, GateHolds, Live, VTurns, history, sink, Transcribed, Returns, Moves
  <1> QED  BY <1>1, <1>2, <1>3 DEF VoiceInv

\* A speaking turn begins, alone or crossing another.
LEMMA SpeakInv == ASSUME VoiceInv, NEW s \in Speeches, Speak(s) PROVE VoiceInv'
  <1>1. VoiceTypeOK'
    BY VoiceConstants DEF VoiceInv, VoiceTypeOK, VTurns, history, sink, Speak, SpeakAs, Enters, Moves
  <1>2. Alone'
    BY VoiceConstants DEF VoiceInv, VoiceTypeOK, Alone, Live, VTurns, history, sink, Speak, SpeakAs, Enters, Moves
  <1>3. GateHolds'
    BY VoiceConstants DEF VoiceInv, VoiceTypeOK, Alone, GateHolds, Live, VTurns, history, sink, Speak, SpeakAs, Enters, Moves
  <1> QED  BY <1>1, <1>2, <1>3 DEF VoiceInv

\* The turn speaks, and the state says so.
LEMMA OpenInv == ASSUME VoiceInv, NEW t \in VTurns, Open(t) PROVE VoiceInv'
  <1>1. VoiceTypeOK'
    BY VoiceConstants DEF VoiceInv, VoiceTypeOK, VTurns, history, sink, Open, Moves, Says
  <1>2. Alone'
    BY VoiceConstants DEF VoiceInv, VoiceTypeOK, Alone, Live, VTurns, history, sink, Open, Moves, Says
  <1>3. GateHolds'
    BY VoiceConstants DEF VoiceInv, VoiceTypeOK, Alone, GateHolds, Live, VTurns, history, sink, Open, Moves, Says
  <1> QED  BY <1>1, <1>2, <1>3 DEF VoiceInv

\* Its speech opens a session.
LEMMA BeginSessionInv == ASSUME VoiceInv, NEW t \in VTurns, BeginSession(t) PROVE VoiceInv'
  <1>1. VoiceTypeOK'
    BY VoiceConstants DEF VoiceInv, VoiceTypeOK, VTurns, history, sink, BeginSession, Says
  <1>2. Alone'
    BY VoiceConstants DEF VoiceInv, VoiceTypeOK, Alone, Live, VTurns, history, sink, BeginSession, Says
  <1>3. GateHolds'
    BY VoiceConstants DEF VoiceInv, VoiceTypeOK, Alone, GateHolds, Live, VTurns, history, sink, BeginSession, Says
  <1> QED  BY <1>1, <1>2, <1>3 DEF VoiceInv

\* A sentence is there.
LEMMA SentenceInv == ASSUME VoiceInv, NEW t \in VTurns, Sentence(t) PROVE VoiceInv'
  <1>1. VoiceTypeOK'
    BY VoiceConstants DEF VoiceInv, VoiceTypeOK, VTurns, history, sink, Sentence, Says
  <1>2. Alone'
    BY VoiceConstants DEF VoiceInv, VoiceTypeOK, Alone, Live, VTurns, history, sink, Sentence, Says
  <1>3. GateHolds'
    BY VoiceConstants DEF VoiceInv, VoiceTypeOK, Alone, GateHolds, Live, VTurns, history, sink, Sentence, Says
  <1> QED  BY <1>1, <1>2, <1>3 DEF VoiceInv

\* The speech hears of the cancel.
LEMMA SpeechCancelledInv == ASSUME VoiceInv, NEW t \in VTurns, SpeechCancelled(t) PROVE VoiceInv'
  <1>1. VoiceTypeOK'
    BY VoiceConstants DEF VoiceInv, VoiceTypeOK, VTurns, history, sink, SpeechCancelled, Says
  <1>2. Alone'
    BY VoiceConstants DEF VoiceInv, VoiceTypeOK, Alone, Live, VTurns, history, sink, SpeechCancelled, Says
  <1>3. GateHolds'
    BY VoiceConstants DEF VoiceInv, VoiceTypeOK, Alone, GateHolds, Live, VTurns, history, sink, SpeechCancelled, Says
  <1> QED  BY <1>1, <1>2, <1>3 DEF VoiceInv

\* A sentence is queued.
LEMMA SynthesizedInv == ASSUME VoiceInv, NEW t \in VTurns, Synthesized(t) PROVE VoiceInv'
  <1>1. VoiceTypeOK'
    BY VoiceConstants DEF VoiceInv, VoiceTypeOK, VTurns, history, sink, Synthesized, Says
  <1>2. Alone'
    BY VoiceConstants DEF VoiceInv, VoiceTypeOK, Alone, Live, VTurns, history, sink, Synthesized, Says
  <1>3. GateHolds'
    BY VoiceConstants DEF VoiceInv, VoiceTypeOK, Alone, GateHolds, Live, VTurns, history, sink, Synthesized, Says
  <1> QED  BY <1>1, <1>2, <1>3 DEF VoiceInv

\* A chunk is played, or the session closed.
LEMMA DrainInv == ASSUME VoiceInv, NEW t \in VTurns, Drain(t) PROVE VoiceInv'
  <1>1. VoiceTypeOK'
    <2>1. wanted' \in BOOLEAN /\ crossed' \in BOOLEAN
      BY Zenon DEF VoiceInv, VoiceTypeOK, history, Drain
    <2>2. drain' \in [VTurns -> BOOLEAN] /\ queue' \in [VTurns -> 0..Slots] /\ told' \subseteq VTurns
      <3>1. CASE Closes(t)
        <4>1. drain' = [drain EXCEPT ![t] = FALSE] /\ drain \in [VTurns -> BOOLEAN]
          BY <3>1 DEF VoiceInv, VoiceTypeOK, Closes
        <4>2. drain' \in [VTurns -> BOOLEAN]
          BY <4>1, Zenon
        <4>3. queue' \in [VTurns -> 0..Slots] /\ told' \subseteq VTurns
          BY <3>1, VoiceConstants DEF VoiceInv, VoiceTypeOK, Closes
        <4> QED  BY <4>2, <4>3
      <3>2. CASE queue[t] > 0 /\ queue' = [queue EXCEPT ![t] = @ - 1] /\ UNCHANGED <<drain, told>>
        <4>1. queue \in [VTurns -> 0..Slots] /\ queue[t] - 1 \in 0..Slots
          BY <3>2, VoiceConstants DEF VoiceInv, VoiceTypeOK
        <4>2. queue' \in [VTurns -> 0..Slots]
          BY <4>1, <3>2
        <4>3. drain' \in [VTurns -> BOOLEAN] /\ told' \subseteq VTurns
          BY <3>2, Zenon DEF VoiceInv, VoiceTypeOK
        <4> QED  BY <4>2, <4>3
      <3> QED  BY <3>1, <3>2 DEF Drain
    <2> QED  BY <2>1, <2>2 DEF VoiceInv, VoiceTypeOK, history, Drain
  <1>2. Alone'
    BY VoiceConstants DEF VoiceInv, VoiceTypeOK, Alone, Live, VTurns, history, sink, Drain, Closes
  <1>3. GateHolds'
    BY VoiceConstants DEF VoiceInv, VoiceTypeOK, Alone, GateHolds, Live, VTurns, history, sink, Drain, Closes
  <1> QED  BY <1>1, <1>2, <1>3 DEF VoiceInv

\* All is said.
LEMMA SpokenInv == ASSUME VoiceInv, NEW t \in VTurns, Spoken(t) PROVE VoiceInv'
  <1>1. VoiceTypeOK'
    BY VoiceConstants DEF VoiceInv, VoiceTypeOK, VTurns, history, sink, Spoken, Returns, Moves, Says
  <1>2. Alone'
    BY VoiceConstants DEF VoiceInv, VoiceTypeOK, Alone, Live, VTurns, history, sink, Spoken, Returns, Moves, Says
  <1>3. GateHolds'
    BY VoiceConstants DEF VoiceInv, VoiceTypeOK, Alone, GateHolds, Live, VTurns, history, sink, Spoken, Returns, Moves, Says
  <1> QED  BY <1>1, <1>2, <1>3 DEF VoiceInv

\* A cancelled turn winds down.
LEMMA BargeInInv == ASSUME VoiceInv, NEW t \in VTurns, BargeIn(t) PROVE VoiceInv'
  <1>1. VoiceTypeOK'
    BY VoiceConstants DEF VoiceInv, VoiceTypeOK, VTurns, history, sink, BargeIn, Moves, AbortSink
  <1>2. Alone'
    BY VoiceConstants DEF VoiceInv, VoiceTypeOK, Alone, Live, VTurns, history, sink, BargeIn, Moves, AbortSink
  <1>3. GateHolds'
    BY VoiceConstants DEF VoiceInv, VoiceTypeOK, Alone, GateHolds, Live, VTurns, history, sink, BargeIn, Moves, AbortSink
  <1> QED  BY <1>1, <1>2, <1>3 DEF VoiceInv

\* It has.
LEMMA WoundDownInv == ASSUME VoiceInv, NEW t \in VTurns, WoundDown(t) PROVE VoiceInv'
  <1>1. VoiceTypeOK'
    BY VoiceConstants DEF VoiceInv, VoiceTypeOK, VTurns, history, sink, WoundDown, Returns, Moves, Says
  <1>2. Alone'
    BY VoiceConstants DEF VoiceInv, VoiceTypeOK, Alone, Live, VTurns, history, sink, WoundDown, Returns, Moves, Says
  <1>3. GateHolds'
    BY VoiceConstants DEF VoiceInv, VoiceTypeOK, Alone, GateHolds, Live, VTurns, history, sink, WoundDown, Returns, Moves, Says
  <1> QED  BY <1>1, <1>2, <1>3 DEF VoiceInv

\* An abort cancels the token in the slot.
LEMMA AbortTokenInv == ASSUME VoiceInv, NEW stop \in BOOLEAN, AbortToken(stop) PROVE VoiceInv'
  <1>1. VoiceTypeOK'
    <2>1. wanted' \in BOOLEAN
      BY Zenon DEF AbortToken
    <2>2. crossed' \in BOOLEAN /\ drain' \in [VTurns -> BOOLEAN] /\ queue' \in [VTurns -> 0..Slots]
      BY Zenon DEF VoiceInv, VoiceTypeOK, sink, AbortToken
    <2>3. cancelled' \subseteq VTurns
      BY DEF VoiceInv, VoiceTypeOK, VTurns, Live, AbortToken
    <2> QED  BY <2>1, <2>2, <2>3 DEF VoiceInv, VoiceTypeOK, sink, AbortToken
  <1>2. Alone'
    BY VoiceConstants DEF VoiceInv, VoiceTypeOK, Alone, Live, VTurns, history, sink, AbortToken
  <1>3. GateHolds'
    BY VoiceConstants DEF VoiceInv, VoiceTypeOK, Alone, GateHolds, Live, VTurns, history, sink, AbortToken
  <1> QED  BY <1>1, <1>2, <1>3 DEF VoiceInv

\* Then it aborts the sink.
LEMMA AbortPlaybackInv == ASSUME VoiceInv, AbortPlayback PROVE VoiceInv'
  <1>1. VoiceTypeOK'
    BY VoiceConstants DEF VoiceInv, VoiceTypeOK, VTurns, history, sink, AbortPlayback, AbortSink
  <1>2. Alone'
    BY VoiceConstants DEF VoiceInv, VoiceTypeOK, Alone, Live, VTurns, history, sink, AbortPlayback, AbortSink
  <1>3. GateHolds'
    BY VoiceConstants DEF VoiceInv, VoiceTypeOK, Alone, GateHolds, Live, VTurns, history, sink, AbortPlayback, AbortSink
  <1> QED  BY <1>1, <1>2, <1>3 DEF VoiceInv

\* Then it sets the state.
LEMMA AbortSleepsInv == ASSUME VoiceInv, AbortSleeps PROVE VoiceInv'
  <1>1. VoiceTypeOK'
    BY VoiceConstants DEF VoiceInv, VoiceTypeOK, VTurns, history, sink, AbortSleeps
  <1>2. Alone'
    BY VoiceConstants DEF VoiceInv, VoiceTypeOK, Alone, Live, VTurns, history, sink, AbortSleeps
  <1>3. GateHolds'
    BY VoiceConstants DEF VoiceInv, VoiceTypeOK, Alone, GateHolds, Live, VTurns, history, sink, AbortSleeps
  <1> QED  BY <1>1, <1>2, <1>3 DEF VoiceInv

\* Every step keeps the invariant.
LEMMA VoiceNextInv == VoiceInv /\ [VoiceNext]_voiceVars => VoiceInv'
  <1> SUFFICES ASSUME VoiceInv, [VoiceNext]_voiceVars PROVE VoiceInv'  OBVIOUS
  <1>1. CASE UNCHANGED voiceVars
    BY <1>1 DEF VoiceInv, VoiceTypeOK, Alone, GateHolds, voiceVars, sink, history
  <1>2. CASE LoopStep
    BY <1>2, WakeInv, LoopEndsInv, ListenInv, TranscribeInv, CancelledEarlyInv DEF LoopStep
  <1>3. ASSUME NEW t \in VTurns, TurnStep(t) PROVE VoiceInv'
    BY <1>3, OpenInv, BeginSessionInv, SpeechCancelledInv, SynthesizedInv, SpokenInv, BargeInInv, WoundDownInv
       DEF TurnStep
  <1> QED  BY <1>1, <1>2, <1>3, StartVoiceInv, TranscribedInv, SpeakInv, SentenceInv, DrainInv, AbortTokenInv,
              AbortPlaybackInv, AbortSleepsInv DEF VoiceNext

\* Every reachable state of VoiceTurns satisfies its invariant.
LEMMA VoiceInvariant == VoiceSpec => []VoiceInv
  BY VoiceInitInv, VoiceNextInv, PTL DEF VoiceSpec

\* The variables of VoiceTurns keep their types; no session holds more than its channel.
THEOREM VoiceTypeCorrect == VoiceSpec => []VoiceTypeOK
  <1>1. VoiceInv => VoiceTypeOK  BY DEF VoiceInv
  <1> QED  BY <1>1, VoiceInvariant, PTL

\* While a turn by itself speaks, the state that gates the microphone says so
\* (voice/v2/pipeline.rs, set_state and force_wake).
THEOREM MicrophoneIsGated == VoiceSpec => []GateHolds
  <1>1. VoiceInv => GateHolds  BY DEF VoiceInv
  <1> QED  BY <1>1, VoiceInvariant, PTL

-----------------------------------------------------------------------------
(***************************************************************************)
(* GpuWatchdog.  What a scale-up may spend was seen when its dwell began:  *)
(* while it lasts nothing is spent from that bucket (BudgetSeen).          *)
(***************************************************************************)
BudgetSeen == mode = "recovering" => HasBudget("normal")

WatchdogInv == WatchdogTypeOK /\ BudgetsHold /\ BudgetSeen

\* The constants of the watchdog are numbers.
LEMMA WatchdogNumbers ==
    /\ {Total, Emergency, Yield, RecoverAt, Band, Margin, Base, Layers, MaxChanges} \subseteq Nat
    /\ {MaxKv, Projector, VisionFrom} \subseteq Nat /\ MinKv \in 0..MaxKv
    /\ {EmergencyDwell, PressureDwell, RecoveryDwell, CooldownTime} \subseteq 1..MaxDwell
    /\ MaxDwell \in Nat /\ PerHour \in [Buckets -> Nat \ {0}]
  BY WatchdogConstants

\* A server takes an amount of memory.
LEMMA TakenIsMemory == ASSUME NEW p \in Params PROVE Taken(p) \in Nat
  <1>1. p.ngl \in Nat /\ p.kv \in Nat /\ Base \in Nat /\ Projector \in Nat
    BY WatchdogNumbers DEF Params
  <1> QED  BY <1>1 DEF Taken

\* What is free is some part of the card.
LEMMA FreeIsMemory == WatchdogTypeOK => Free \in 0..Total
  <1> SUFFICES ASSUME WatchdogTypeOK PROVE Free \in 0..Total  OBVIOUS
  <1>1. Taken(params) \in Nat /\ load \in Nat /\ Total \in Nat
    BY TakenIsMemory, WatchdogNumbers DEF WatchdogTypeOK
  <1> QED  BY <1>1 DEF Free, AtLeast0

\* A reading lies between the last one and what is free.
LEMMA ReadingIsMemory == WatchdogTypeOK => Reading \in 0..Total
  <1> SUFFICES ASSUME WatchdogTypeOK PROVE Reading \in 0..Total  OBVIOUS
  <1>1. Free \in 0..Total /\ Total \in Nat /\ (ema = NoReading \/ ema \in 0..Total)
    BY FreeIsMemory, WatchdogNumbers DEF WatchdogTypeOK
  <1> HIDE DEF Free
  <1>2. CASE ema = NoReading
    BY <1>1, <1>2 DEF Reading
  <1>3. CASE ema # NoReading /\ Free > ema
    <2>1. (Free - ema + 1) \div 2 \in 1..(Free - ema)
      BY <1>1, <1>3
    <2> QED  BY <1>1, <1>3, <2>1 DEF Reading
  <1>4. CASE ema # NoReading /\ ~(Free > ema)
    <2>1. (ema - Free + 1) \div 2 \in 0..(ema - Free)
      BY <1>1, <1>4
    <2> QED  BY <1>1, <1>4, <2>1 DEF Reading
  <1> QED  BY <1>2, <1>3, <1>4

\* The target has layers the server has and a context its profile allows.
LEMMA TargetIsParams == ASSUME NEW free \in Int PROVE TargetFor(free) \in Params
  <1>1. Budget(free) \in Nat
    BY WatchdogNumbers DEF Budget, AtLeast0
  <1>2. LayersFor(free) \in 0..Layers
    BY <1>1, WatchdogNumbers DEF LayersFor
  <1>3. KvFor(free) \in MinKv..MaxKv
    BY <1>1, <1>2, WatchdogNumbers DEF KvFor
  <1> QED  BY <1>2, <1>3 DEF TargetFor, Params

\* No layers and the shortest context are parameters too.
LEMMA CpuOnlyIsParams == CpuOnly \in Params
  BY WatchdogNumbers DEF CpuOnly, Params

\* Where the margin covers the yield threshold and the KV cache of min_context, a server
\* with layers leaves at least the threshold of the memory it was computed from, for every
\* profile and every reading: it does not cause the pressure that scales it down
\* (calculate_target_params; "Anti-thrash guarantees", gpu_watchdog.rs:24).
THEOREM TargetsLeaveYield ==
    ASSUME NEW free \in Nat, Margin >= Yield + MinKv, LayersFor(free) > 0
    PROVE  free - Taken(TargetFor(free)) >= Yield
  <1>1. {free, Yield, Margin, Base, Projector, Layers, MinKv, MaxKv} \subseteq Nat
    BY WatchdogNumbers
  <1>2. Budget(free) \in Nat /\ LayersFor(free) \in 1..Budget(free)
    BY <1>1 DEF Budget, AtLeast0, LayersFor
  <1>3. Budget(free) = free - Margin - Base - Projector
    BY <1>1, <1>2 DEF Budget, AtLeast0
  <1>4. LayersFor(free) + KvFor(free) <= Budget(free) + MinKv
    BY <1>1, <1>2, WatchdogNumbers DEF KvFor
  <1>5. KvFor(free) \in Nat
    BY <1>1, <1>2 DEF KvFor
  <1>6. Taken(TargetFor(free)) <= Base + LayersFor(free) + KvFor(free) + Projector
    BY <1>1, <1>2, <1>5 DEF Taken, TargetFor
  <1>7. Taken(TargetFor(free)) \in Nat
    BY TakenIsMemory, TargetIsParams
  <1> QED  BY <1>1, <1>2, <1>3, <1>4, <1>5, <1>6, <1>7

\* Initially nothing is spent.
LEMMA WatchdogInitInv == WatchdogInit => WatchdogInv
  <1> SUFFICES ASSUME WatchdogInit PROVE WatchdogInv  OBVIOUS
  <1>1. WatchdogTypeOK
    BY CpuOnlyIsParams, WatchdogNumbers DEF WatchdogInit, WatchdogTypeOK
  <1>2. BudgetsHold /\ BudgetSeen
    BY WatchdogNumbers DEF WatchdogInit, BudgetsHold, BudgetSeen
  <1> QED  BY <1>1, <1>2 DEF WatchdogInv

\* A swap that a budget allows keeps every budget.
LEMMA SwapWithinBudget ==
    ASSUME WatchdogInv, NEW b \in Buckets, HasBudget(b), NEW p \in Params, SwapTo(p, b), Sample
    PROVE  WatchdogInv'
  <1>1. /\ spent \in [Buckets -> Nat] /\ PerHour \in [Buckets -> Nat \ {0}] /\ MaxDwell \in Nat
    BY WatchdogNumbers DEF WatchdogInv, WatchdogTypeOK
  <1>2. spent' \in [Buckets -> Nat] /\ BudgetsHold'
    <2>1. CASE spent' = [spent EXCEPT ![b] = @ + 1]
      BY <1>1, <2>1 DEF HasBudget, WatchdogInv, BudgetsHold
    <2>2. CASE spent' = spent
      BY <1>1, <2>2 DEF WatchdogInv, BudgetsHold
    <2> QED  BY <2>1, <2>2 DEF SwapTo
  <1>3. mode' = "cooldown" /\ age' = 0 /\ target' \in Params
    BY CpuOnlyIsParams DEF SwapTo, EnterMode
  <1>4. ema' \in 0..Total
    BY ReadingIsMemory DEF WatchdogInv, Sample
  <1>5. WatchdogTypeOK'
    <2>1. params' \in Params /\ load' \in 0..Total /\ changes' \in 0..MaxChanges
      BY DEF WatchdogInv, WatchdogTypeOK, SwapTo, Sample
    <2>2. up' \in BOOLEAN
      BY Zenon DEF SwapTo
    <2> QED  BY <1>1, <1>2, <1>3, <1>4, <2>1, <2>2, WatchdogNumbers DEF WatchdogTypeOK
  <1> QED  BY <1>2, <1>3, <1>5 DEF WatchdogInv, BudgetSeen

\* A poll that spends nothing, and begins to recover only with a budget, keeps the rest.
LEMMA PollWithoutSwap ==
    ASSUME WatchdogInv, Keep, Sample,
           mode' \in {"idle", "pressured", "cooldown", "recovering", "critical"},
           age' \in 0..MaxDwell, target' \in Params,
           mode' = "recovering" => mode = "recovering" \/ HasBudget("normal")
    PROVE  WatchdogInv'
  <1>1. ema' \in 0..Total
    BY ReadingIsMemory DEF WatchdogInv, Sample
  <1>2. WatchdogTypeOK'
    BY <1>1, WatchdogNumbers DEF WatchdogInv, WatchdogTypeOK, Keep, card, Sample
  <1>3. BudgetsHold'
    BY DEF WatchdogInv, BudgetsHold, Keep
  <1>4. BudgetSeen'
    BY DEF WatchdogInv, BudgetSeen, HasBudget, Keep
  <1> QED  BY <1>2, <1>3, <1>4 DEF WatchdogInv

\* Every decision of a poll keeps the invariant.
LEMMA PollInv == ASSUME WatchdogInv, Poll PROVE WatchdogInv'
  <1>1. /\ Sample /\ Reading \in Int /\ TargetFor(Reading) \in Params /\ CpuOnly \in Params
        /\ mode \in {"idle", "pressured", "cooldown", "recovering", "critical"}
        /\ age \in 0..MaxDwell /\ target \in Params /\ MaxDwell \in Nat
    BY ReadingIsMemory, TargetIsParams, CpuOnlyIsParams, WatchdogNumbers DEF WatchdogInv, WatchdogTypeOK, Poll
  <1> HIDE DEF Reading, TargetFor
  <1>2. CASE EmergencySwap
    BY <1>1, <1>2, SwapWithinBudget DEF EmergencySwap, Buckets
  <1>3. CASE PressureSwap
    BY <1>1, <1>3, SwapWithinBudget DEF PressureSwap, Buckets
  <1>4. CASE ScaleUp
    <2>1. HasBudget("normal")
      BY <1>4 DEF ScaleUp, In, Overdue, WatchdogInv, BudgetSeen
    <2> QED  BY <1>1, <1>4, <2>1, SwapWithinBudget DEF ScaleUp, Buckets
  <1>5. CASE EnterCritical \/ FeelPressure \/ StayIdle \/ Relieved \/ PressureIgnored \/ CooldownOver
             \/ HeadroomGone \/ CriticalOver
    <2>1. /\ Keep /\ mode' \in {"idle", "pressured", "cooldown", "critical"} /\ age' = 0
          /\ target' \in Params
      BY <1>1, <1>5, WatchdogNumbers DEF EnterCritical, FeelPressure, StayIdle, Relieved, PressureIgnored,
         CooldownOver, HeadroomGone, CriticalOver, EnterMode
    <2> QED  BY <1>1, <2>1, PollWithoutSwap
  <1>6. CASE SeeHeadroom
    <2>1. Keep /\ mode' = "recovering" /\ age' = 0 /\ target' \in Params /\ HasBudget("normal")
      BY <1>1, <1>6 DEF SeeHeadroom, Headroom, EnterMode
    <2> QED  BY <1>1, <2>1, PollWithoutSwap
  <1>7. CASE StayCritical \/ StayPressured \/ CoolingDown \/ StayRecovering
    <2>1. age + 1 \in 0..MaxDwell
      BY <1>1, <1>7, WatchdogNumbers DEF StayCritical, StayPressured, CoolingDown, StayRecovering, Pressed, In,
         Overdue, Elapsed
    <2>2. Keep /\ mode' = mode /\ age' = age + 1 /\ target' = target
      BY <1>7 DEF StayCritical, StayPressured, CoolingDown, StayRecovering, Stay
    <2> QED  BY <1>1, <2>1, <2>2, PollWithoutSwap
  <1> QED  BY <1>2, <1>3, <1>4, <1>5, <1>6, <1>7 DEF Poll

\* What happens to the card, the server and the hour keeps the invariant.
LEMMA OutsideInv ==
    ASSUME WatchdogInv,
           \/ \E b \in Buckets : Expire(b)
           \/ \E l \in 0..Total : LoadChanges(l)
           \/ ServerDies
           \/ \E p \in Params : Respawn(p)
           \/ UNCHANGED watchdogVars
    PROVE  WatchdogInv'
  <1>1. spent \in [Buckets -> Nat] /\ PerHour \in [Buckets -> Nat \ {0}] /\ changes \in 0..MaxChanges
    BY WatchdogNumbers DEF WatchdogInv, WatchdogTypeOK
  <1>2. ASSUME NEW b \in Buckets, Expire(b) PROVE WatchdogInv'
    <2>1. spent' \in [Buckets -> Nat] /\ \A c \in Buckets : spent'[c] <= spent[c]
      BY <1>1, <1>2 DEF Expire
    <2>2. BudgetsHold'
      BY <1>1, <2>1 DEF WatchdogInv, BudgetsHold
    <2>3. BudgetSeen'
      BY <1>1, <1>2, <2>1 DEF WatchdogInv, BudgetSeen, HasBudget, Expire, dogState, Buckets
    <2>4. WatchdogTypeOK'
      BY <1>2, <2>1 DEF WatchdogInv, WatchdogTypeOK, Expire, dogState, card
    <2> QED  BY <2>2, <2>3, <2>4 DEF WatchdogInv
  <1>3. CASE (\E l \in 0..Total : LoadChanges(l)) \/ ServerDies \/ UNCHANGED watchdogVars
    <2>1. UNCHANGED <<dogState, ema, spent, params>>
      BY <1>3 DEF LoadChanges, ServerDies, watchdogVars, card
    <2>2. load' \in 0..Total /\ changes' \in 0..MaxChanges
      BY <1>1, <1>3, WatchdogNumbers DEF WatchdogInv, WatchdogTypeOK, LoadChanges, ServerDies, Change, watchdogVars,
         card
    <2>3. up' = up \/ up' = FALSE
      BY <1>3 DEF LoadChanges, ServerDies, watchdogVars, card
    <2>4. up' \in BOOLEAN
      BY <2>3, Zenon DEF WatchdogInv, WatchdogTypeOK
    <2>5. WatchdogTypeOK'
      BY <2>1, <2>2, <2>4 DEF WatchdogInv, WatchdogTypeOK, dogState
    <2>6. BudgetsHold' /\ BudgetSeen'
      BY <2>1 DEF WatchdogInv, BudgetsHold, BudgetSeen, HasBudget, dogState
    <2> QED  BY <2>5, <2>6 DEF WatchdogInv
  <1>4. ASSUME NEW p \in Params, Respawn(p) PROVE WatchdogInv'
    <2>1. params' \in Params /\ up' = TRUE /\ load' \in 0..Total /\ changes' \in 0..MaxChanges
      BY <1>1, <1>4, WatchdogNumbers DEF WatchdogInv, WatchdogTypeOK, Respawn, Change
    <2>2. CASE UNCHANGED <<dogState, ema, spent>>
      BY <2>1, <2>2 DEF WatchdogInv, WatchdogTypeOK, BudgetsHold, BudgetSeen, HasBudget, dogState
    <2>3. CASE EnterMode("idle", CpuOnly) /\ ema' = NoReading /\ spent' = [b \in Buckets |-> 0]
      BY <1>1, CpuOnlyIsParams, <2>1, <2>3, WatchdogNumbers DEF WatchdogInv, WatchdogTypeOK, BudgetsHold, BudgetSeen, EnterMode
    <2> QED  BY <1>4, <2>2, <2>3 DEF Respawn
  <1> QED  BY <1>2, <1>3, <1>4

\* Every reachable state of GpuWatchdog satisfies its invariant.
LEMMA WatchdogInvariant == WatchdogSpec => []WatchdogInv
  <1>1. WatchdogInv /\ [WatchdogNext]_watchdogVars => WatchdogInv'
    BY PollInv, OutsideInv DEF WatchdogNext
  <1> QED  BY <1>1, WatchdogInitInv, PTL DEF WatchdogSpec

\* The watchdog's readings, targets and clocks stay in range, for every card and every
\* setting of its thresholds (gpu_watchdog.rs, VramEma and calculate_target_params).
THEOREM WatchdogTypeCorrect == WatchdogSpec => []WatchdogTypeOK
  <1>1. WatchdogInv => WatchdogTypeOK  BY DEF WatchdogInv
  <1> QED  BY <1>1, WatchdogInvariant, PTL

\* The server is swapped at most so many times in an hour, whatever the memory does: the
\* budget a scale-up was promised at its beginning is there at its end (RateBucket).
THEOREM BudgetsAreKept == WatchdogSpec => []BudgetsHold
  <1>1. WatchdogInv => BudgetsHold  BY DEF WatchdogInv
  <1> QED  BY <1>1, WatchdogInvariant, PTL

-----------------------------------------------------------------------------
(***************************************************************************)
(* LocalChat.  The count falls only in a step that goes on to close the    *)
(* circuit, and a call about to open it has counted a full count, which is *)
(* still full unless it was overtaken (FullAtTrip).                        *)
(***************************************************************************)
FullAtTrip ==
    \A c \in Callers :
        chatAt[c] = "trip" \/ (chatAt[c] = "stamp" /\ trips[c]) => failures = Threshold \/ c \in overtaken

ChatInv == ChatTypeOK /\ FullAtTrip /\ OpenIsFull

ChatPoints == {"idle", "ask", "sent", "refused", "close", "stamp", "trip", "reset", "unstamp"}

\* A call that is over, or goes on with another attempt, keeps the types.
LEMMA AgainTypes ==
    ASSUME ChatTypeOK, NEW c \in Callers, Again(c) \/ Over(c)
    PROVE  /\ chatAt' \in [Callers -> ChatPoints]
           /\ attempt' \in [Callers -> 0..(Attempts - 1)]
           /\ chatAt'[c] \in {"idle", "ask"}
           /\ \A d \in Callers \ {c} : chatAt'[d] = chatAt[d]
  <1>1. /\ Attempts \in Nat \ {0} /\ attempt \in [Callers -> 0..(Attempts - 1)]
        /\ chatAt \in [Callers -> ChatPoints]
    BY ChatConstants DEF ChatTypeOK, ChatPoints
  <1>2. CASE Over(c)
    <2>1. StepsTo(c, "idle") /\ attempt' = [attempt EXCEPT ![c] = 0] /\ 0 \in 0..(Attempts - 1)
      BY <1>1, <1>2 DEF Over
    <2> QED  BY <1>1, <2>1 DEF StepsTo, ChatPoints
  <1>3. CASE Again(c) /\ ~Over(c)
    <2>1. /\ attempt[c] < Attempts - 1 /\ StepsTo(c, "ask")
          /\ attempt' = [attempt EXCEPT ![c] = @ + 1]
      BY <1>3 DEF Again
    <2>2. attempt[c] + 1 \in 0..(Attempts - 1)
      BY <1>1, <2>1
    <2> QED  BY <1>1, <2>1, <2>2 DEF StepsTo, ChatPoints
  <1> QED  BY <1>2, <1>3

\* A call's step keeps the invariant.
LEMMA CallStepInv == ASSUME ChatInv, NEW c \in Callers, CallStep(c) PROVE ChatInv'
  <1>1. ChatTypeOK /\ FullAtTrip /\ OpenIsFull
    BY DEF ChatInv
  <1>2. CASE Admit(c)
    <2>1. ChatTypeOK'
      BY <1>1, <1>2, ChatConstants DEF Admit, StepsTo, ChatTypeOK, ChatPoints
    <2>2. FullAtTrip'
      BY <1>1, <1>2, ChatConstants DEF Admit, StepsTo, ChatTypeOK, FullAtTrip
    <2>3. OpenIsFull'
      BY <1>1, <1>2, ChatConstants DEF Admit, StepsTo, ChatTypeOK, OpenIsFull, Closing
    <2> QED  BY <2>1, <2>2, <2>3 DEF ChatInv
  <1>3. CASE Answered(c) \/ Probe(c)
    <2>1. ChatTypeOK'
      BY <1>1, <1>3, ChatConstants DEF Answered, Probe, StepsTo, ChatTypeOK, ChatPoints, ClearCount
    <2>2. FullAtTrip'
      BY <1>1, <1>3, ChatConstants DEF Answered, Probe, StepsTo, ChatTypeOK, FullAtTrip, ClearCount
    <2>3. Closing(c)'
      BY <1>1, <1>3 DEF Answered, Probe, StepsTo, ChatTypeOK, Closing
    <2> QED  BY <2>1, <2>2, <2>3 DEF ChatInv, OpenIsFull
  <1>4. CASE Close(c) \/ Reset(c)
    <2>1. ChatTypeOK'
      BY <1>1, <1>4, AgainTypes, ChatConstants DEF Close, Reset, StepsTo, ChatTypeOK, ChatPoints
    <2>2. FullAtTrip'
      BY <1>1, <1>4, AgainTypes, ChatConstants DEF Close, Reset, StepsTo, ChatTypeOK, FullAtTrip
    <2>3. circuit' = "closed"
      BY <1>4 DEF Close, Reset
    <2> QED  BY <2>1, <2>2, <2>3 DEF ChatInv, OpenIsFull
  <1>5. CASE Ignored(c)
    <2>1. ChatTypeOK'
      BY <1>1, <1>5, AgainTypes, ChatConstants DEF Ignored, StepsTo, ChatTypeOK, ChatPoints, breaker
    <2>2. FullAtTrip'
      BY <1>1, <1>5, AgainTypes, ChatConstants DEF Ignored, StepsTo, ChatTypeOK, FullAtTrip, breaker
    <2>3. OpenIsFull'
      BY <1>1, <1>5, AgainTypes, ChatConstants DEF Ignored, StepsTo, ChatTypeOK, OpenIsFull, Closing, breaker
    <2> QED  BY <2>1, <2>2, <2>3 DEF ChatInv
  <1>6. CASE Fails(c)
    <2>1. ChatTypeOK'
      BY <1>1, <1>6, ChatConstants DEF Fails, StepsTo, ChatTypeOK, ChatPoints
    <2>2. FullAtTrip'
      <3>1. chatAt'[c] = "stamp" /\ (failures = Threshold => failures' = Threshold)
        BY <1>1, <1>6 DEF Fails, StepsTo, ChatTypeOK
      <3>2. trips'[c] = (failures' = Threshold)
        BY <1>1, <1>6, Zenon DEF Fails, ChatTypeOK
      <3>3. ASSUME NEW d \in Callers, d # c
            PROVE  chatAt'[d] = chatAt[d] /\ trips'[d] = trips[d] /\ (d \in overtaken' <=> d \in overtaken)
        BY <1>1, <1>6, <3>3 DEF Fails, StepsTo, ChatTypeOK
      <3> QED  BY <1>1, <3>1, <3>2, <3>3 DEF FullAtTrip
    <2>3. OpenIsFull'
      BY <1>1, <1>6, ChatConstants DEF Fails, StepsTo, ChatTypeOK, OpenIsFull, Closing
    <2> QED  BY <2>1, <2>2, <2>3 DEF ChatInv
  <1>7. CASE Stamp(c)
    <2>1. ChatTypeOK'
      BY <1>1, <1>7, AgainTypes, ChatConstants DEF Stamp, StepsTo, ChatTypeOK, ChatPoints
    <2>2. FullAtTrip'
      BY <1>1, <1>7, AgainTypes, ChatConstants DEF Stamp, StepsTo, ChatTypeOK, FullAtTrip
    <2>3. OpenIsFull'
      BY <1>1, <1>7, AgainTypes, ChatConstants DEF Stamp, StepsTo, ChatTypeOK, OpenIsFull, Closing
    <2> QED  BY <2>1, <2>2, <2>3 DEF ChatInv
  <1>8. CASE Trip(c)
    <2>1. ChatTypeOK'
      BY <1>1, <1>8, AgainTypes, ChatConstants DEF Trip, StepsTo, ChatTypeOK, ChatPoints
    <2>2. FullAtTrip'
      BY <1>1, <1>8, AgainTypes, ChatConstants DEF Trip, StepsTo, ChatTypeOK, FullAtTrip
    <2>3. failures' = Threshold \/ belated'
      BY <1>1, <1>8 DEF Trip, FullAtTrip
    <2> QED  BY <2>1, <2>2, <2>3 DEF ChatInv, OpenIsFull
  <1>9. CASE TurnedAway(c)
    <2>1. ChatTypeOK'
      BY <1>1, <1>9, AgainTypes, ChatConstants DEF TurnedAway, StepsTo, ChatTypeOK, ChatPoints
    <2>2. FullAtTrip'
      BY <1>1, <1>9, AgainTypes, ChatConstants DEF TurnedAway, StepsTo, ChatTypeOK, FullAtTrip
    <2>3. OpenIsFull'
      BY <1>1, <1>9, AgainTypes, ChatConstants DEF TurnedAway, StepsTo, ChatTypeOK, OpenIsFull, Closing
    <2> QED  BY <2>1, <2>2, <2>3 DEF ChatInv
  <1>10. CASE Unstamp(c)
    <2>1. ChatTypeOK'
      BY <1>1, <1>10, AgainTypes, ChatConstants DEF Unstamp, StepsTo, ChatTypeOK, ChatPoints
    <2>2. FullAtTrip'
      BY <1>1, <1>10, AgainTypes, ChatConstants DEF Unstamp, StepsTo, ChatTypeOK, FullAtTrip
    <2>3. OpenIsFull'
      BY <1>1, <1>10, AgainTypes, ChatConstants DEF Unstamp, StepsTo, ChatTypeOK, OpenIsFull, Closing
    <2> QED  BY <2>1, <2>2, <2>3 DEF ChatInv
  <1> QED  BY <1>2, <1>3, <1>4, <1>5, <1>6, <1>7, <1>8, <1>9, <1>10 DEF CallStep

\* Every step of LocalChat keeps its invariant.
LEMMA ChatNextInv == ChatInv /\ [ChatNext]_chatVars => ChatInv'
  <1> SUFFICES ASSUME ChatInv, [ChatNext]_chatVars PROVE ChatInv'  OBVIOUS
  <1>1. ASSUME NEW c \in Callers, NEW k \in {"chat", "stream"}, Ask(c, k) PROVE ChatInv'
    <2>1. ChatTypeOK'
      BY <1>1 DEF Ask, StepsTo, breaker, ChatInv, ChatTypeOK
    <2>2. FullAtTrip' /\ OpenIsFull'
      BY <1>1 DEF Ask, StepsTo, breaker, ChatInv, ChatTypeOK, FullAtTrip, OpenIsFull, Closing
    <2> QED  BY <2>1, <2>2 DEF ChatInv
  <1>2. ASSUME NEW s \in {"well", "down", "failing"}, ServerTurns(s) PROVE ChatInv'
    BY <1>2, ChatConstants DEF ServerTurns, breaker, ChatInv, ChatTypeOK, FullAtTrip, OpenIsFull, Closing
  <1>3. CASE UNCHANGED chatVars
    BY <1>3 DEF chatVars, breaker, ChatInv, ChatTypeOK, FullAtTrip, OpenIsFull, Closing
  <1> QED  BY <1>1, <1>2, <1>3, CallStepInv DEF ChatNext

\* Every reachable state of LocalChat satisfies its invariant.
LEMMA ChatInvariant == ChatSpec => []ChatInv
  <1>1. ChatInit => ChatInv
    <2> SUFFICES ASSUME ChatInit PROVE ChatInv  OBVIOUS
    <2>1. /\ Threshold \in Nat \ {0} /\ Attempts \in Nat \ {0} /\ MaxTurns \in Nat
          /\ 0 \in 0..(Attempts - 1) /\ 0 \in 0..Threshold /\ 0 \in 0..MaxTurns
      BY ChatConstants
    <2>2. /\ chatAt \in [Callers -> {"idle"}] /\ calls \in [Callers -> {"chat"}]
          /\ attempt \in [Callers -> {0}] /\ overtaken = {} /\ circuit = "closed"
          /\ server = "well" /\ turns = 0 /\ failures = 0
      BY DEF ChatInit
    <2>3. trips \in [Callers -> BOOLEAN] /\ since \in BOOLEAN /\ belated \in BOOLEAN
      BY Zenon DEF ChatInit
    <2> QED  BY <2>1, <2>2, <2>3 DEF ChatInv, ChatTypeOK, FullAtTrip, OpenIsFull
  <1> QED  BY <1>1, ChatNextInv, PTL DEF ChatSpec

\* The breaker and the calls behind it keep their types; a chat counts its attempts
\* within their number.
THEOREM ChatTypeCorrect == ChatSpec => []ChatTypeOK
  <1>1. ChatInv => ChatTypeOK  BY DEF ChatInv
  <1> QED  BY <1>1, ChatInvariant, PTL

\* An open or half open circuit has a full count, so that its next failure opens it
\* again, unless a success or a reset is half-way or came between a failure's count and
\* its opening (circuit_breaker.rs, on_failure, on_success, reset).
THEOREM OpenCircuitsAreFull == ChatSpec => []OpenIsFull
  <1>1. ChatInv => OpenIsFull  BY DEF ChatInv
  <1> QED  BY <1>1, ChatInvariant, PTL
=============================================================================
