------------------------- MODULE AgentTurns_proofs -------------------------
(***************************************************************************)
(* Type correctness of the turns and the authority of every tool the loop  *)
(* starts, for every set of turns, sessions and calls and every proposal   *)
(* of the model.  Authorised is not inductive by itself: what makes it so  *)
(* is where the turn stands (PointInv), that a set of approvals is backed  *)
(* by answers of the gateway (ApprovalsInv), and that the gateway's        *)
(* outcomes are the user's word (GatewayInv, within AgentInv).             *)
(* Then cancellation and failures, which hold step by step, the audit rows *)
(* (LogInv: past the policy a RED call has its row) and the questions      *)
(* (AskInv: what was approved is remembered, and what is asked is not).    *)
(* At the end: the turns use the gateway within its contract, and each     *)
(* step of a turn lowers what it has left to do.                           *)
(***************************************************************************)
EXTENDS AgentTurns, HitlGateway_proofs, SequenceTheorems

InCall == {"gate", "policy", "ask", "wait", "guard", "running", "record", "route"}
Past   == {"guard", "running", "record", "route"}

PointInv(t) ==
    /\ turn[t].at \in InCall =>
         turn[t].todo # <<>> /\ Current(t) \in turn[t].mounted
    /\ turn[t].at \in {"ask", "wait"} => Tier[Current(t)] = "RED" /\ turn[t].asks > 0
    /\ turn[t].at = "wait" => subject[Request(t)] = Current(t)
    /\ turn[t].at \in Past =>
         /\ Tier[Current(t)] # "BLACK"
         /\ Tier[Current(t)] = "RED" => Current(t) \in turn[t].approved
    /\ turn[t].at = "running" => <<t, Current(t)>> \in ran
    /\ turn[t].at = "idle" =>
         turn[t].approved = {} /\ \A c \in Calls : <<t, c>> \notin ran

ApprovalsInv(t) == \A c \in turn[t].approved : ApprovedFor(t, c)

IInv == AgentInv /\ Authorised /\ \A t \in Turns : PointInv(t) /\ ApprovalsInv(t)

\* What a step of turn t through its locals leaves alone.
Frame(t) ==
    /\ UNCHANGED <<gatewayVars, subject, tokenVars>>
    /\ \A u \in Turns \ {t} : turn'[u] = turn[u]
    /\ InFlight(t) /\ InFlight(t)'
    /\ turn'[t].mounted = turn[t].mounted
    /\ turn[t].asks <= turn'[t].asks

\* The tools a step of turn t may start: mounted, not blacklisted, approved if RED.
RunsGrow(t) ==
    /\ ran \subseteq ran'
    /\ \A u \in Turns, c \in Calls : <<u, c>> \in ran' \ ran =>
         /\ u = t /\ c \in turn[t].mounted /\ Tier[c] # "BLACK"
         /\ Tier[c] = "RED" => c \in turn[t].approved
    /\ UNION {orphans', ran', bypassed', silent'} \subseteq Turns \X Calls
    /\ orphans' \subseteq ran'

\* What a step that neither asks nor touches a token leaves alone.
Calm(t) == UNCHANGED <<gatewayVars, subject, tokenVars>> /\ RunsGrow(t)

\* The invariant holds before any turn has started.
LEMMA InitIInv == Init => IInv
<1> SUFFICES ASSUME Init PROVE IInv
  OBVIOUS
<1>1. GatewayInv
  BY GatewayInitInv DEF Init
<1>2. turn \in [Turns -> TurnRecord]
  BY TurnConstants DEF Init, NewTurn, TurnRecord, Points, Results, Rows
<1>3. AgentInv
  BY <1>1, <1>2, TurnConstants DEF Init, AgentInv
<1>4. Authorised
  BY DEF Init, Authorised
<1>5. \A t \in Turns : PointInv(t) /\ ApprovalsInv(t)
  BY DEF Init, PointInv, ApprovalsInv, NewTurn, InCall, Past
<1> QED
  BY <1>3, <1>4, <1>5 DEF IInv

\* An approval the gateway gave stays one when only locals of turns move.
LEMMA FrameKeepsApproved ==
    ASSUME NEW t \in Turns, turn \in [Turns -> TurnRecord], turn' \in [Turns -> TurnRecord],
           UNCHANGED <<gatewayVars, subject>>, turn[t].asks <= turn'[t].asks,
           NEW c, ApprovedFor(t, c)
    PROVE  ApprovedFor(t, c)'
<1>1. turn[t].asks \in Nat /\ turn'[t].asks \in Nat
  BY TurnConstants DEF TurnRecord
<1> QED
  BY <1>1 DEF ApprovedFor, gatewayVars

\* A step that moves turn t within a turn keeps the invariant when it keeps it at t.
LEMMA FrameInv ==
    ASSUME IInv, NEW t \in Turns, Frame(t), RunsGrow(t),
           turn' \in [Turns -> TurnRecord], PointInv(t)', ApprovalsInv(t)'
    PROVE  IInv'
<1>1. GatewayInv'
  BY GatewayStutterInv DEF IInv, AgentInv, Frame, gatewayVars
<1>2. AgentInv'
  BY <1>1 DEF IInv, AgentInv, Frame, RunsGrow, tokenVars, InFlight
<1>3. ASSUME NEW u \in Turns, NEW c \in Calls, <<u, c>> \in ran'
      PROVE  /\ InFlight(u)' => c \in turn'[u].mounted
             /\ Tier[c] # "BLACK"
             /\ Tier[c] = "RED" => ApprovedFor(u, c)'
  <2>1. \A v \in Turns : turn[v].asks <= turn'[v].asks
    <3>1. \A v \in Turns : turn[v].asks \in Nat
      BY TurnConstants DEF IInv, AgentInv, TurnRecord
    <3> QED
      BY <3>1 DEF Frame
  <2>2. CASE <<u, c>> \in ran
    BY <2>1, <2>2, FrameKeepsApproved DEF IInv, AgentInv, Authorised, Frame, InFlight
  <2>3. CASE <<u, c>> \notin ran
    BY <1>3, <2>1, <2>3, FrameKeepsApproved
    DEF IInv, AgentInv, ApprovalsInv, RunsGrow, Frame
  <2> QED
    BY <2>2, <2>3
<1>4. Authorised'
  BY <1>3 DEF Authorised
<1>5. ASSUME NEW u \in Turns \ {t}
      PROVE  PointInv(u)' /\ ApprovalsInv(u)'
  <2>1. turn'[u] = turn[u] /\ PointInv(u) /\ ApprovalsInv(u)
    BY DEF IInv, Frame
  <2>2. PointInv(u)'
    BY <2>1 DEF PointInv, Frame, RunsGrow, Current, Request
  <2>3. ApprovalsInv(u)'
    BY <2>1 DEF ApprovalsInv, ApprovedFor, Frame, gatewayVars
  <2> QED
    BY <2>2, <2>3
<1> QED
  BY <1>2, <1>4, <1>5 DEF IInv

-----------------------------------------------------------------------------
\* Steps of the gateway, of cancellation and of tasks left behind.
LEMMA GatewayStepInv ==
    ASSUME IInv, GatewayInv', orphans' \subseteq orphans,
           UNCHANGED <<turnVars, tokenVars, historyVars>>, consent \subseteq consent',
           \A r \in Requests : outcome[r] = "Approved" => outcome'[r] = "Approved"
    PROVE  IInv'
<1>1. AgentInv'
  BY DEF IInv, AgentInv, turnVars, tokenVars, historyVars, InFlight
<1>2. ASSUME NEW t \in Turns, NEW c, ApprovedFor(t, c)
      PROVE  ApprovedFor(t, c)'
  <2>1. PICK n \in 1 .. turn[t].asks :
          subject[<<t, n>>] = c /\ outcome[<<t, n>>] = "Approved" /\ <<t, n>> \in consent
    BY <1>2 DEF ApprovedFor
  <2>2. <<t, n>> \in Requests
    BY <2>1 DEF IInv, AgentInv, GatewayInv
  <2> QED
    BY <2>1, <2>2 DEF ApprovedFor, turnVars
<1>3. Authorised'
  BY <1>2 DEF IInv, Authorised, turnVars, historyVars, InFlight
<1>4. ASSUME NEW t \in Turns
      PROVE  PointInv(t)' /\ ApprovalsInv(t)'
  <2>1. PointInv(t)'
    BY DEF IInv, PointInv, turnVars, historyVars, Current, Request
  <2>2. ApprovalsInv(t)'
    BY <1>2 DEF IInv, ApprovalsInv, turnVars
  <2> QED
    BY <2>1, <2>2
<1> QED
  BY <1>1, <1>3, <1>4 DEF IInv

\* An answer of the user keeps the invariant (approve_action, deny_action).
LEMMA UserStepInv == ASSUME IInv, NEW r \in Requests, UserStep(r)
                     PROVE  IInv'
<1>1. PICK a \in Answers : Respond(r, a)
  BY DEF UserStep
<1>2. GatewayInv'
  BY <1>1, RespondInv DEF IInv, AgentInv
<1> QED
  BY <1>1, <1>2, GatewayStepInv DEF UserStep, Respond

\* The emergency stop keeps the invariant (cancel_request).
LEMMA EmergencyStopInv == ASSUME IInv, EmergencyStop
                          PROVE  IInv'
<1>1. GatewayInv'
  BY CancelAllInv DEF IInv, AgentInv, EmergencyStop
<1> QED
  BY <1>1, GatewayStepInv DEF EmergencyStop, CancelAll

\* A request that is settled or times out keeps the invariant.
LEMMA RequesterStepInv == ASSUME IInv, NEW r \in Requests, RequesterStep(r)
                          PROVE  IInv'
<1>1. GatewayInv'
  BY ReceiveInv, ElapseInv, GiveUpInv DEF IInv, AgentInv, RequesterStep
<1>2. consent' = consent
  BY DEF RequesterStep, Receive, Elapse, GiveUp
<1>3. \A q \in Requests : outcome[q] = "Approved" => outcome'[q] = "Approved"
  BY DEF RequesterStep, Receive, Elapse, GiveUp, Settle, IInv, AgentInv, GatewayInv, None
<1> QED
  BY <1>1, <1>2, <1>3, GatewayStepInv DEF RequesterStep

\* A detached tool task that ends keeps the invariant (run_isolated).
LEMMA OrphanEndsInv == ASSUME IInv, NEW o \in orphans, OrphanEnds(o)
                       PROVE  IInv'
<1>1. GatewayInv'
  BY GatewayStutterInv DEF IInv, AgentInv, OrphanEnds
<1> QED
  BY <1>1, GatewayStepInv DEF OrphanEnds, gatewayVars

\* Cancelling a session keeps the invariant (cancel_session).
LEMMA CancelSessionInv == ASSUME IInv, NEW s \in Sessions, CancelSession(s)
                          PROVE  IInv'
<1>1. GatewayInv'
  BY GatewayStutterInv DEF IInv, AgentInv, CancelSession
<1>2. AgentInv'
  BY <1>1 DEF IInv, AgentInv, CancelSession, turnVars, historyVars, InFlight
<1>3. Authorised'
  BY DEF IInv, Authorised, ApprovedFor, CancelSession, gatewayVars, turnVars, historyVars, InFlight
<1>4. \A t \in Turns : PointInv(t)' /\ ApprovalsInv(t)'
  BY DEF IInv, PointInv, ApprovalsInv, ApprovedFor, CancelSession, gatewayVars, turnVars,
         historyVars, Current, Request
<1> QED
  BY <1>2, <1>3, <1>4 DEF IInv

\* A stuttering step keeps the invariant.
LEMMA StutterInv == ASSUME IInv, UNCHANGED vars
                    PROVE  IInv'
<1>1. GatewayInv'
  BY GatewayStutterInv DEF IInv, AgentInv, vars
<1> QED
  BY <1>1, GatewayStepInv DEF vars, gatewayVars

-----------------------------------------------------------------------------
\* Steps of a turn that touch its locals and the histories, and neither its mounted tools, nor
\* its approvals, nor its count of questions.
Local(t) ==
    /\ Calm(t)
    /\ turn' \in [Turns -> TurnRecord]
    /\ \A u \in Turns \ {t} : turn'[u] = turn[u]
    /\ InFlight(t) /\ InFlight(t)'
    /\ turn'[t].mounted = turn[t].mounted
    /\ turn'[t].approved = turn[t].approved
    /\ turn'[t].asks = turn[t].asks

\* A step that leaves all but the turn's locals alone starts no tool.
LEMMA OnlyTurnCalm == ASSUME IInv, NEW t \in Turns, OnlyTurn
                      PROVE  Calm(t)
  BY DEF IInv, AgentInv, OnlyTurn, historyVars, Calm, RunsGrow

\* A step through the locals of a turn keeps the invariant when it keeps the point.
LEMMA LocalStepInv == ASSUME IInv, NEW t \in Turns, Local(t), PointInv(t)'
                      PROVE  IInv'
<1>1. turn[t].asks \in Nat
  BY TurnConstants DEF IInv, AgentInv, TurnRecord
<1>2. Frame(t) /\ RunsGrow(t)
  BY <1>1 DEF Local, Calm, Frame
<1>3. ApprovalsInv(t)'
  BY DEF IInv, Local, Calm, ApprovalsInv, ApprovedFor, gatewayVars
<1> QED
  BY <1>2, <1>3, FrameInv DEF Local

\* What is used of a turn's record before a step.
LEMMA TurnTypes ==
    ASSUME IInv, NEW t \in Turns
    PROVE  /\ turn \in [Turns -> TurnRecord] /\ turn[t] \in TurnRecord
           /\ turn[t].todo # <<>> => /\ Current(t) \in Calls
                                     /\ Tail(turn[t].todo) \in Seq(Calls)
           /\ \A success \in BOOLEAN : Linked(t, success) \in {"none", "off", "on"}
<1>1. turn \in [Turns -> TurnRecord] /\ turn[t] \in TurnRecord
  BY DEF IInv, AgentInv
<1>2. turn[t].todo \in Seq(Calls)
  BY <1>1 DEF TurnRecord
<1>3. turn[t].todo # <<>> => Current(t) \in Calls /\ Tail(turn[t].todo) \in Seq(Calls)
  BY <1>2, HeadTailProperties DEF Current
<1> QED
  BY <1>1, <1>3 DEF Linked

\* The same mounted tools, approvals and questions before and after.
SameRights(old, new) ==
    new.mounted = old.mounted /\ new.approved = old.approved /\ new.asks = old.asks

\* A step that leaves the current call, or ends the turn, keeps the invariant.
LEMMA OutOfCallInv ==
    ASSUME IInv, NEW t \in Turns, InFlight(t), Calm(t), NEW new \in TurnRecord,
           turn' = [turn EXCEPT ![t] = new], SameRights(turn[t], new),
           new.at \in {"llm", "call", "closing"}
    PROVE  IInv'
<1>1. turn'[t] = new /\ \A u \in Turns \ {t} : turn'[u] = turn[u]
  BY DEF IInv, AgentInv
<1>2. Local(t)
  BY <1>1 DEF Local, IInv, AgentInv, InFlight, SameRights
<1>3. PointInv(t)'
  BY <1>1 DEF PointInv, InCall, Past
<1> QED
  BY <1>2, <1>3, LocalStepInv

\* A step that goes on with the current call keeps the invariant when the call may
\* be where it goes.
LEMMA WithinCallInv ==
    ASSUME IInv, NEW t \in Turns, Calm(t), NEW new \in TurnRecord,
           \/ turn[t].at \in InCall
           \/ InFlight(t) /\ turn[t].todo # <<>> /\ Current(t) \in turn[t].mounted,
           turn' = [turn EXCEPT ![t] = new], SameRights(turn[t], new),
           new.todo = turn[t].todo, new.at \in InCall \ {"ask", "wait", "running"},
           new.at \in Past =>
             /\ Tier[Current(t)] # "BLACK"
             /\ Tier[Current(t)] = "RED" => Current(t) \in turn[t].approved
    PROVE  IInv'
<1>1. turn'[t] = new /\ \A u \in Turns \ {t} : turn'[u] = turn[u]
  BY DEF IInv, AgentInv
<1>2. Local(t)
  BY <1>1 DEF Local, IInv, AgentInv, InFlight, InCall, SameRights
<1>3. PointInv(t)'
  BY <1>1 DEF IInv, PointInv, InCall, Past, Current, SameRights
<1> QED
  BY <1>2, <1>3, LocalStepInv

-----------------------------------------------------------------------------
\* The steps of a turn, one by one.  First those that leave the current call.
LEMMA CloseInv ==
    ASSUME IInv, NEW t \in Turns, InFlight(t), NEW event \in {"Done", "Error"},
           Close(t, event), OnlyTurn
    PROVE  IInv'
<1> DEFINE new == [turn[t] EXCEPT !.at = "closing", !.last = event]
<1>1. turn \in [Turns -> TurnRecord] /\ turn[t] \in TurnRecord
  BY TurnTypes
<1>2. turn' = [turn EXCEPT ![t] = new]
  BY <1>1 DEF Close
<1>3. new \in TurnRecord /\ SameRights(turn[t], new) /\ new.at = "closing"
  BY <1>1 DEF TurnRecord, Points, SameRights
<1> QED
  BY <1>2, <1>3, OutOfCallInv, OnlyTurnCalm

\* The model's answer, whatever it proposes, keeps the invariant.
LEMMA ChatInv == ASSUME IInv, NEW t \in Turns, Chat(t)
                 PROVE  IInv'
<1>1. InFlight(t) /\ OnlyTurn
  BY DEF Chat, At, InFlight
<1>2. CASE \E event \in {"Done", "Error"} : Close(t, event)
  BY <1>1, <1>2, CloseInv
<1>3. ASSUME NEW calls \in Proposals[t],
             turn' = [turn EXCEPT ![t].at = "call", ![t].todo = calls]
      PROVE  IInv'
  <2> DEFINE new == [turn[t] EXCEPT !.at = "call", !.todo = calls]
  <2>1. turn \in [Turns -> TurnRecord] /\ turn[t] \in TurnRecord /\ calls \in Seq(Calls)
    BY TurnTypes, TurnConstants
  <2>2. turn' = [turn EXCEPT ![t] = new]
    BY <1>3, <2>1
  <2>3. new \in TurnRecord /\ SameRights(turn[t], new) /\ new.at = "call"
    BY <2>1 DEF TurnRecord, Points, SameRights
  <2> QED
    BY <1>1, <2>2, <2>3, OutOfCallInv, OnlyTurnCalm
<1> QED
  BY <1>2, <1>3 DEF Chat

\* The end of a round keeps the invariant.
LEMMA NextRoundInv == ASSUME IInv, NEW t \in Turns, NextRound(t)
                      PROVE  IInv'
<1>1. InFlight(t) /\ OnlyTurn
  BY DEF NextRound, At, InFlight
<1>2. CASE \E event \in {"Done", "Error"} : Close(t, event)
  BY <1>1, <1>2, CloseInv
<1>3. CASE /\ turn[t].round + 1 # MaxRounds
           /\ turn' = [turn EXCEPT ![t].at = "llm", ![t].round = @ + 1]
  <2> DEFINE new == [turn[t] EXCEPT !.at = "llm", !.round = turn[t].round + 1]
  <2>1. turn \in [Turns -> TurnRecord] /\ turn[t] \in TurnRecord
    BY TurnTypes
  <2>2. turn' = [turn EXCEPT ![t] = new]
    BY <1>3, <2>1
  <2>3. turn[t].round + 1 \in 0 .. (MaxRounds - 1)
    BY <1>3, <2>1, TurnConstants DEF TurnRecord
  <2>4. new \in TurnRecord /\ SameRights(turn[t], new) /\ new.at = "llm"
    BY <2>1, <2>3 DEF TurnRecord, Points, SameRights
  <2> QED
    BY <1>1, <2>2, <2>4, OutOfCallInv, OnlyTurnCalm
<1> QED
  BY <1>2, <1>3 DEF NextRound

\* Going on to the next call keeps the invariant.
LEMMA LeaveInv ==
    ASSUME IInv, NEW t \in Turns, InFlight(t), turn[t].todo # <<>>, Leave(t), OnlyTurn
    PROVE  IInv'
<1> DEFINE new == [turn[t] EXCEPT !.at = "call", !.todo = Tail(turn[t].todo),
                                  !.result = "none", !.row = "none"]
<1>1. /\ turn \in [Turns -> TurnRecord] /\ turn[t] \in TurnRecord
      /\ Tail(turn[t].todo) \in Seq(Calls)
  BY TurnTypes
<1>2. turn' = [turn EXCEPT ![t] = new]
  BY <1>1 DEF Leave
<1>3. new \in TurnRecord /\ SameRights(turn[t], new) /\ new.at = "call"
  BY <1>1 DEF TurnRecord, Points, Results, Rows, SameRights
<1> QED
  BY <1>2, <1>3, OutOfCallInv, OnlyTurnCalm

\* A call that is given up keeps the invariant.
LEMMA DropInv ==
    ASSUME IInv, NEW t \in Turns,
           NotMounted(t) \/ Blocked(t) \/ Refused(t) \/ OverBudget(t) \/ Routed(t)
    PROVE  IInv'
<1>1. InFlight(t) /\ turn[t].todo # <<>>
  BY DEF NotMounted, Blocked, Refused, OverBudget, Routed, IInv, PointInv, At, InFlight, InCall
<1> QED
  BY <1>1, LeaveInv DEF NotMounted, Blocked, Refused, OverBudget, Routed

\* Ending a turn on a repeated failure keeps the invariant.
LEMMA RepeatedFailureInv == ASSUME IInv, NEW t \in Turns, RepeatedFailure(t)
                            PROVE  IInv'
  BY CloseInv DEF RepeatedFailure, At, InFlight

\* A Colab cell dropped for want of a connection keeps the invariant.
LEMMA GateFailedInv == ASSUME IInv, NEW t \in Turns, GateFailed(t)
                       PROVE  IInv'
<1> DEFINE new == [turn[t] EXCEPT !.at = "call", !.todo = Tail(turn[t].todo),
                                  !.colab = Linked(t, FALSE)]
<1>1. InFlight(t) /\ turn[t].todo # <<>> /\ OnlyTurn
  BY DEF GateFailed, IInv, PointInv, At, InCall, InFlight
<1>2. /\ turn \in [Turns -> TurnRecord] /\ turn[t] \in TurnRecord
      /\ Tail(turn[t].todo) \in Seq(Calls) /\ Linked(t, FALSE) \in {"none", "off", "on"}
  BY <1>1, TurnTypes
<1>3. turn' = [turn EXCEPT ![t] = new]
  BY <1>2 DEF GateFailed
<1>4. new \in TurnRecord /\ SameRights(turn[t], new) /\ new.at = "call"
  BY <1>2 DEF TurnRecord, Points, SameRights
<1> QED
  BY <1>1, <1>3, <1>4, OutOfCallInv, OnlyTurnCalm

-----------------------------------------------------------------------------
\* The steps that go on with the current call.
LEMMA GateOpenedInv == ASSUME IInv, NEW t \in Turns, GateOpened(t)
                       PROVE  IInv'
<1> DEFINE new == [turn[t] EXCEPT !.at = "policy", !.colab = Linked(t, TRUE)]
<1>1. turn[t].at \in InCall /\ OnlyTurn
  BY DEF GateOpened, At, InCall
<1>2. /\ turn \in [Turns -> TurnRecord] /\ turn[t] \in TurnRecord
      /\ Linked(t, TRUE) \in {"none", "off", "on"}
  BY TurnTypes
<1>3. turn' = [turn EXCEPT ![t] = new]
  BY <1>2 DEF GateOpened
<1>4. /\ new \in TurnRecord /\ SameRights(turn[t], new) /\ new.at = "policy"
      /\ new.todo = turn[t].todo
  BY <1>2 DEF TurnRecord, Points, SameRights
<1> QED
  BY <1>1, <1>3, <1>4, WithinCallInv, OnlyTurnCalm DEF InCall, Past

\* A call below RED goes to the guards and keeps the invariant.
LEMMA AutoApprovedInv == ASSUME IInv, NEW t \in Turns, AutoApproved(t)
                         PROVE  IInv'
<1> DEFINE new == [turn[t] EXCEPT !.at = "guard"]
<1>1. turn[t].at \in InCall /\ OnlyTurn /\ Tier[Current(t)] = "AUTO"
  BY DEF AutoApproved, At, InCall
<1>2. turn \in [Turns -> TurnRecord] /\ turn[t] \in TurnRecord
  BY TurnTypes
<1>3. turn' = [turn EXCEPT ![t] = new]
  BY <1>2 DEF AutoApproved
<1>4. /\ new \in TurnRecord /\ SameRights(turn[t], new) /\ new.at = "guard"
      /\ new.todo = turn[t].todo
  BY <1>2 DEF TurnRecord, Points, SameRights
<1> QED
  BY <1>1, <1>3, <1>4, WithinCallInv, OnlyTurnCalm DEF InCall, Past

\* An approval found in approved_this_turn is backed by an answer of the user.
LEMMA ReuseApprovalInv == ASSUME IInv, NEW t \in Turns, ReuseApproval(t)
                          PROVE  IInv'
<1> DEFINE new == [turn[t] EXCEPT !.at = "guard", !.row = "APPROVED"]
<1>1. /\ turn[t].at \in InCall /\ OnlyTurn
      /\ Tier[Current(t)] = "RED" /\ Current(t) \in turn[t].approved
  BY DEF ReuseApproval, At, InCall
<1>2. turn \in [Turns -> TurnRecord] /\ turn[t] \in TurnRecord
  BY TurnTypes
<1>3. turn' = [turn EXCEPT ![t] = new]
  BY <1>2 DEF ReuseApproval
<1>4. /\ new \in TurnRecord /\ SameRights(turn[t], new) /\ new.at = "guard"
      /\ new.todo = turn[t].todo
  BY <1>2 DEF TurnRecord, Points, Rows, SameRights
<1> QED
  BY <1>1, <1>3, <1>4, WithinCallInv, OnlyTurnCalm DEF InCall, Past

\* A call with its result goes to the bookkeeping and keeps the invariant.
LEMMA ToRecordInv ==
    ASSUME IInv, NEW t \in Turns, turn[t].at \in {"guard", "running"}, OnlyTurn,
           NEW r \in Results, turn' = [turn EXCEPT ![t].at = "record", ![t].result = r]
    PROVE  IInv'
<1> DEFINE new == [turn[t] EXCEPT !.at = "record", !.result = r]
<1>1. turn \in [Turns -> TurnRecord] /\ turn[t] \in TurnRecord
  BY TurnTypes
<1>2. turn' = [turn EXCEPT ![t] = new]
  BY <1>1
<1>3. /\ new \in TurnRecord /\ SameRights(turn[t], new) /\ new.at = "record"
      /\ new.todo = turn[t].todo
  BY <1>1 DEF TurnRecord, Points, SameRights
<1>4. /\ turn[t].at \in InCall /\ Tier[Current(t)] # "BLACK"
      /\ Tier[Current(t)] = "RED" => Current(t) \in turn[t].approved
  BY DEF IInv, PointInv, InCall, Past
<1> QED
  BY <1>2, <1>3, <1>4, WithinCallInv, OnlyTurnCalm DEF InCall, Past

\* A call that is not spawned keeps the invariant.
LEMMA NotStartedInv == ASSUME IInv, NEW t \in Turns, NotStarted(t)
                       PROVE  IInv'
  BY ToRecordInv DEF NotStarted, MayRun, At, Results

\* A tool that returns keeps the invariant.
LEMMA FinishInv == ASSUME IInv, NEW t \in Turns, Finish(t)
                   PROVE  IInv'
  BY ToRecordInv DEF Finish, At, Results

\* Taking up a mounted call keeps the invariant, with or without the Colab gate.
LEMMA TakeCallInv == ASSUME IInv, NEW t \in Turns, TakeCall(t)
                     PROVE  IInv'
<1> DEFINE new == [turn[t] EXCEPT !.at = IF NeedsLink(t) THEN "gate" ELSE "policy"]
<1>1. turn \in [Turns -> TurnRecord] /\ turn[t] \in TurnRecord
  BY TurnTypes
<1>2. turn' = [turn EXCEPT ![t] = new]
  BY <1>1 DEF TakeCall
<1>3. /\ new \in TurnRecord /\ SameRights(turn[t], new) /\ new.at \in {"gate", "policy"}
      /\ new.todo = turn[t].todo
  BY <1>1 DEF TurnRecord, Points, SameRights
<1>4. Calm(t)
  BY TurnConstants DEF TakeCall, IInv, AgentInv, Calm, RunsGrow
<1>5. InFlight(t) /\ turn[t].todo # <<>> /\ Current(t) \in turn[t].mounted
  BY DEF TakeCall, At, InFlight
<1> QED
  BY <1>2, <1>3, <1>4, <1>5, WithinCallInv DEF InCall, Past

\* A failed image, which ends the turn, keeps the invariant.
LEMMA ImageFailedInv == ASSUME IInv, NEW t \in Turns, ImageFailed(t)
                        PROVE  IInv'
<1> DEFINE new == [turn[t] EXCEPT !.at = "closing", !.last = "Done",
                                  !.failed = turn[t].failed \cup {Current(t)}]
<1>1. InFlight(t) /\ turn[t].todo # <<>>
  BY DEF ImageFailed, IInv, PointInv, At, InFlight, InCall
<1>2. turn \in [Turns -> TurnRecord] /\ turn[t] \in TurnRecord /\ Current(t) \in Calls
  BY <1>1, TurnTypes
<1>3. turn' = [turn EXCEPT ![t] = new]
  BY <1>2 DEF ImageFailed
<1>4. new \in TurnRecord /\ SameRights(turn[t], new) /\ new.at = "closing"
  BY <1>2 DEF TurnRecord, Points, SameRights
<1>5. Calm(t)
  BY <1>2 DEF ImageFailed, IInv, AgentInv, Calm, RunsGrow
<1> QED
  BY <1>1, <1>3, <1>4, <1>5, OutOfCallInv

Updated(old, at, todo, failed, image, link, spent, row) ==
    [old EXCEPT !.at = at, !.todo = todo, !.failed = failed, !.image = image,
                !.colab = link, !.spent = spent, !.result = "none", !.row = row]

\* The record new stands at `at` with calls `todo`, and the rights of old.
Continues(old, new, at, todo) ==
    new \in TurnRecord /\ SameRights(old, new) /\ new.at = at /\ new.todo = todo

\* The bookkeeping after a call keeps the types of the turn's locals.
LEMMA UpdatedTypes ==
    \A old \in TurnRecord, at \in {"route", "call"}, todo \in Seq(Calls),
       failed \in SUBSET Calls, image \in BOOLEAN, link \in {"none", "off", "on"},
       spent \in BOOLEAN, row \in Rows :
         Continues(old, Updated(old, at, todo, failed, image, link, spent, row), at, todo)
<1> TAKE old \in TurnRecord, at \in {"route", "call"}, todo \in Seq(Calls),
         failed \in SUBSET Calls, image \in BOOLEAN, link \in {"none", "off", "on"},
         spent \in BOOLEAN, row \in Rows
<1> DEFINE half == [old EXCEPT !.at = at, !.todo = todo, !.failed = failed, !.image = image]
           rest == [half EXCEPT !.colab = link, !.spent = spent, !.result = "none", !.row = row]
<1>1. half \in TurnRecord /\ SameRights(old, half) /\ half.at = at /\ half.todo = todo
  BY DEF TurnRecord, Points, SameRights
<1>2. rest \in TurnRecord /\ SameRights(old, rest) /\ rest.at = at /\ rest.todo = todo
  <2> HIDE DEF half
  <2> QED
    BY <1>1 DEF TurnRecord, Results, SameRights
<1>3. Updated(old, at, todo, failed, image, link, spent, row) = rest
  BY DEF Updated
<1> QED
  BY <1>2, <1>3 DEF Continues

\* The bookkeeping after a call keeps the invariant.
LEMMA RecordInv == ASSUME IInv, NEW t \in Turns, Record(t)
                   PROVE  IInv'
<1>1. /\ InFlight(t) /\ turn[t].todo # <<>> /\ turn[t].at \in InCall
      /\ Tier[Current(t)] # "BLACK"
      /\ Tier[Current(t)] = "RED" => Current(t) \in turn[t].approved
  BY DEF Record, IInv, PointInv, At, InFlight, InCall, Past
<1>2. /\ turn \in [Turns -> TurnRecord] /\ turn[t] \in TurnRecord
      /\ Current(t) \in Calls /\ Tail(turn[t].todo) \in Seq(Calls)
      /\ \A success \in BOOLEAN : Linked(t, success) \in {"none", "off", "on"}
  BY <1>1, TurnTypes
<1>3. Calm(t)
  BY <1>2, TurnConstants DEF Record, IInv, AgentInv, Calm, RunsGrow
<1>4. PICK spent \in {turn[t].spent, TRUE}, routed \in BOOLEAN :
        turn' = [turn EXCEPT ![t] = AfterCall(t, spent, routed)]
  BY DEF Record
<1> DEFINE at     == IF routed THEN "route" ELSE "call"
           todo   == IF routed THEN turn[t].todo ELSE Tail(turn[t].todo)
           failed == IF Failed(t) THEN turn[t].failed \cup {Current(t)} ELSE turn[t].failed
           image  == turn[t].image \/ Current(t) \in Images
           link   == IF Current(t) = OpenCall THEN Linked(t, ~Failed(t)) ELSE turn[t].colab
           row    == IF ~routed THEN "none"
                     ELSE IF Tier[Current(t)] = "AUTO" THEN "AUTO_EXECUTED" ELSE turn[t].row
           new    == Updated(turn[t], at, todo, failed, image, link, spent, row)
<1>5. turn' = [turn EXCEPT ![t] = new]
  BY <1>4, Zenon DEF AfterCall, Updated
<1>6. spent \in BOOLEAN /\ link \in {"none", "off", "on"}
  <2>1. turn[t].spent \in BOOLEAN /\ turn[t].colab \in {"none", "off", "on"}
    BY <1>2 DEF TurnRecord
  <2>2. (~Failed(t)) \in BOOLEAN
    OBVIOUS
  <2> QED
    BY <1>2, <1>4, <2>1, <2>2
<1>7. /\ at \in {"route", "call"} /\ todo \in Seq(Calls) /\ failed \in SUBSET Calls
      /\ row \in Rows
  BY <1>2 DEF TurnRecord, Rows
<1>8. image \in BOOLEAN
  OBVIOUS
<1>9. Continues(turn[t], new, at, todo)
  <2>1. /\ turn[t] \in TurnRecord /\ at \in {"route", "call"} /\ todo \in Seq(Calls)
        /\ failed \in SUBSET Calls /\ image \in BOOLEAN /\ row \in Rows
        /\ link \in {"none", "off", "on"} /\ spent \in BOOLEAN
    BY <1>2, <1>6, <1>7, <1>8
  <2> HIDE DEF at, todo, failed, image, link, row
  <2> QED
    BY <2>1, UpdatedTypes, Zenon
<1>10. CASE routed
  <2>1. at = "route" /\ todo = turn[t].todo
    BY <1>10
  <2> HIDE DEF new
  <2> QED
    BY <1>1, <1>3, <1>5, <1>9, <2>1, WithinCallInv DEF Continues, InCall, Past
<1>11. CASE ~routed
  <2>1. at = "call"
    BY <1>11
  <2> HIDE DEF new
  <2> QED
    BY <1>1, <1>3, <1>5, <1>9, <2>1, OutOfCallInv DEF Continues
<1> QED
  BY <1>10, <1>11

-----------------------------------------------------------------------------
\* The steps around a question to the user.
LEMMA AskUserInv == ASSUME IInv, NEW t \in Turns, AskUser(t)
                    PROVE  IInv'
<1> DEFINE new == [turn[t] EXCEPT !.at = "ask", !.asks = turn[t].asks + 1]
<1>1. turn \in [Turns -> TurnRecord] /\ turn[t] \in TurnRecord
  BY TurnTypes
<1>2. /\ turn' = [turn EXCEPT ![t] = new] /\ turn'[t] = new
      /\ \A u \in Turns \ {t} : turn'[u] = turn[u]
  BY <1>1 DEF AskUser
<1>3. turn[t].asks \in 0 .. MaxAsks /\ turn[t].asks + 1 \in 0 .. MaxAsks
  BY <1>1, TurnConstants DEF AskUser, TurnRecord
<1>4. new \in TurnRecord
  BY <1>1, <1>3 DEF TurnRecord, Points
<1>5. turn' \in [Turns -> TurnRecord]
  BY <1>1, <1>2, <1>4
<1>6. turn[t].at = "policy" /\ Tier[Current(t)] = "RED" /\ Calm(t)
  BY OnlyTurnCalm DEF AskUser, At
<1>7. /\ new.at = "ask" /\ new.asks = turn[t].asks + 1 /\ new.todo = turn[t].todo
      /\ new.mounted = turn[t].mounted /\ new.approved = turn[t].approved
  BY <1>1 DEF TurnRecord
<1> HIDE DEF new
<1>8. Frame(t) /\ RunsGrow(t)
  BY <1>2, <1>3, <1>6, <1>7 DEF Calm, Frame, InFlight
<1>9. PointInv(t)'
  BY <1>2, <1>3, <1>6, <1>7 DEF IInv, PointInv, InCall, Past, Current
<1>10. ApprovalsInv(t)'
  BY <1>1, <1>2, <1>5, <1>7, <1>8, FrameKeepsApproved DEF IInv, ApprovalsInv, Frame
<1> QED
  BY <1>5, <1>8, <1>9, <1>10, FrameInv

\* A new entry of approved_this_turn is backed by the answer that was read.
LEMMA GrantedInv == ASSUME IInv, NEW t \in Turns, Granted(t)
                    PROVE  IInv'
<1> DEFINE new == [turn[t] EXCEPT !.at = "guard", !.row = "APPROVED",
                                  !.approved = turn[t].approved \cup {Current(t)}]
<1>1. turn[t].at = "wait" /\ outcome[Request(t)] = "Approved" /\ OnlyTurn
  BY DEF Granted, At, Answer
<1>2. /\ turn[t].todo # <<>> /\ Current(t) \in turn[t].mounted
      /\ Tier[Current(t)] = "RED" /\ turn[t].asks > 0
      /\ subject[Request(t)] = Current(t)
  BY <1>1 DEF IInv, PointInv, InCall
<1>3. turn \in [Turns -> TurnRecord] /\ turn[t] \in TurnRecord /\ Current(t) \in Calls
  BY <1>2, TurnTypes
<1>4. /\ turn' = [turn EXCEPT ![t] = new] /\ turn'[t] = new
      /\ \A u \in Turns \ {t} : turn'[u] = turn[u]
  BY <1>3 DEF Granted
<1>5. new \in TurnRecord
  BY <1>3 DEF TurnRecord, Points, Rows
<1>6. turn' \in [Turns -> TurnRecord]
  BY <1>3, <1>4, <1>5
<1>7. /\ new.at = "guard" /\ new.asks = turn[t].asks /\ new.todo = turn[t].todo
      /\ new.mounted = turn[t].mounted
      /\ new.approved = turn[t].approved \cup {Current(t)}
  BY <1>3 DEF TurnRecord
<1>8. turn[t].asks \in 1 .. MaxAsks
  BY <1>2, <1>3, TurnConstants DEF TurnRecord
<1> HIDE DEF new
<1>9. Frame(t) /\ RunsGrow(t)
  BY <1>1, <1>4, <1>7, <1>8, OnlyTurnCalm DEF Calm, Frame, InFlight
<1>10. PointInv(t)'
  BY <1>2, <1>4, <1>7 DEF PointInv, InCall, Past, Current
<1>11. ApprovedFor(t, Current(t))
  <2>1. Request(t) \in Requests
    BY <1>8, TurnRequests DEF Request
  <2>2. Request(t) \in consent
    BY <1>1, <2>1 DEF IInv, AgentInv, GatewayInv
  <2> QED
    BY <1>1, <1>2, <1>8, <2>2 DEF ApprovedFor, Request
<1>12. ApprovalsInv(t)'
  BY <1>3, <1>4, <1>6, <1>7, <1>9, <1>11, FrameKeepsApproved DEF IInv, ApprovalsInv, Frame
<1> QED
  BY <1>6, <1>9, <1>10, <1>12, FrameInv

\* The request is new when it is submitted, so no approval rests on its subject.
LEMMA ParkInv == ASSUME IInv, NEW t \in Turns, Park(t)
                 PROVE  IInv'
<1> DEFINE new == [turn[t] EXCEPT !.at = "wait"]
<1>1. turn[t].at = "ask" /\ Submit(Request(t)) /\ UNCHANGED <<tokenVars, orphans, historyVars>>
  BY DEF Park, At
<1>2. /\ turn[t].todo # <<>> /\ Current(t) \in turn[t].mounted
      /\ Tier[Current(t)] = "RED" /\ turn[t].asks > 0
  BY <1>1 DEF IInv, PointInv, InCall
<1>3. /\ turn \in [Turns -> TurnRecord] /\ turn[t] \in TurnRecord /\ Current(t) \in Calls
      /\ subject \in [Requests -> Calls \cup {NoCall}]
  BY <1>2, TurnTypes DEF IInv, AgentInv
<1>4. /\ turn' = [turn EXCEPT ![t] = new] /\ turn'[t] = new
      /\ \A u \in Turns \ {t} : turn'[u] = turn[u]
  BY <1>3 DEF Park
<1>5. /\ new \in TurnRecord /\ SameRights(turn[t], new) /\ new.at = "wait"
      /\ new.todo = turn[t].todo
  BY <1>3 DEF TurnRecord, Points, SameRights
<1>6. Request(t) \in Requests
  <2>1. turn[t].asks \in 1 .. MaxAsks
    BY <1>2, <1>3, TurnConstants DEF TurnRecord
  <2> QED
    BY <2>1, TurnRequests DEF Request
<1>7. subject' = [subject EXCEPT ![Request(t)] = Current(t)]
  BY DEF Park
<1>8. GatewayInv'
  BY <1>1, <1>6, SubmitInv DEF IInv, AgentInv
<1> HIDE DEF new
<1>9. AgentInv'
  <2>1. turn' \in [Turns -> TurnRecord]
    BY <1>3, <1>4, <1>5
  <2>2. subject' \in [Requests -> Calls \cup {NoCall}]
    BY <1>3, <1>7
  <2>3. InFlight(t)' /\ \A u \in Turns \ {t} : InFlight(u)' <=> InFlight(u)
    BY <1>4, <1>5 DEF InFlight
  <2> QED
    BY <1>1, <1>8, <2>1, <2>2, <2>3 DEF IInv, AgentInv, tokenVars, historyVars
<1>10. \A u \in Turns : turn'[u].asks = turn[u].asks /\ turn'[u].approved = turn[u].approved
                        /\ turn'[u].mounted = turn[u].mounted
  BY <1>4, <1>5 DEF SameRights
<1>11. ASSUME NEW u \in Turns, NEW c, ApprovedFor(u, c)
       PROVE  ApprovedFor(u, c)'
  <2>1. PICK n \in 1 .. turn[u].asks :
          subject[<<u, n>>] = c /\ outcome[<<u, n>>] = "Approved" /\ <<u, n>> \in consent
    BY <1>11 DEF ApprovedFor
  <2>2. <<u, n>> \in Requests
    BY <2>1 DEF IInv, AgentInv, GatewayInv
  <2>3. <<u, n>> # Request(t)
    BY <1>1, <2>1 DEF Submit, IInv, AgentInv, GatewayInv, None
  <2> QED
    BY <1>1, <1>3, <1>7, <1>10, <2>1, <2>2, <2>3 DEF ApprovedFor, Submit
<1>12. Authorised'
  <2>1. \A u \in Turns : InFlight(u)' => InFlight(u)
    BY <1>1, <1>4 DEF InFlight
  <2> QED
    BY <1>1, <1>10, <1>11, <2>1 DEF IInv, Authorised, historyVars
<1>13. ASSUME NEW u \in Turns
       PROVE  PointInv(u)' /\ ApprovalsInv(u)'
  <2>1. ApprovalsInv(u)'
    BY <1>10, <1>11 DEF IInv, ApprovalsInv
  <2>2. CASE u = t
    <3>1. Request(t)' = Request(t) /\ Current(t)' = Current(t)
      BY <1>4, <1>5 DEF Request, Current, SameRights
    <3>2. subject'[Request(t)] = Current(t)
      BY <1>3, <1>6, <1>7
    <3> QED
      BY <1>2, <1>4, <1>5, <2>1, <2>2, <3>1, <3>2 DEF PointInv, InCall, Past, SameRights
  <2>3. CASE u # t
    <3>1. turn'[u] = turn[u] /\ Request(u)' = Request(u) /\ Current(u)' = Current(u)
      BY <1>4, <2>3 DEF Request, Current
    <3>2. Request(u) # Request(t)
      BY <2>3 DEF Request
    <3>3. turn[u].at = "wait" => subject'[Request(u)] = subject[Request(u)]
      BY <1>3, <1>7, <3>2
    <3> QED
      BY <1>1, <2>1, <3>1, <3>3 DEF IInv, PointInv, historyVars
  <2> QED
    BY <2>2, <2>3
<1> QED
  BY <1>9, <1>12, <1>13 DEF IInv

-----------------------------------------------------------------------------
\* The steps that start a tool and let go of one.
LEMMA StartInv == ASSUME IInv, NEW t \in Turns, Start(t)
                  PROVE  IInv'
<1> DEFINE new == [turn[t] EXCEPT !.at = "running"]
<1>1. /\ turn[t].at = "guard" /\ ran' = ran \cup {<<t, Current(t)>>}
      /\ UNCHANGED <<gatewayVars, subject, tokenVars, orphans, bypassed, silent>>
  BY DEF Start, MayRun, At
<1>2. /\ turn[t].todo # <<>> /\ Current(t) \in turn[t].mounted /\ Tier[Current(t)] # "BLACK"
      /\ Tier[Current(t)] = "RED" => Current(t) \in turn[t].approved
  BY <1>1 DEF IInv, PointInv, InCall, Past
<1>3. turn \in [Turns -> TurnRecord] /\ turn[t] \in TurnRecord /\ Current(t) \in Calls
  BY <1>2, TurnTypes
<1>4. /\ turn' = [turn EXCEPT ![t] = new] /\ turn'[t] = new
      /\ \A u \in Turns \ {t} : turn'[u] = turn[u]
  BY <1>3 DEF Start
<1>5. /\ new \in TurnRecord /\ SameRights(turn[t], new) /\ new.at = "running"
      /\ new.todo = turn[t].todo
  BY <1>3 DEF TurnRecord, Points, SameRights
<1> HIDE DEF new
<1>6. Calm(t)
  BY <1>1, <1>2, <1>3 DEF IInv, AgentInv, Calm, RunsGrow
<1>7. Local(t)
  BY <1>1, <1>3, <1>4, <1>5, <1>6 DEF Local, InFlight, SameRights
<1>8. PointInv(t)'
  BY <1>1, <1>2, <1>4, <1>5 DEF PointInv, InCall, Past, Current, SameRights
<1> QED
  BY <1>7, <1>8, LocalStepInv

\* Letting go of a running tool keeps the invariant.
LEMMA AbandonInv == ASSUME IInv, NEW t \in Turns, Abandon(t)
                    PROVE  IInv'
<1> DEFINE new == [turn[t] EXCEPT !.at = "record", !.result = "dropped"]
<1>1. /\ turn[t].at = "running" /\ orphans' = orphans \cup {<<t, Current(t)>>}
      /\ UNCHANGED <<gatewayVars, subject, tokenVars, historyVars>>
  BY DEF Abandon, At
<1>2. /\ turn[t].at \in InCall /\ Tier[Current(t)] # "BLACK" /\ <<t, Current(t)>> \in ran
      /\ Tier[Current(t)] = "RED" => Current(t) \in turn[t].approved
  BY <1>1 DEF IInv, PointInv, InCall, Past
<1>3. turn \in [Turns -> TurnRecord] /\ turn[t] \in TurnRecord
  BY TurnTypes
<1>4. turn' = [turn EXCEPT ![t] = new]
  BY <1>3 DEF Abandon
<1>5. /\ new \in TurnRecord /\ SameRights(turn[t], new) /\ new.at = "record"
      /\ new.todo = turn[t].todo
  BY <1>3 DEF TurnRecord, Points, Results, SameRights
<1>6. Calm(t)
  BY <1>1, <1>2 DEF IInv, AgentInv, Calm, RunsGrow, historyVars
<1> QED
  BY <1>2, <1>4, <1>5, <1>6, WithinCallInv DEF InCall, Past

-----------------------------------------------------------------------------
\* The first and the last step of a turn, which also move the session's token.

TokensLive == \A s \in Sessions : active[s] # NoTurn =>
    SessionOf[active[s]] = s /\ InFlight(active[s])

\* A turn that is not within its calls, and keeps its count of questions.
LEMMA TokenStepInv ==
    ASSUME IInv, NEW t \in Turns, NEW new \in TurnRecord,
           turn' = [turn EXCEPT ![t] = new], new.at \notin InCall \cup {"idle"},
           new.approved = {}, new.asks = turn[t].asks,
           InFlight(t)' => turn[t].at = "idle",
           active' \in [Sessions -> Turns \cup {NoTurn}], TokensLive',
           UNCHANGED <<gatewayVars, subject, cancelled, cancelAsked, orphans, historyVars>>
    PROVE  IInv'
<1>1. /\ turn' \in [Turns -> TurnRecord] /\ turn'[t] = new
      /\ \A u \in Turns \ {t} : turn'[u] = turn[u]
  BY DEF IInv, AgentInv
<1>2. GatewayInv'
  BY GatewayStutterInv DEF IInv, AgentInv
<1>3. AgentInv'
  BY <1>1, <1>2 DEF IInv, AgentInv, TokensLive, historyVars
<1>4. \A u \in Turns, c \in Calls : ApprovedFor(u, c) => ApprovedFor(u, c)'
  BY <1>1 DEF ApprovedFor, gatewayVars
<1>5. Authorised'
  <2>1. ASSUME NEW u \in Turns, NEW c \in Calls, <<u, c>> \in ran', InFlight(u)'
        PROVE  c \in turn'[u].mounted
    <3>1. <<u, c>> \in ran
      BY <2>1 DEF historyVars
    <3>2. u # t
      BY <2>1, <3>1 DEF IInv, PointInv
    <3> QED
      BY <1>1, <2>1, <3>1, <3>2 DEF IInv, Authorised, InFlight
  <2> QED
    BY <1>4, <2>1 DEF IInv, Authorised, historyVars
<1>6. ASSUME NEW u \in Turns
      PROVE  PointInv(u)' /\ ApprovalsInv(u)'
  <2>1. CASE u = t
    BY <1>1, <2>1 DEF PointInv, ApprovalsInv, InCall, Past
  <2>2. CASE u # t
    <3>1. turn'[u] = turn[u] /\ PointInv(u) /\ ApprovalsInv(u)
      BY <1>1, <2>2 DEF IInv
    <3>2. PointInv(u)'
      BY <3>1 DEF PointInv, Current, Request, historyVars
    <3>3. turn[u].approved \subseteq Calls
      BY DEF IInv, AgentInv, TurnRecord
    <3>4. ApprovalsInv(u)'
      BY <1>4, <3>1, <3>3 DEF ApprovalsInv
    <3> QED
      BY <3>2, <3>4
  <2> QED
    BY <2>1, <2>2
<1> QED
  BY <1>3, <1>5, <1>6 DEF IInv

\* The start of a turn, which replaces the session's token, keeps the invariant.
LEMMA BeginInv == ASSUME IInv, NEW t \in Turns, Begin(t)
                  PROVE  IInv'
<1>1. /\ turn[t].at = "idle" /\ active' = [active EXCEPT ![SessionOf[t]] = t]
      /\ UNCHANGED <<gatewayVars, subject, cancelled, cancelAsked, orphans, historyVars>>
  BY DEF Begin, At
<1>2. /\ turn \in [Turns -> TurnRecord] /\ turn[t] \in TurnRecord
      /\ turn[t].approved = {}
  BY <1>1, TurnTypes DEF IInv, PointInv
<1>3. \E new \in TurnRecord :
        /\ turn' = [turn EXCEPT ![t] = new] /\ new.at \in {"llm", "closing"}
        /\ new.approved = {} /\ new.asks = turn[t].asks
  <2>1. CASE Close(t, "Error")
    <3> DEFINE new == [turn[t] EXCEPT !.at = "closing", !.last = "Error"]
    <3>1. turn' = [turn EXCEPT ![t] = new]
      BY <1>2, <2>1 DEF Close
    <3>2. /\ new \in TurnRecord /\ new.at = "closing" /\ new.approved = {}
          /\ new.asks = turn[t].asks
      BY <1>2 DEF TurnRecord, Points
    <3> QED
      BY <3>1, <3>2
  <2>2. ASSUME NEW M \in Mountable, NEW flow \in {"none", "off"},
               turn' = [turn EXCEPT ![t].at = "llm", ![t].mounted = M, ![t].colab = flow]
        PROVE  \E new \in TurnRecord :
                 /\ turn' = [turn EXCEPT ![t] = new] /\ new.at \in {"llm", "closing"}
                 /\ new.approved = {} /\ new.asks = turn[t].asks
    <3> DEFINE new == [turn[t] EXCEPT !.at = "llm", !.mounted = M, !.colab = flow]
    <3>1. turn' = [turn EXCEPT ![t] = new]
      BY <1>2, <2>2
    <3>2. M \in SUBSET Calls
      BY TurnConstants
    <3>3. /\ new \in TurnRecord /\ new.at = "llm" /\ new.approved = {}
          /\ new.asks = turn[t].asks
      BY <1>2, <3>2 DEF TurnRecord, Points
    <3> QED
      BY <3>1, <3>3
  <2> QED
    BY <2>1, <2>2 DEF Begin
<1>4. PICK new \in TurnRecord :
        /\ turn' = [turn EXCEPT ![t] = new] /\ new.at \in {"llm", "closing"}
        /\ new.approved = {} /\ new.asks = turn[t].asks
  BY <1>3
<1>5. active' \in [Sessions -> Turns \cup {NoTurn}] /\ TokensLive'
  <2>1. SessionOf[t] \in Sessions /\ active \in [Sessions -> Turns \cup {NoTurn}]
    BY TurnConstants DEF IInv, AgentInv
  <2>2. InFlight(t)' /\ \A u \in Turns : InFlight(u) => InFlight(u)'
    BY <1>1, <1>2, <1>4 DEF InFlight
  <2> QED
    BY <1>1, <2>1, <2>2 DEF IInv, AgentInv, TokensLive
<1> QED
  BY <1>1, <1>4, <1>5, TokenStepInv DEF InCall

\* The end of a turn, which removes the session's token, keeps the invariant.
LEMMA EndInv == ASSUME IInv, NEW t \in Turns, End(t)
                PROVE  IInv'
<1> DEFINE new == [NewTurn EXCEPT !.at = "ended", !.asks = turn[t].asks,
                                  !.last = turn[t].last]
<1>0. turn' = [turn EXCEPT ![t] = new]
  BY Zenon DEF End
<1>1. /\ turn[t].at = "closing" /\ active' = [active EXCEPT ![SessionOf[t]] = NoTurn]
      /\ UNCHANGED <<gatewayVars, subject, cancelled, cancelAsked, orphans, historyVars>>
  BY DEF End, At
<1>2. turn \in [Turns -> TurnRecord] /\ turn[t] \in TurnRecord
  BY TurnTypes
<1>3. /\ new \in TurnRecord /\ new.at = "ended" /\ new.approved = {}
      /\ new.asks = turn[t].asks
  <2>1. NewTurn \in TurnRecord /\ NewTurn.approved = {}
    BY TurnConstants DEF NewTurn, TurnRecord, Points, Results, Rows
  <2> QED
    BY <1>2, <2>1 DEF TurnRecord, Points
<1> HIDE DEF new
<1>4. ~InFlight(t)'
  BY <1>0, <1>2, <1>3 DEF InFlight
<1>5. active' \in [Sessions -> Turns \cup {NoTurn}] /\ TokensLive'
  <2>1. SessionOf[t] \in Sessions /\ active \in [Sessions -> Turns \cup {NoTurn}]
    BY TurnConstants DEF IInv, AgentInv
  <2>2. \A u \in Turns \ {t} : InFlight(u) => InFlight(u)'
    BY <1>0, <1>2 DEF InFlight
  <2> QED
    BY <1>1, <2>1, <2>2 DEF IInv, AgentInv, TokensLive
<1> QED
  BY <1>0, <1>1, <1>3, <1>4, <1>5, TokenStepInv DEF InCall

-----------------------------------------------------------------------------
\* Every step of a turn keeps the invariant.
LEMMA TurnStepInv == ASSUME IInv, NEW t \in Turns, TurnStep(t)
                     PROVE  IInv'
  BY ChatInv, NextRoundInv, DropInv, TakeCallInv, GateOpenedInv, GateFailedInv,
     AutoApprovedInv, ReuseApprovalInv, AskUserInv, ParkInv, GrantedInv,
     RepeatedFailureInv, NotStartedInv, StartInv, FinishInv, AbandonInv,
     ImageFailedInv, RecordInv, EndInv
  DEF TurnStep

\* Every step of the system keeps the invariant.
LEMMA NextIInv == IInv /\ [Next]_vars => IInv'
<1> SUFFICES ASSUME IInv, [Next]_vars PROVE IInv'
  OBVIOUS
<1>1. CASE \E t \in Turns : Begin(t) \/ TurnStep(t)
  BY <1>1, BeginInv, TurnStepInv
<1>2. CASE \E r \in Requests : UserStep(r) \/ RequesterStep(r)
  BY <1>2, UserStepInv, RequesterStepInv
<1>3. CASE EmergencyStop
  BY <1>3, EmergencyStopInv
<1>4. CASE \E s \in Sessions : CancelSession(s)
  BY <1>4, CancelSessionInv
<1>5. CASE \E o \in orphans : OrphanEnds(o)
  BY <1>5, OrphanEndsInv
<1>6. CASE UNCHANGED vars
  BY <1>6, StutterInv
<1> QED
  BY <1>1, <1>2, <1>3, <1>4, <1>5, <1>6 DEF Next

\* The invariant of the loop composed with the gateway: where a turn stands, what
\* it remembers as approved and what the gateway settled agree in every reachable
\* state (run_with_profile, request_approval_with_id).
THEOREM InvariantHolds == Spec => []IInv
  BY InitIInv, NextIInv, PTL DEF Spec

\* The locals of every turn, the tokens and the gateway's map keep their types and
\* their consistency, however the turns of a session overlap (run_with_profile).
THEOREM TypesHold == Spec => []AgentInv
<1>1. IInv => AgentInv
  BY DEF IInv
<1> QED
  BY <1>1, InvariantHolds, PTL

\* Every tool the loop starts was mounted and is not blacklisted, and a RED one was
\* approved by the user, in this turn and for these arguments.
THEOREM ToolsAreAuthorised == Spec => []Authorised
<1>1. IInv => Authorised
  BY DEF IInv
<1> QED
  BY <1>1, InvariantHolds, PTL


-----------------------------------------------------------------------------
(***************************************************************************)
(* What a turn remembers of failures, rows and approvals.                  *)
(***************************************************************************)
\* What a step of turn t does to the failures it remembers, and how it comes to run a tool.
Bookkept(t) ==
    /\ \A u \in Turns \ {t} : turn'[u] = turn[u]
    /\ turn'[t].at = "running" =>
         turn[t].at = "running" \/ (t \notin cancelled /\ Current(t) \notin turn[t].failed)
    /\ turn[t].at = "record" =>
         turn'[t].at # "record" /\ (turn[t].result # "ok" => Current(t) \in turn'[t].failed)
    /\ turn'[t].at # "ended" => turn[t].failed \subseteq turn'[t].failed

\* A step of turn t to one of the points P, with what it remembers left as it is.
Goes(t, P) ==
    /\ \A u \in Turns \ {t} : turn'[u] = turn[u]
    /\ turn'[t].at \in P
    /\ turn'[t].failed = turn[t].failed
    /\ turn'[t].approved = turn[t].approved
    /\ turn'[t].asks = turn[t].asks

\* Where each step that remembers nothing new goes.
LEMMA StepsGo ==
    ASSUME IInv, NEW t \in Turns
    PROVE  /\ Begin(t) => Goes(t, {"closing", "llm"})
           /\ Chat(t) => Goes(t, {"closing", "call"})
           /\ NextRound(t) => Goes(t, {"closing", "llm"})
           /\ RepeatedFailure(t) => Goes(t, {"closing"})
           /\ Leave(t) => Goes(t, {"call"})
           /\ GateFailed(t) => Goes(t, {"call"})
           /\ TakeCall(t) => Goes(t, {"gate", "policy"})
           /\ GateOpened(t) => Goes(t, {"policy"})
           /\ AutoApproved(t) => Goes(t, {"guard"})
           /\ ReuseApproval(t) => Goes(t, {"guard"})
           /\ Park(t) => Goes(t, {"wait"})
           /\ NotStarted(t) => Goes(t, {"record"})
           /\ Start(t) => Goes(t, {"running"})
           /\ Finish(t) => Goes(t, {"record"})
           /\ Abandon(t) => Goes(t, {"record"})
<1>1. turn \in [Turns -> TurnRecord] /\ turn[t] \in TurnRecord
  BY TurnTypes
<1>2. \A event : Close(t, event) => Goes(t, {"closing"})
  BY <1>1 DEF Close, Goes, TurnRecord
<1>3. ASSUME Begin(t) PROVE Goes(t, {"closing", "llm"})
  <2>1. CASE Close(t, "Error")
    BY <1>2, <2>1 DEF Goes
  <2>2. ASSUME NEW M \in Mountable, NEW flow \in {"none", "off"},
               turn' = [turn EXCEPT ![t].at = "llm", ![t].mounted = M, ![t].colab = flow]
        PROVE  Goes(t, {"closing", "llm"})
    BY <1>1, <2>2 DEF Goes, TurnRecord
  <2> QED
    BY <1>3, <2>1, <2>2 DEF Begin
<1>4. ASSUME Chat(t) PROVE Goes(t, {"closing", "call"})
  <2>1. CASE \E event \in {"Done", "Error"} : Close(t, event)
    BY <1>2, <2>1 DEF Goes
  <2>2. ASSUME NEW calls \in Proposals[t], turn' = [turn EXCEPT ![t].at = "call", ![t].todo = calls]
        PROVE  Goes(t, {"closing", "call"})
    BY <1>1, <2>2 DEF Goes, TurnRecord
  <2> QED
    BY <1>4, <2>1, <2>2 DEF Chat
<1>5. ASSUME NextRound(t) PROVE Goes(t, {"closing", "llm"})
  <2>1. CASE \E event \in {"Done", "Error"} : Close(t, event)
    BY <1>2, <2>1 DEF Goes
  <2>2. CASE turn' = [turn EXCEPT ![t].at = "llm", ![t].round = @ + 1]
    BY <1>1, <2>2 DEF Goes, TurnRecord
  <2> QED
    BY <1>5, <2>1, <2>2 DEF NextRound
<1>6. RepeatedFailure(t) => Goes(t, {"closing"})
  BY <1>2 DEF RepeatedFailure
<1>7. Leave(t) => Goes(t, {"call"})
  BY <1>1 DEF Leave, Goes, TurnRecord
<1>8. GateFailed(t) => Goes(t, {"call"})
  BY <1>1 DEF GateFailed, Goes, TurnRecord
<1>9. TakeCall(t) => Goes(t, {"gate", "policy"})
  BY <1>1 DEF TakeCall, Goes, TurnRecord
<1>10. GateOpened(t) => Goes(t, {"policy"})
  BY <1>1 DEF GateOpened, Goes, TurnRecord
<1>11. AutoApproved(t) => Goes(t, {"guard"})
  BY <1>1 DEF AutoApproved, Goes, TurnRecord
<1>12. ReuseApproval(t) => Goes(t, {"guard"})
  BY <1>1 DEF ReuseApproval, Goes, TurnRecord
<1>13. Park(t) => Goes(t, {"wait"})
  BY <1>1 DEF Park, Goes, TurnRecord
<1>14. NotStarted(t) => Goes(t, {"record"})
  BY <1>1 DEF NotStarted, Goes, TurnRecord
<1>15. Start(t) => Goes(t, {"running"})
  BY <1>1 DEF Start, Goes, TurnRecord
<1>16. Finish(t) => Goes(t, {"record"})
  BY <1>1 DEF Finish, Goes, TurnRecord
<1>17. Abandon(t) => Goes(t, {"record"})
  BY <1>1 DEF Abandon, Goes, TurnRecord
<1> QED
  BY <1>3, <1>4, <1>5, <1>6, <1>7, <1>8, <1>9, <1>10, <1>11, <1>12, <1>13, <1>14, <1>15, <1>16, <1>17

\* The steps that end a turn, leave a call or begin one.
LEMMA MovesAreBookkept ==
    ASSUME IInv, NEW t \in Turns,
           \/ Begin(t) \/ Chat(t) \/ NextRound(t) \/ NotMounted(t) \/ Blocked(t) \/ Refused(t)
           \/ RepeatedFailure(t) \/ OverBudget(t) \/ Routed(t) \/ GateFailed(t) \/ End(t)
    PROVE  Bookkept(t)
<1>1. turn \in [Turns -> TurnRecord] /\ turn[t] \in TurnRecord
  BY TurnTypes
<1>2. CASE Begin(t) \/ Chat(t) \/ NextRound(t) \/ RepeatedFailure(t)
  BY <1>2, StepsGo DEF Begin, Chat, NextRound, RepeatedFailure, At, Bookkept, Goes
<1>3. CASE NotMounted(t) \/ Blocked(t) \/ Refused(t) \/ OverBudget(t) \/ Routed(t) \/ GateFailed(t)
  BY <1>3, StepsGo DEF NotMounted, Blocked, Refused, OverBudget, Routed, GateFailed, At, Bookkept, Goes
<1>4. CASE End(t)
  BY <1>1, <1>4 DEF End, At, Bookkept, NewTurn, TurnRecord
<1> QED
  BY <1>2, <1>3, <1>4

\* The steps that go on with a call.
LEMMA StepsAreBookkept ==
    ASSUME IInv, NEW t \in Turns,
           \/ TakeCall(t) \/ GateOpened(t) \/ AutoApproved(t) \/ ReuseApproval(t) \/ AskUser(t)
           \/ Park(t) \/ Granted(t) \/ NotStarted(t) \/ Start(t) \/ Finish(t) \/ Abandon(t)
    PROVE  Bookkept(t)
<1>1. turn \in [Turns -> TurnRecord] /\ turn[t] \in TurnRecord
  BY TurnTypes
<1>2. CASE TakeCall(t) \/ GateOpened(t) \/ AutoApproved(t) \/ ReuseApproval(t)
  BY <1>2, StepsGo DEF TakeCall, GateOpened, AutoApproved, ReuseApproval, At, Bookkept, Goes
<1>3. CASE Park(t)
  BY <1>3, StepsGo DEF Park, At, Bookkept, Goes
<1>5. CASE AskUser(t)
  BY <1>1, <1>5 DEF AskUser, At, Bookkept, TurnRecord
<1>6. CASE Granted(t)
  BY <1>1, <1>6 DEF Granted, At, Bookkept, TurnRecord
<1>4. CASE NotStarted(t) \/ Start(t) \/ Finish(t) \/ Abandon(t)
  BY <1>4, StepsGo DEF NotStarted, Start, Finish, Abandon, MayRun, At, Bookkept, Goes
<1> QED
  BY <1>2, <1>3, <1>4, <1>5, <1>6

\* The bookkeeping itself.
LEMMA RecordIsBookkept == ASSUME IInv, NEW t \in Turns, Record(t) \/ ImageFailed(t)
                          PROVE  Bookkept(t)
<1>1. turn \in [Turns -> TurnRecord] /\ turn[t] \in TurnRecord
  BY TurnTypes
<1>2. CASE ImageFailed(t)
  BY <1>1, <1>2 DEF ImageFailed, At, Bookkept, TurnRecord
<1>3. CASE Record(t)
  <2>1. PICK spent \in {turn[t].spent, TRUE}, routed \in BOOLEAN :
          turn' = [turn EXCEPT ![t] = AfterCall(t, spent, routed)]
    BY <1>3 DEF Record
  <2>2. turn'[t] = AfterCall(t, spent, routed) /\ \A u \in Turns \ {t} : turn'[u] = turn[u]
    BY <1>1, <2>1
  <2>3. /\ AfterCall(t, spent, routed).at = IF routed THEN "route" ELSE "call"
        /\ AfterCall(t, spent, routed).failed =
             IF turn[t].result # "ok" THEN turn[t].failed \cup {Current(t)} ELSE turn[t].failed
    BY <1>1 DEF AfterCall, Failed, TurnRecord
  <2> QED
    BY <2>2, <2>3 DEF Bookkept
<1> QED
  BY <1>2, <1>3

\* Every step of a turn.
LEMMA TurnIsBookkept == ASSUME IInv, NEW t \in Turns, Begin(t) \/ TurnStep(t)
                        PROVE  Bookkept(t)
  BY MovesAreBookkept, StepsAreBookkept, RecordIsBookkept DEF TurnStep

\* Of every turn, a step of the system is one that books, or leaves it alone.
LEMMA StepIsBookkept ==
    ASSUME IInv, [Next]_vars
    PROVE  turn' = turn \/ \E t \in Turns : Bookkept(t)
  BY TurnIsBookkept DEF Next, UserStep, RequesterStep, EmergencyStop, CancelSession, OrphanEnds,
     turnVars, vars

\* A cancelled turn starts no tool (the biased select! around run_isolated).
THEOREM CancelledStartsNothing == Spec => CancelStopsStarts
<1>1. IInv /\ [Next]_vars => [\A t \in cancelled : At(t, "running")' => At(t, "running")]_vars
  <2> SUFFICES ASSUME IInv, [Next]_vars, NEW t \in cancelled, At(t, "running")' PROVE At(t, "running")
    OBVIOUS
  <2>1. t \in Turns
    BY DEF IInv, AgentInv
  <2> QED
    BY <2>1, StepIsBookkept DEF Bookkept, At
<1> QED
  BY <1>1, InvariantHolds, PTL DEF Spec, CancelStopsStarts

\* A call that failed in a turn is remembered to its end and is not run again in it
\* (failed_calls).
THEOREM FailuresAreFinal == Spec => FailureIsFinal
<1> DEFINE Final(t) ==
         /\ At(t, "running")' /\ ~At(t, "running") => Current(t) \notin turn[t].failed
         /\ At(t, "record") /\ ~At(t, "record")' /\ turn[t].result # "ok" =>
              Current(t) \in turn'[t].failed
         /\ InFlight(t) /\ InFlight(t)' => turn[t].failed \subseteq turn'[t].failed
<1>1. IInv /\ [Next]_vars => [\A t \in Turns : Final(t)]_vars
  <2> SUFFICES ASSUME IInv, [Next]_vars, NEW t \in Turns PROVE Final(t)
    OBVIOUS
  <2> QED
    BY StepIsBookkept DEF Bookkept, At, InFlight
<1> QED
  BY <1>1, InvariantHolds, PTL DEF Spec, FailureIsFinal

-----------------------------------------------------------------------------
\* Past the policy a RED call has its row.
RowInv(t) == turn[t].at \in {"guard", "running", "record"} /\ Tier[Current(t)] = "RED" =>
                turn[t].row = "APPROVED"

LogInv == OnlyFailedImagesUnlogged /\ \A t \in Turns : RowInv(t)

\* What a step of turn t does to the rows.
Logs(t) ==
    /\ \A u \in Turns \ {t} : turn'[u] = turn[u]
    /\ RowInv(t)'
    /\ silent' \subseteq silent \cup Turns \X Images

\* The steps that leave the current call, or have not come past the policy.
LEMMA MovesLog ==
    ASSUME IInv, NEW t \in Turns,
           \/ Begin(t) \/ Chat(t) \/ NextRound(t) \/ NotMounted(t) \/ Blocked(t) \/ Refused(t)
           \/ RepeatedFailure(t) \/ OverBudget(t) \/ Routed(t) \/ GateFailed(t) \/ End(t)
           \/ TakeCall(t) \/ GateOpened(t) \/ AskUser(t) \/ Park(t)
    PROVE  Logs(t)
<1>1. turn \in [Turns -> TurnRecord] /\ turn[t] \in TurnRecord
  BY TurnTypes
<1>2. CASE Begin(t) \/ Chat(t) \/ NextRound(t) \/ RepeatedFailure(t)
  BY <1>2, StepsGo DEF Begin, Chat, NextRound, RepeatedFailure, OnlyTurn, historyVars, Logs, RowInv, Goes
<1>3. CASE NotMounted(t) \/ Blocked(t) \/ Refused(t) \/ OverBudget(t) \/ Routed(t) \/ GateFailed(t)
  BY <1>3, StepsGo DEF NotMounted, Blocked, Refused, OverBudget, Routed, GateFailed, OnlyTurn, historyVars,
     Logs, RowInv, Goes
<1>4. CASE End(t)
  BY <1>1, <1>4 DEF End, historyVars, Logs, RowInv, NewTurn, TurnRecord
<1>5. CASE TakeCall(t) \/ GateOpened(t) \/ Park(t)
  BY <1>5, StepsGo DEF TakeCall, GateOpened, Park, OnlyTurn, historyVars, Logs, RowInv, Goes
<1>6. CASE AskUser(t)
  BY <1>1, <1>6 DEF AskUser, OnlyTurn, historyVars, Logs, RowInv, TurnRecord
<1> QED
  BY <1>2, <1>3, <1>4, <1>5, <1>6

\* The steps past the policy.
LEMMA StepsLog ==
    ASSUME IInv, NEW t \in Turns, RowInv(t),
           \/ AutoApproved(t) \/ ReuseApproval(t) \/ Granted(t)
           \/ NotStarted(t) \/ Start(t) \/ Finish(t) \/ Abandon(t)
    PROVE  Logs(t)
<1>1. turn \in [Turns -> TurnRecord] /\ turn[t] \in TurnRecord
  BY TurnTypes
<1>2. CASE AutoApproved(t) \/ ReuseApproval(t) \/ Granted(t)
  BY <1>1, <1>2 DEF AutoApproved, ReuseApproval, Granted, OnlyTurn, historyVars, Logs, RowInv, Current, TurnRecord
<1>3. CASE NotStarted(t) \/ Start(t) \/ Finish(t) \/ Abandon(t)
  <2>1. turn'[t].row = turn[t].row /\ Current(t)' = Current(t) /\ turn[t].at \in {"guard", "running"}
    <3>1. NotStarted(t) => turn'[t].row = turn[t].row /\ turn'[t].todo = turn[t].todo
      BY <1>1 DEF NotStarted, TurnRecord
    <3>2. Start(t) => turn'[t].row = turn[t].row /\ turn'[t].todo = turn[t].todo
      BY <1>1 DEF Start, TurnRecord
    <3>3. Finish(t) \/ Abandon(t) => turn'[t].row = turn[t].row /\ turn'[t].todo = turn[t].todo
      BY <1>1 DEF Finish, Abandon, TurnRecord
    <3> QED
      BY <1>3, <3>1, <3>2, <3>3 DEF NotStarted, Start, Finish, Abandon, MayRun, At, Current
  <2>2. silent' = silent /\ \A u \in Turns \ {t} : turn'[u] = turn[u]
    BY <1>3, StepsGo DEF NotStarted, Start, Finish, Abandon, OnlyTurn, historyVars, Goes
  <2> QED
    BY <2>1, <2>2 DEF Logs, RowInv
<1> QED
  BY <1>2, <1>3

\* The bookkeeping leaves no RED call without its row, and an image only when it failed.
LEMMA RecordLogs == ASSUME IInv, NEW t \in Turns, RowInv(t), Record(t) \/ ImageFailed(t)
                    PROVE  Logs(t)
<1>1. turn \in [Turns -> TurnRecord] /\ turn[t] \in TurnRecord
  BY TurnTypes
<1>2. CASE ImageFailed(t)
  BY <1>1, <1>2 DEF ImageFailed, At, Logs, RowInv, TurnRecord
<1>3. CASE Record(t)
  <2>1. PICK spent \in {turn[t].spent, TRUE}, routed \in BOOLEAN :
          turn' = [turn EXCEPT ![t] = AfterCall(t, spent, routed)]
    BY <1>3 DEF Record
  <2>2. turn'[t] = AfterCall(t, spent, routed) /\ \A u \in Turns \ {t} : turn'[u] = turn[u]
    BY <1>1, <2>1
  <2>3. AfterCall(t, spent, routed).at = IF routed THEN "route" ELSE "call"
    BY <1>1 DEF AfterCall, TurnRecord
  <2>4. turn[t].at = "record" /\ turn[t].todo # <<>> /\ Tier[Current(t)] # "BLACK"
    BY <1>3 DEF Record, At, IInv, PointInv, InCall, Past
  <2>5. Tier[Current(t)] \in {"AUTO", "RED", "BLACK"}
    BY <2>4, TurnTypes, TurnConstants
  <2>6. silent' = silent
    BY <1>3, <2>4, <2>5 DEF Record, RowInv
  <2> QED
    BY <2>2, <2>3, <2>6 DEF Logs, RowInv
<1> QED
  BY <1>2, <1>3

\* Every step keeps the rows.
LEMMA NextLogInv == IInv /\ LogInv /\ [Next]_vars => LogInv'
<1> SUFFICES ASSUME IInv, LogInv, [Next]_vars PROVE LogInv'
  OBVIOUS
<1>1. CASE \E t \in Turns : Begin(t) \/ TurnStep(t)
  <2>1. PICK t \in Turns : Begin(t) \/ TurnStep(t)
    BY <1>1
  <2>2. Logs(t)
    BY <2>1, MovesLog, StepsLog, RecordLogs DEF TurnStep, LogInv
  <2> QED
    BY <2>2 DEF Logs, LogInv, OnlyFailedImagesUnlogged, RowInv, Current
<1>2. CASE turn' = turn /\ silent' = silent
  BY <1>2 DEF LogInv, OnlyFailedImagesUnlogged, RowInv, Current
<1> QED
  BY <1>1, <1>2 DEF Next, UserStep, RequesterStep, EmergencyStop, CancelSession, OrphanEnds,
     turnVars, historyVars, vars

\* A tool that ran is logged when the loop goes on, but for an image that failed
\* (run_with_profile, the bookkeeping after a call).
THEOREM CallsAreLogged == Spec => []OnlyFailedImagesUnlogged
<1>1. Init => LogInv
  BY DEF Init, LogInv, OnlyFailedImagesUnlogged, RowInv, NewTurn
<1>2. Spec => []LogInv
  BY <1>1, NextLogInv, InvariantHolds, PTL DEF Spec
<1>3. LogInv => OnlyFailedImagesUnlogged
  BY DEF LogInv
<1> QED
  BY <1>2, <1>3, PTL

-----------------------------------------------------------------------------
\* Where the questions of a turn stand: those to come are new, at most the last is open,
\* the one being put is not approved yet, and one that was approved is remembered.
QuestionsInv(t) ==
    /\ \A n \in 1 .. MaxAsks :
         n > turn[t].asks \/ (n = turn[t].asks /\ turn[t].at = "ask") =>
            phase[<<t, n>>] = "new" /\ subject[<<t, n>>] = NoCall
    /\ \A n \in 1 .. turn[t].asks :
         phase[<<t, n>>] \in {"waiting", "elapsed"} => turn[t].at = "wait" /\ n = turn[t].asks
    /\ turn[t].at \in {"ask", "wait"} => Current(t) \notin turn[t].approved
    /\ turn[t].at # "ended" => \A n \in 1 .. turn[t].asks : outcome[<<t, n>>] = "Approved" =>
         subject[<<t, n>>] \in turn[t].approved \/ (n = turn[t].asks /\ turn[t].at = "wait")

AskedOnce(t) == \A m, n \in 1 .. turn[t].asks :
    (m < n /\ outcome[<<t, m>>] = "Approved") => subject[<<t, m>>] # subject[<<t, n>>]

AskInv == \A t \in Turns : QuestionsInv(t) /\ AskedOnce(t)

\* A step of turn t that puts no question.
AsksNothing(t) ==
    /\ UNCHANGED <<gatewayVars, subject>>
    /\ \A u \in Turns \ {t} : turn'[u] = turn[u]
    /\ turn'[t].asks = turn[t].asks
    /\ turn[t].at # "ask" /\ turn'[t].at \notin {"ask", "wait"}
    /\ turn[t].at = "wait" => outcome[Request(t)] \in {"Denied", "Timeout"}
    /\ turn'[t].at # "ended" => turn[t].at # "ended" /\ turn'[t].approved = turn[t].approved

\* Most steps of a turn put none.
LEMMA MovesAskNothing ==
    ASSUME IInv, NEW t \in Turns,
           \/ Begin(t) \/ Chat(t) \/ NextRound(t) \/ NotMounted(t) \/ Blocked(t) \/ Refused(t)
           \/ RepeatedFailure(t) \/ OverBudget(t) \/ Routed(t) \/ GateFailed(t) \/ End(t)
    PROVE  AsksNothing(t)
<1>1. turn \in [Turns -> TurnRecord] /\ turn[t] \in TurnRecord
  BY TurnTypes
<1>2. CASE Begin(t) \/ Chat(t) \/ NextRound(t) \/ RepeatedFailure(t)
  BY <1>2, StepsGo DEF Begin, Chat, NextRound, RepeatedFailure, At, OnlyTurn, AsksNothing, Goes
<1>3. CASE NotMounted(t) \/ Blocked(t) \/ Refused(t) \/ OverBudget(t) \/ Routed(t) \/ GateFailed(t)
  BY <1>3, StepsGo DEF NotMounted, Blocked, Refused, OverBudget, Routed, GateFailed, At, Answer, OnlyTurn,
     AsksNothing, Goes
<1>4. CASE End(t)
  BY <1>1, <1>4 DEF End, At, AsksNothing, NewTurn, TurnRecord
<1> QED
  BY <1>2, <1>3, <1>4

\* Nor do those that go on with a call once the user has been asked.
LEMMA StepsAskNothing ==
    ASSUME IInv, NEW t \in Turns,
           \/ TakeCall(t) \/ GateOpened(t) \/ AutoApproved(t) \/ ReuseApproval(t)
           \/ NotStarted(t) \/ Start(t) \/ Finish(t) \/ Abandon(t) \/ ImageFailed(t) \/ Record(t)
    PROVE  AsksNothing(t)
<1>1. turn \in [Turns -> TurnRecord] /\ turn[t] \in TurnRecord
  BY TurnTypes
<1>2. CASE TakeCall(t) \/ GateOpened(t) \/ AutoApproved(t) \/ ReuseApproval(t)
  BY <1>2, StepsGo DEF TakeCall, GateOpened, AutoApproved, ReuseApproval, At, OnlyTurn, AsksNothing, Goes
<1>3. CASE NotStarted(t) \/ Start(t) \/ Finish(t) \/ Abandon(t)
  BY <1>3, StepsGo DEF NotStarted, Start, Finish, Abandon, MayRun, At, OnlyTurn, AsksNothing, Goes
<1>5. CASE ImageFailed(t)
  BY <1>1, <1>5 DEF ImageFailed, At, AsksNothing, TurnRecord
<1>4. CASE Record(t)
  <2>1. PICK spent \in {turn[t].spent, TRUE}, routed \in BOOLEAN :
          turn' = [turn EXCEPT ![t] = AfterCall(t, spent, routed)]
    BY <1>4 DEF Record
  <2>2. turn'[t] = AfterCall(t, spent, routed) /\ \A u \in Turns \ {t} : turn'[u] = turn[u]
    BY <1>1, <2>1
  <2>3. /\ AfterCall(t, spent, routed).at = IF routed THEN "route" ELSE "call"
        /\ AfterCall(t, spent, routed).asks = turn[t].asks
        /\ AfterCall(t, spent, routed).approved = turn[t].approved
    BY <1>1 DEF AfterCall, TurnRecord
  <2> QED
    BY <1>4, <2>2, <2>3 DEF Record, At, AsksNothing
<1> QED
  BY <1>2, <1>3, <1>4, <1>5

\* Such a step keeps the questions.
LEMMA AskNothingInv == ASSUME IInv, AskInv, NEW t \in Turns, AsksNothing(t)
                       PROVE  AskInv'
<1>1. ASSUME NEW u \in Turns \ {t} PROVE QuestionsInv(u)' /\ AskedOnce(u)'
  BY DEF AskInv, QuestionsInv, AskedOnce, AsksNothing, gatewayVars, Current
<1>2. turn[t].asks \in 0 .. MaxAsks
  BY TurnTypes DEF TurnRecord
<1>3. AskedOnce(t)'
  BY DEF AskInv, AskedOnce, AsksNothing, gatewayVars
<1>4. \A n \in 1 .. turn[t].asks : turn[t].at = "wait" /\ n = turn[t].asks =>
         phase[<<t, n>>] = "settled" /\ outcome[<<t, n>>] # "Approved"
  <2>1. \A n \in 1 .. turn[t].asks : <<t, n>> \in Requests
    BY <1>2, TurnRequests, TurnConstants
  <2> QED
    BY <2>1 DEF IInv, AgentInv, GatewayInv, AsksNothing, Request, None
<1>5. QuestionsInv(t)'
  BY <1>2, <1>4 DEF AskInv, QuestionsInv, AsksNothing, gatewayVars
<1> QED
  BY <1>1, <1>3, <1>5 DEF AskInv

\* The question is new, and its call is not approved.
LEMMA AskUserAsks == ASSUME IInv, AskInv, NEW t \in Turns, AskUser(t)
                     PROVE  AskInv'
<1>1. turn \in [Turns -> TurnRecord] /\ turn[t] \in TurnRecord
  BY TurnTypes
<1>2. /\ turn[t].at = "policy" /\ turn[t].asks < MaxAsks /\ Current(t) \notin turn[t].approved
      /\ UNCHANGED <<gatewayVars, subject>>
      /\ \A u \in Turns \ {t} : turn'[u] = turn[u]
      /\ turn'[t].at = "ask" /\ turn'[t].asks = turn[t].asks + 1 /\ turn'[t].todo = turn[t].todo
      /\ turn'[t].approved = turn[t].approved
  BY <1>1 DEF AskUser, At, OnlyTurn, TurnRecord
<1>3. ASSUME NEW u \in Turns \ {t} PROVE QuestionsInv(u)' /\ AskedOnce(u)'
  BY <1>2 DEF AskInv, QuestionsInv, AskedOnce, gatewayVars, Current
<1>4. turn[t].asks \in Nat /\ turn[t].asks + 1 \in 1 .. MaxAsks
  BY <1>1, <1>2, TurnConstants DEF TurnRecord
<1>5. phase[<<t, turn[t].asks + 1>>] = "new"
  BY <1>4 DEF AskInv, QuestionsInv
<1>6. outcome[<<t, turn[t].asks + 1>>] = None
  BY <1>4, <1>5, TurnRequests DEF IInv, AgentInv, GatewayInv
<1>7. \A n \in 1 .. turn[t].asks + 1 : n \in 1 .. turn[t].asks \/ n = turn[t].asks + 1
  BY <1>4
<1>8. QuestionsInv(t)'
  <2>1. \A n \in 1 .. MaxAsks : n > turn[t].asks + 1 \/ n = turn[t].asks + 1 =>
           phase[<<t, n>>] = "new" /\ subject[<<t, n>>] = NoCall
    BY <1>4 DEF AskInv, QuestionsInv
  <2>2. \A n \in 1 .. turn[t].asks + 1 : phase[<<t, n>>] \notin {"waiting", "elapsed"}
    BY <1>2, <1>5, <1>7 DEF AskInv, QuestionsInv
  <2>3. \A n \in 1 .. turn[t].asks + 1 : outcome[<<t, n>>] = "Approved" => subject[<<t, n>>] \in turn[t].approved
    BY <1>2, <1>6, <1>7 DEF AskInv, QuestionsInv, None
  <2> QED
    BY <1>2, <2>1, <2>2, <2>3 DEF QuestionsInv, gatewayVars, Current
<1>9. AskedOnce(t)'
  <2> SUFFICES ASSUME NEW m \in 1 .. turn[t].asks + 1, NEW n \in 1 .. turn[t].asks + 1,
                      m < n, outcome[<<t, m>>] = "Approved"
               PROVE  subject[<<t, m>>] # subject[<<t, n>>]
    BY <1>2 DEF AskedOnce, gatewayVars
  <2>1. CASE n \in 1 .. turn[t].asks
    BY <1>4, <2>1 DEF AskInv, AskedOnce
  <2>2. CASE n = turn[t].asks + 1
    <3>1. subject[<<t, m>>] \in turn[t].approved
      BY <1>2, <1>4, <1>7, <2>2 DEF AskInv, QuestionsInv
    <3>2. turn[t].approved \subseteq Calls /\ NoCall \notin Calls
      BY <1>1, TurnConstants DEF TurnRecord
    <3> QED
      BY <1>2, <1>4, <2>2, <3>1, <3>2 DEF AskInv, QuestionsInv
  <2> QED
    BY <1>7, <2>1, <2>2
<1> QED
  BY <1>3, <1>8, <1>9 DEF AskInv

\* The question gets its subject, which no approved one of the turn has.
LEMMA ParkAsks == ASSUME IInv, AskInv, NEW t \in Turns, Park(t)
                  PROVE  AskInv'
<1>1. turn \in [Turns -> TurnRecord] /\ turn[t] \in TurnRecord
  BY TurnTypes
<1>2. /\ turn[t].at = "ask" /\ Submit(Request(t)) /\ subject' = [subject EXCEPT ![Request(t)] = Current(t)]
      /\ Goes(t, {"wait"})
  BY StepsGo DEF Park, At
<1>3. turn[t].asks \in 1 .. MaxAsks /\ Request(t) \in Requests
  <2>1. turn[t].asks > 0
    BY <1>2 DEF IInv, PointInv
  <2>2. turn[t].asks \in 1 .. MaxAsks
    BY <1>1, <2>1, TurnConstants DEF TurnRecord
  <2> QED
    BY <2>2, TurnRequests DEF Request
<1>4. /\ phase' = [phase EXCEPT ![Request(t)] = "waiting"] /\ UNCHANGED outcome
      /\ phase \in [Requests -> Phases] /\ subject \in [Requests -> Calls \cup {NoCall}]
  BY <1>2 DEF Submit, IInv, AgentInv, GatewayInv
<1>5. /\ phase'[Request(t)] = "waiting" /\ subject'[Request(t)] = Current(t)
      /\ \A u \in Turns, n \in 1 .. MaxAsks : <<u, n>> # Request(t) =>
           phase'[<<u, n>>] = phase[<<u, n>>] /\ subject'[<<u, n>>] = subject[<<u, n>>]
  BY <1>2, <1>3, <1>4, TurnRequests
<1>6. turn'[t].todo = turn[t].todo
  BY <1>1 DEF Park, TurnRecord
<1>7. outcome[Request(t)] = None
  BY <1>2, <1>3 DEF Submit, IInv, AgentInv, GatewayInv
<1>8. ASSUME NEW u \in Turns \ {t} PROVE QuestionsInv(u)' /\ AskedOnce(u)'
  <2>1. turn[u].asks \in 0 .. MaxAsks /\ turn'[u] = turn[u]
    BY <1>2, TurnTypes DEF Goes, TurnRecord
  <2>2. \A n \in 1 .. MaxAsks : phase'[<<u, n>>] = phase[<<u, n>>] /\ subject'[<<u, n>>] = subject[<<u, n>>]
    BY <1>5 DEF Request
  <2> QED
    BY <1>4, <2>1, <2>2, TurnConstants DEF AskInv, QuestionsInv, AskedOnce, Current
<1>9. \A n \in 1 .. MaxAsks : n # turn[t].asks =>
         phase'[<<t, n>>] = phase[<<t, n>>] /\ subject'[<<t, n>>] = subject[<<t, n>>]
  BY <1>5 DEF Request
<1>10. QuestionsInv(t)'
  BY <1>2, <1>3, <1>4, <1>5, <1>6, <1>7, <1>9, TurnConstants
  DEF AskInv, QuestionsInv, Goes, Request, Current, None
<1>11. AskedOnce(t)'
  <2> SUFFICES ASSUME NEW m \in 1 .. turn[t].asks, NEW n \in 1 .. turn[t].asks,
                      m < n, outcome[<<t, m>>] = "Approved"
               PROVE  subject'[<<t, m>>] # subject'[<<t, n>>]
    BY <1>2, <1>4 DEF AskedOnce, Goes
  <2>1. m # turn[t].asks /\ m \in 1 .. MaxAsks /\ n \in 1 .. MaxAsks
    BY <1>3, TurnConstants
  <2>2. subject[<<t, m>>] \in turn[t].approved
    BY <1>2, <2>1 DEF AskInv, QuestionsInv
  <2>3. CASE n = turn[t].asks
    BY <1>2, <1>5, <1>9, <2>1, <2>2, <2>3 DEF AskInv, QuestionsInv, Request
  <2>4. CASE n # turn[t].asks
    BY <1>9, <2>1, <2>4 DEF AskInv, AskedOnce
  <2> QED
    BY <2>3, <2>4
<1> QED
  BY <1>8, <1>10, <1>11 DEF AskInv

\* The call that was approved is remembered.
LEMMA GrantedAsks == ASSUME IInv, AskInv, NEW t \in Turns, Granted(t)
                     PROVE  AskInv'
<1>1. turn \in [Turns -> TurnRecord] /\ turn[t] \in TurnRecord
  BY TurnTypes
<1>2. /\ turn[t].at = "wait" /\ outcome[Request(t)] = "Approved" /\ UNCHANGED <<gatewayVars, subject>>
      /\ \A u \in Turns \ {t} : turn'[u] = turn[u]
      /\ turn'[t].at = "guard" /\ turn'[t].asks = turn[t].asks
      /\ turn'[t].approved = turn[t].approved \cup {Current(t)}
  BY <1>1 DEF Granted, At, Answer, OnlyTurn, TurnRecord
<1>3. turn[t].asks \in 1 .. MaxAsks /\ Request(t) \in Requests
  <2>1. turn[t].asks > 0
    BY <1>2 DEF IInv, PointInv
  <2>2. turn[t].asks \in 1 .. MaxAsks
    BY <1>1, <2>1, TurnConstants DEF TurnRecord
  <2> QED
    BY <2>2, TurnRequests DEF Request
<1>4. phase[Request(t)] = "settled" /\ subject[Request(t)] = Current(t)
  BY <1>2, <1>3 DEF IInv, AgentInv, GatewayInv, PointInv, None
<1>5. ASSUME NEW u \in Turns \ {t} PROVE QuestionsInv(u)' /\ AskedOnce(u)'
  BY <1>2 DEF AskInv, QuestionsInv, AskedOnce, gatewayVars, Current
<1>6. QuestionsInv(t)'
  BY <1>2, <1>3, <1>4 DEF AskInv, QuestionsInv, gatewayVars, Request
<1>7. AskedOnce(t)'
  BY <1>2 DEF AskInv, AskedOnce, gatewayVars
<1> QED
  BY <1>5, <1>6, <1>7 DEF AskInv

\* The gateway settles only the question that is open.
LEMMA RequesterAsks == ASSUME IInv, AskInv, NEW r \in Requests, RequesterStep(r)
                       PROVE  AskInv'
<1>1. /\ phase[r] \in {"waiting", "elapsed"} /\ UNCHANGED turnVars
      /\ phase'[r] \in {"elapsed", "settled"}
      /\ \A q \in Requests \ {r} : phase'[q] = phase[q] /\ outcome'[q] = outcome[q]
      /\ phase \in [Requests -> Phases] /\ outcome \in [Requests -> Outcomes \cup {None}]
  BY DEF RequesterStep, Receive, Elapse, GiveUp, Settle, IInv, AgentInv, GatewayInv
<1>2. turn' = turn /\ subject' = subject
  BY <1>1 DEF turnVars
<1>3. ASSUME NEW t \in Turns PROVE QuestionsInv(t)' /\ AskedOnce(t)'
  <2>1. turn[t].asks \in 0 .. MaxAsks
    BY TurnTypes DEF TurnRecord
  <2>2. \A n \in 1 .. MaxAsks : <<t, n>> \in Requests
    BY TurnRequests
  <2>3. \A n \in 1 .. turn[t].asks : n \in 1 .. MaxAsks
    BY <2>1, TurnConstants
  <2>4. \A n \in 1 .. MaxAsks : r = <<t, n>> => n = turn[t].asks /\ turn[t].at = "wait"
    BY <1>1, <2>1 DEF AskInv, QuestionsInv
  <2>5. QuestionsInv(t)'
    BY <1>1, <1>2, <2>2, <2>3, <2>4 DEF AskInv, QuestionsInv, Current
  <2>6. AskedOnce(t)'
    BY <1>1, <1>2, <2>1, <2>2, <2>3, <2>4 DEF AskInv, AskedOnce
  <2> QED
    BY <2>5, <2>6
<1> QED
  BY <1>3 DEF AskInv

\* Steps that settle nothing.
LEMMA OthersAsk ==
    ASSUME IInv, AskInv, UNCHANGED <<turn, subject, phase, outcome>>
    PROVE  AskInv'
  BY DEF AskInv, QuestionsInv, AskedOnce, Current

\* Every step keeps the questions.
LEMMA NextAskInv == IInv /\ AskInv /\ [Next]_vars => AskInv'
<1> SUFFICES ASSUME IInv, AskInv, [Next]_vars PROVE AskInv'
  OBVIOUS
<1>1. ASSUME NEW t \in Turns, Begin(t) \/ TurnStep(t) PROVE AskInv'
  BY <1>1, MovesAskNothing, StepsAskNothing, AskNothingInv, AskUserAsks, ParkAsks, GrantedAsks DEF TurnStep
<1>2. CASE UNCHANGED <<turn, subject, phase, outcome>>
  BY <1>2, OthersAsk
<1>3. ASSUME NEW r \in Requests, UserStep(r) PROVE AskInv'
  BY <1>2, <1>3 DEF UserStep, Respond, turnVars
<1>4. CASE EmergencyStop
  BY <1>2, <1>4 DEF EmergencyStop, CancelAll, turnVars
<1> QED
  BY <1>1, <1>2, <1>3, <1>4, RequesterAsks DEF Next, CancelSession, OrphanEnds, gatewayVars, turnVars, vars

\* Once the user has approved a call, no later question of the turn is about it
\* (approved_this_turn).
THEOREM NobodyAskedTwice == Spec => []NeverAskedAgain
<1>1. Init => AskInv
  BY TurnRequests DEF Init, GatewayInit, AskInv, QuestionsInv, AskedOnce, NewTurn
<1>2. Spec => []AskInv
  BY <1>1, NextAskInv, InvariantHolds, PTL DEF Spec
<1>3. AskInv => NeverAskedAgain
  BY DEF AskInv, AskedOnce, NeverAskedAgain
<1> QED
  BY <1>2, <1>3, PTL

-----------------------------------------------------------------------------
(***************************************************************************)
(* The loop as a user of the gateway, and the measure a turn runs down.    *)
(***************************************************************************)
\* The loop touches the gateway only through its operations.
LEMMA StepsUseGateway ==
    ASSUME IInv, [Next]_vars
    PROVE  [GatewayNext]_gatewayVars
<1>1. ASSUME NEW t \in Turns, Park(t) PROVE GatewayNext
  <2>1. turn[t].at = "ask" /\ turn[t] \in TurnRecord
    BY <1>1, TurnTypes DEF Park, At
  <2>2. turn[t].asks \in 1 .. MaxAsks
    <3>1. turn[t].asks > 0
      BY <2>1 DEF IInv, PointInv
    <3> QED
      BY <2>1, <3>1, TurnConstants DEF TurnRecord
  <2>3. Request(t) \in Requests
    BY <2>2, TurnRequests DEF Request
  <2> QED
    BY <1>1, <2>3 DEF Park, GatewayNext
<1>2. ASSUME NEW t \in Turns, Begin(t) \/ TurnStep(t), ~Park(t) PROVE UNCHANGED gatewayVars
  BY <1>2 DEF TurnStep, OnlyTurn, Begin, Chat, NextRound, NotMounted, TakeCall, GateOpened, GateFailed,
     Blocked, AutoApproved, ReuseApproval, AskUser, Granted, Refused, RepeatedFailure, OverBudget,
     NotStarted, Start, Finish, Abandon, ImageFailed, Record, Routed, End
<1>3. ASSUME NEW r \in Requests, UserStep(r) \/ RequesterStep(r) PROVE GatewayNext
  BY <1>3 DEF UserStep, RequesterStep, GatewayNext
<1>4. CASE EmergencyStop
  BY <1>4 DEF EmergencyStop, GatewayNext
<1>5. CASE (\E s \in Sessions : CancelSession(s)) \/ (\E o \in orphans : OrphanEnds(o)) \/ UNCHANGED vars
  BY <1>5 DEF CancelSession, OrphanEnds, vars
<1> QED
  BY <1>1, <1>2, <1>3, <1>4, <1>5 DEF Next

\* Every question the loop puts keeps the approval contract, for every number of turns,
\* calls and questions: it is asked once, and closes as Approved only on the user's
\* word given while it was open (run_with_profile over request_approval_with_id).
THEOREM TurnsKeepContract == Spec => Contract!Safety
<1>1. Init => Contract!Init
  BY DEF Init, GatewayInit, Contract!Init, StatusOf
<1>2. IInv /\ [Next]_vars => [Contract!Next]_<<ContractStatus, consent>>
  BY StepsUseGateway, StepKeepsContract DEF IInv, AgentInv
<1> QED
  BY <1>1, <1>2, InvariantHolds, PTL DEF Spec, Contract!Safety, ContractStatus

-----------------------------------------------------------------------------
\* What a step of turn t does to the measure.
Runs(t) ==
    /\ \A u \in Turns \ {t} : turn'[u] = turn[u]
    /\ Further(turn[t], turn'[t])

\* The steps that start a turn, end it or go from round to round.
LEMMA MovesRunDown ==
    ASSUME IInv, NEW t \in Turns,
           Begin(t) \/ Chat(t) \/ NextRound(t) \/ RepeatedFailure(t) \/ ImageFailed(t) \/ End(t)
    PROVE  Runs(t)
<1>1. turn \in [Turns -> TurnRecord] /\ turn[t] \in TurnRecord
  BY TurnTypes
<1>2. CASE Begin(t) \/ RepeatedFailure(t)
  BY <1>2, StepsGo DEF Begin, RepeatedFailure, At, Goes, Runs, Further
<1>3. CASE Chat(t)
  <2>1. turn[t].at = "llm" /\ Goes(t, {"closing", "call"})
    BY <1>3, StepsGo DEF Chat, At
  <2>2. turn'[t].round = turn[t].round
    <3>1. CASE \E event \in {"Done", "Error"} : Close(t, event)
      BY <1>1, <3>1 DEF Close, TurnRecord
    <3>2. CASE \E calls \in Proposals[t] : turn' = [turn EXCEPT ![t].at = "call", ![t].todo = calls]
      BY <1>1, <3>2 DEF TurnRecord
    <3> QED
      BY <1>3, <3>1, <3>2 DEF Chat
  <2> QED
    BY <2>1, <2>2 DEF Goes, Runs, Further, Order
<1>4. CASE NextRound(t)
  <2>1. turn[t].at = "call" /\ Goes(t, {"closing", "llm"})
    BY <1>4, StepsGo DEF NextRound, At
  <2>2. turn[t].round \in Nat /\ (turn'[t].at = "llm" => turn'[t].round = turn[t].round + 1)
    BY <1>1, <1>4, TurnConstants DEF NextRound, Close, TurnRecord
  <2> QED
    BY <2>1, <2>2 DEF Goes, Runs, Further, Order
<1>5. CASE ImageFailed(t)
  BY <1>1, <1>5 DEF ImageFailed, At, TurnRecord, Runs, Further
<1>6. CASE End(t)
  BY <1>1, <1>6 DEF End, At, NewTurn, TurnRecord, Runs, Further
<1> QED
  BY <1>2, <1>3, <1>4, <1>5, <1>6

\* The record new is one call on from old, in the same round.
LEMMA NextCallRunsDown ==
    ASSUME NEW old \in TurnRecord, NEW new, old.at \in DOMAIN Order \ {"llm"}, new.at = "call",
           new.round = old.round, old.todo # <<>>, new.todo = Tail(old.todo)
    PROVE  Further(old, new)
<1>1. old.todo \in Seq(Calls)
  BY DEF TurnRecord
<1>2. Len(old.todo) \in Nat /\ Len(new.todo) = Len(old.todo) - 1
  BY <1>1, HeadTailProperties
<1> QED
  BY <1>2 DEF Further, Order

\* The steps that leave a call.
LEMMA LeavesRunDown ==
    ASSUME IInv, NEW t \in Turns,
           NotMounted(t) \/ GateFailed(t) \/ Blocked(t) \/ Refused(t) \/ OverBudget(t) \/ Routed(t)
    PROVE  Runs(t)
<1>1. turn \in [Turns -> TurnRecord] /\ turn[t] \in TurnRecord
  BY TurnTypes
<1>2. turn[t].at \in DOMAIN Order \ {"llm"} /\ turn[t].todo # <<>>
  BY DEF IInv, PointInv, InCall, NotMounted, GateFailed, Blocked, Refused, OverBudget, Routed, At, Order
<1>3. /\ turn'[t].at = "call" /\ turn'[t].round = turn[t].round /\ turn'[t].todo = Tail(turn[t].todo)
      /\ \A u \in Turns \ {t} : turn'[u] = turn[u]
  <2>1. CASE GateFailed(t)
    BY <1>1, <2>1 DEF GateFailed, TurnRecord
  <2>2. CASE Leave(t)
    BY <1>1, <2>2 DEF Leave, TurnRecord
  <2> QED
    BY <2>1, <2>2 DEF NotMounted, Blocked, Refused, OverBudget, Routed
<1> QED
  BY <1>1, <1>2, <1>3, NextCallRunsDown DEF Runs

\* The steps that go on with a call.
LEMMA StepsRunDown ==
    ASSUME IInv, NEW t \in Turns,
           \/ TakeCall(t) \/ GateOpened(t) \/ AutoApproved(t) \/ ReuseApproval(t) \/ AskUser(t)
           \/ Park(t) \/ Granted(t) \/ NotStarted(t) \/ Start(t) \/ Finish(t) \/ Abandon(t)
    PROVE  Runs(t)
<1>1. turn \in [Turns -> TurnRecord] /\ turn[t] \in TurnRecord
  BY TurnTypes
<1>2. CASE TakeCall(t)
  BY <1>1, <1>2 DEF TakeCall, At, TurnRecord, Order, Runs, Further
<1>3. CASE GateOpened(t)
  <2>1. /\ turn'[t].at = "policy" /\ turn'[t].round = turn[t].round /\ turn'[t].todo = turn[t].todo
        /\ turn[t].at = "gate" /\ \A u \in Turns \ {t} : turn'[u] = turn[u]
    BY <1>1, <1>3 DEF GateOpened, At, TurnRecord
  <2> QED
    BY <2>1 DEF Order, Runs, Further
<1>4. CASE AutoApproved(t)
  BY <1>1, <1>4 DEF AutoApproved, At, TurnRecord, Order, Runs, Further
<1>5. CASE ReuseApproval(t) \/ AskUser(t)
  BY <1>1, <1>5 DEF ReuseApproval, AskUser, At, TurnRecord, Order, Runs, Further
<1>6. CASE Park(t) \/ Granted(t)
  BY <1>1, <1>6 DEF Park, Granted, At, TurnRecord, Order, Runs, Further
<1>7. CASE NotStarted(t) \/ Start(t)
  BY <1>1, <1>7 DEF NotStarted, Start, MayRun, At, TurnRecord, Order, Runs, Further
<1>8. CASE Finish(t) \/ Abandon(t)
  BY <1>1, <1>8 DEF Finish, Abandon, At, TurnRecord, Order, Runs, Further
<1> QED
  BY <1>2, <1>3, <1>4, <1>5, <1>6, <1>7, <1>8

\* The bookkeeping leaves the call, or goes on to its routing.
LEMMA RecordRunsDown == ASSUME IInv, NEW t \in Turns, Record(t)
                        PROVE  Runs(t)
<1>1. turn \in [Turns -> TurnRecord] /\ turn[t] \in TurnRecord
  BY TurnTypes
<1>2. PICK spent \in {turn[t].spent, TRUE}, routed \in BOOLEAN :
        turn' = [turn EXCEPT ![t] = AfterCall(t, spent, routed)]
  BY DEF Record
<1>3. turn'[t] = AfterCall(t, spent, routed) /\ \A u \in Turns \ {t} : turn'[u] = turn[u]
  BY <1>1, <1>2
<1>4. turn[t].at = "record" /\ turn[t].todo # <<>>
  BY DEF Record, At, IInv, PointInv, InCall
<1>5. /\ turn'[t].at = IF routed THEN "route" ELSE "call"
      /\ turn'[t].todo = IF routed THEN turn[t].todo ELSE Tail(turn[t].todo)
      /\ turn'[t].round = turn[t].round
  BY <1>1, <1>3 DEF AfterCall, TurnRecord
<1>6. CASE routed
  BY <1>3, <1>4, <1>5, <1>6 DEF Runs, Further, Order
<1>7. CASE ~routed
  <2>1. turn[t].at \in DOMAIN Order \ {"llm"}
    BY <1>4 DEF Order
  <2> QED
    BY <1>1, <1>3, <1>4, <1>5, <1>7, <2>1, NextCallRunsDown DEF Runs
<1> QED
  BY <1>6, <1>7

\* Every step of a turn lowers what the turn has left to do, whatever the model
\* proposes and however its calls are answered: its steps are bounded by its rounds and
\* its lists of calls (the loop of run_with_profile).
THEOREM TurnsDoRunDown == Spec => TurnsRunDown
<1>1. IInv /\ [Next]_vars =>
        [\A t \in Turns : turn'[t] # turn[t] => Further(turn[t], turn'[t])]_vars
  <2> SUFFICES ASSUME IInv, [Next]_vars, NEW t \in Turns, turn'[t] # turn[t]
               PROVE  Further(turn[t], turn'[t])
    OBVIOUS
  <2>1. \E u \in Turns : Begin(u) \/ TurnStep(u)
    BY DEF Next, UserStep, RequesterStep, EmergencyStop, CancelSession, OrphanEnds, turnVars, vars
  <2>2. PICK u \in Turns : Begin(u) \/ TurnStep(u)
    BY <2>1
  <2>3. Runs(u)
    BY <2>2, MovesRunDown, LeavesRunDown, StepsRunDown, RecordRunsDown DEF TurnStep
  <2> QED
    BY <2>3 DEF Runs
<1> QED
  BY <1>1, InvariantHolds, PTL DEF Spec, TurnsRunDown
=============================================================================
