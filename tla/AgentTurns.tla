----------------------------- MODULE AgentTurns -----------------------------
(***************************************************************************)
(* User turns of AgentLoop (kria-core/src/agent/loop_engine.rs), composed  *)
(* with the approval gateway.  A turn is one call of run_with_profile: it  *)
(* asks the model, takes the proposed tool calls one at a time through     *)
(* mounting, policy, approval and the loop guards, runs them, and asks     *)
(* again, for at most MaxRounds rounds.  Several turns are in flight at    *)
(* once: nothing serialises the turns of one session, and the cancellation *)
(* token is kept per session, not per turn.                                *)
(*                                                                         *)
(* A call is a tool with its arguments: policy, approval and failure       *)
(* bookkeeping depend on both.  What the model, the package and Colab      *)
(* workflows or the intent fallback propose to turn t is in Proposals[t].   *)
(* Prompts, results and events other than the last one are left out, and   *)
(* so is the failure streak, which only adds a message to the prompt.      *)
(***************************************************************************)
EXTENDS HitlGateway, Naturals, Sequences

CONSTANTS
    Turns, Sessions, SessionOf,  \* SessionOf \in [Turns -> Sessions]
    Calls,          \* tool calls, by name and arguments
    Tier,           \* [Calls -> {"AUTO", "RED", "BLACK"}], PolicyEngine::evaluate
    Registered,     \* the calls whose tool has a handler
    Images,         \* calls of generate_image
    Cells,          \* calls of the Colab execute_cell tool
    OpenCall,       \* the call that opens the Colab browser connection
    Pathful,        \* calls whose result may name a file
    Analyzer,       \* the call the result of a pathful call is routed to
    Mountable,      \* the sets of calls a turn may find mounted for its tier
    Proposals,      \* [Turns -> sets of the lists of calls a round may propose]
    MaxRounds,
    MaxAsks,        \* bound on the questions of a turn, above what its rounds can ask
    NoTurn, NoCall

ASSUME TurnConstants ==
    /\ SessionOf \in [Turns -> Sessions]
    /\ Tier \in [Calls -> {"AUTO", "RED", "BLACK"}]
    /\ {OpenCall, Analyzer} \subseteq Calls
    /\ UNION {Registered, Images, Cells, Pathful} \subseteq Calls
    /\ Images \cap (Cells \cup {OpenCall}) = {}
    /\ Mountable \subseteq SUBSET Calls
    /\ DOMAIN Proposals = Turns
    /\ \A t \in Turns : Proposals[t] \subseteq Seq(Calls) \ {<<>>}
    /\ {MaxRounds, MaxAsks} \subseteq Nat \ {0}
    /\ NoTurn \notin Turns
    /\ NoCall \notin Calls

\* Request ids are drawn per turn: the n-th question of turn t.
ASSUME TurnRequests == Requests = Turns \X (1 .. MaxAsks)

VARIABLES
    turn,         \* [Turns -> record]: the locals of run_with_profile
    subject,      \* [Requests -> call]: action and parameters of the request
    active,       \* [Sessions -> turn]: whose token active_cancels holds
    cancelled,    \* the turns whose token is cancelled
    orphans,      \* tool tasks still running after their turn let go of them
    ran,          \* history: <<t, c>> was started as a tool by turn t
    bypassed,     \* history: <<t, c>> was run by turn t around the policy
    silent,       \* history: <<t, c>> ran and the turn went on with no audit row
    cancelAsked   \* history: the turns in flight when their session was cancelled

turnVars    == <<turn, subject>>
tokenVars   == <<active, cancelled, cancelAsked>>
historyVars == <<ran, bypassed, silent>>
vars == <<gatewayVars, turnVars, tokenVars, orphans, historyVars>>

Points == {"idle", "llm", "call", "gate", "policy", "ask", "wait", "guard",
           "running", "record", "route", "closing", "ended"}
Rows    == {"none", "BLOCKED", "APPROVED", "DENIED", "TIMEOUT", "AUTO_EXECUTED"}
Results == {"none", "ok", "err", "dropped", "unstarted"}

TurnRecord ==
    [ at       : Points,
      round    : 0 .. (MaxRounds - 1),
      todo     : Seq(Calls),              \* calls of this round not yet handled
      mounted  : SUBSET Calls,            \* allowed_tool_names
      approved : SUBSET Calls,            \* approved_this_turn
      failed   : SUBSET Calls,            \* keys of failed_calls
      spent    : BOOLEAN,                 \* turn_tool_tokens >= LLM_TURN_TOOL_BUDGET
      image    : BOOLEAN,                 \* last_successful_image_result is set
      colab    : {"none", "off", "on"},   \* no flow, or browser_connected
      asks     : 0 .. MaxAsks,
      result   : Results,                 \* tool_result of the current call
      row      : Rows,                    \* audit row of the current call
      last     : {"none", "Done", "Error"} ]  \* the closing event sent

NewTurn == [at |-> "idle", round |-> 0, todo |-> <<>>, mounted |-> {},
            approved |-> {}, failed |-> {}, spent |-> FALSE, image |-> FALSE,
            colab |-> "none", asks |-> 0, result |-> "none", row |-> "none",
            last |-> "none"]

Init ==
    /\ GatewayInit
    /\ turn = [t \in Turns |-> NewTurn]
    /\ subject = [r \in Requests |-> NoCall]
    /\ active = [s \in Sessions |-> NoTurn]
    /\ cancelled = {}
    /\ orphans = {} /\ ran = {} /\ bypassed = {} /\ silent = {}
    /\ cancelAsked = {}

At(t, p)   == turn[t].at = p
Current(t) == Head(turn[t].todo)
InFlight(t) == turn[t].at \notin {"idle", "ended"}
Request(t) == <<t, turn[t].asks>>

\* What a step that only moves turn t leaves alone.
OnlyTurn == UNCHANGED <<gatewayVars, subject, tokenVars, orphans, historyVars>>

Close(t, event) == turn' = [turn EXCEPT ![t].at = "closing", ![t].last = event]

\* The loop goes on to the next call of the round.
Leave(t) == turn' = [turn EXCEPT ![t].at = "call", ![t].todo = Tail(@),
                                 ![t].result = "none", ![t].row = "none"]

-----------------------------------------------------------------------------
\* A turn starts: its token replaces whatever the session's entry holds, then
\* a backend is chosen (there may be none), tools are mounted and the request
\* is looked at for a Colab workflow.
Begin(t) ==
    /\ At(t, "idle")
    /\ active' = [active EXCEPT ![SessionOf[t]] = t]
    /\ \/ Close(t, "Error")
       \/ \E M \in Mountable, flow \in {"none", "off"} :
            turn' = [turn EXCEPT ![t].at = "llm", ![t].mounted = M, ![t].colab = flow]
    /\ UNCHANGED <<gatewayVars, subject, cancelled, cancelAsked, orphans, historyVars>>

\* One model call: it fails, proposes calls (or a workflow or the intent
\* fallback does in its place), or ends the turn with a text or a question.
Chat(t) ==
    /\ At(t, "llm")
    /\ \/ \E event \in {"Done", "Error"} : Close(t, event)
       \/ \E calls \in Proposals[t] :
            turn' = [turn EXCEPT ![t].at = "call", ![t].todo = calls]
    /\ OnlyTurn

\* A plausible slip: the loop forgets to count its rounds.
NextRoundUncounted(t) ==
    /\ At(t, "call") /\ turn[t].todo = <<>>
    /\ IF turn[t].image THEN Close(t, "Done") ELSE turn' = [turn EXCEPT ![t].at = "llm"]
    /\ OnlyTurn

\* The round is over: an image ends the turn, the last round is an error.
NextRound(t) ==
    /\ At(t, "call") /\ turn[t].todo = <<>>
    /\ IF turn[t].image THEN Close(t, "Done")
       ELSE IF turn[t].round + 1 = MaxRounds THEN Close(t, "Error")
       ELSE turn' = [turn EXCEPT ![t].at = "llm", ![t].round = @ + 1]
    /\ OnlyTurn

NotMounted(t) ==
    /\ At(t, "call") /\ turn[t].todo # <<>> /\ Current(t) \notin turn[t].mounted
    /\ Leave(t)
    /\ OnlyTurn

NeedsLink(t) == /\ Current(t) \in Cells
                /\ turn[t].colab # "on"
                /\ OpenCall \in turn[t].mounted

\* A mounted call goes to the policy; a Colab cell without a connection first
\* has the connection opened for it, by the loop itself.
TakeCall(t) ==
    /\ At(t, "call") /\ turn[t].todo # <<>> /\ Current(t) \in turn[t].mounted
    /\ turn' = [turn EXCEPT ![t].at = IF NeedsLink(t) THEN "gate" ELSE "policy"]
    /\ bypassed' = IF NeedsLink(t) /\ OpenCall \in Registered
                   THEN bypassed \cup {<<t, OpenCall>>} ELSE bypassed
    /\ UNCHANGED <<gatewayVars, subject, tokenVars, orphans, ran, silent>>

\* ColabFlowState::observe_tool_result, when the turn has such a flow: an MCP result
\* is a text, so the connection counts as up whenever the call succeeds.
Linked(t, success) == IF turn[t].colab = "none" THEN "none"
                      ELSE IF success THEN "on" ELSE "off"

GateOpened(t) ==
    /\ At(t, "gate") /\ OpenCall \in Registered
    /\ turn' = [turn EXCEPT ![t].at = "policy", ![t].colab = Linked(t, TRUE)]
    /\ OnlyTurn

\* The cell is dropped: its ToolStart is never followed by a ToolEnd.
GateFailed(t) ==
    /\ At(t, "gate")
    /\ turn' = [turn EXCEPT ![t].at = "call", ![t].todo = Tail(@),
                            ![t].colab = Linked(t, FALSE)]
    /\ OnlyTurn

-----------------------------------------------------------------------------
\* Policy, in the order of the loop: blacklist, then approval.
Blocked(t) ==
    /\ At(t, "policy") /\ Tier[Current(t)] = "BLACK"
    /\ Leave(t)
    /\ OnlyTurn

AutoApproved(t) ==
    /\ At(t, "policy") /\ Tier[Current(t)] = "AUTO"
    /\ turn' = [turn EXCEPT ![t].at = "guard"]
    /\ OnlyTurn

\* A plausible slip: the audit row is written only where the user was asked.
ReuseApprovalUnlogged(t) ==
    /\ At(t, "policy") /\ Tier[Current(t)] = "RED"
    /\ Current(t) \in turn[t].approved
    /\ turn' = [turn EXCEPT ![t].at = "guard"]
    /\ OnlyTurn

\* The same call was approved before in this turn.
ReuseApproval(t) ==
    /\ At(t, "policy") /\ Tier[Current(t)] = "RED"
    /\ Current(t) \in turn[t].approved
    /\ turn' = [turn EXCEPT ![t].at = "guard", ![t].row = "APPROVED"]
    /\ OnlyTurn

\* A plausible slip: the approvals of the turn are not looked up.
AskUserAlways(t) ==
    /\ At(t, "policy") /\ Tier[Current(t)] = "RED"
    /\ turn[t].asks < MaxAsks
    /\ turn' = [turn EXCEPT ![t].at = "ask", ![t].asks = @ + 1]
    /\ OnlyTurn

\* The question goes out on the event channel before the gateway knows it.
AskUser(t) ==
    /\ At(t, "policy") /\ Tier[Current(t)] = "RED"
    /\ Current(t) \notin turn[t].approved
    /\ turn[t].asks < MaxAsks
    /\ turn' = [turn EXCEPT ![t].at = "ask", ![t].asks = @ + 1]
    /\ OnlyTurn

Park(t) ==
    /\ At(t, "ask")
    /\ Submit(Request(t))
    /\ subject' = [subject EXCEPT ![Request(t)] = Current(t)]
    /\ turn' = [turn EXCEPT ![t].at = "wait"]
    /\ UNCHANGED <<tokenVars, orphans, historyVars>>

Answer(t) == outcome[Request(t)]

\* A plausible slip: whatever is not a denial counts as an approval.
GrantedUnlessDenied(t) ==
    /\ At(t, "wait") /\ Answer(t) \in {"Approved", "Timeout"}
    /\ turn' = [turn EXCEPT ![t].at = "guard", ![t].row = "APPROVED",
                            ![t].approved = @ \cup {Current(t)}]
    /\ OnlyTurn

Granted(t) ==
    /\ At(t, "wait") /\ Answer(t) = "Approved"
    /\ turn' = [turn EXCEPT ![t].at = "guard", ![t].row = "APPROVED",
                            ![t].approved = @ \cup {Current(t)}]
    /\ OnlyTurn

\* Denied or timed out: logged as such, and the call is given up.
Refused(t) ==
    /\ At(t, "wait") /\ Answer(t) \in {"Denied", "Timeout"}
    /\ Leave(t)
    /\ OnlyTurn

-----------------------------------------------------------------------------
\* Loop guards before a tool runs.
RepeatedFailure(t) ==
    /\ At(t, "guard") /\ Current(t) \in turn[t].failed
    /\ Close(t, "Error")
    /\ OnlyTurn

OverBudget(t) ==
    /\ At(t, "guard") /\ Current(t) \notin turn[t].failed
    /\ turn[t].spent
    /\ Leave(t)
    /\ OnlyTurn

MayRun(t) == /\ At(t, "guard") /\ Current(t) \notin turn[t].failed
             /\ ~turn[t].spent

\* The select! polls the token first: with it cancelled the tool is not even
\* spawned.  A tool without a handler ends the same way.
NotStarted(t) ==
    /\ MayRun(t)
    /\ t \in cancelled \/ Current(t) \notin Registered
    /\ turn' = [turn EXCEPT ![t].at = "record", ![t].result = "unstarted"]
    /\ OnlyTurn

\* A plausible slip: a select! that is not biased to the token.
StartUnbiased(t) ==
    /\ MayRun(t) /\ Current(t) \in Registered
    /\ turn' = [turn EXCEPT ![t].at = "running"]
    /\ ran' = ran \cup {<<t, Current(t)>>}
    /\ UNCHANGED <<gatewayVars, subject, tokenVars, orphans, bypassed, silent>>

\* run_isolated: the tool runs in a task of its own.
Start(t) ==
    /\ MayRun(t)
    /\ t \notin cancelled /\ Current(t) \in Registered
    /\ turn' = [turn EXCEPT ![t].at = "running"]
    /\ ran' = ran \cup {<<t, Current(t)>>}
    /\ UNCHANGED <<gatewayVars, subject, tokenVars, orphans, bypassed, silent>>

\* The tool returns, panics or is timed out inside its task.
Finish(t) ==
    /\ At(t, "running")
    /\ \E r \in {"ok", "err"} :
         turn' = [turn EXCEPT ![t].at = "record", ![t].result = r]
    /\ OnlyTurn

\* Cancelled while it runs: the turn goes on, the task is only detached.
Abandon(t) ==
    /\ At(t, "running") /\ t \in cancelled
    /\ turn' = [turn EXCEPT ![t].at = "record", ![t].result = "dropped"]
    /\ orphans' = orphans \cup {<<t, Current(t)>>}
    /\ UNCHANGED <<gatewayVars, subject, tokenVars, historyVars>>

OrphanEnds(o) ==
    /\ o \in orphans
    /\ orphans' = orphans \ {o}
    /\ UNCHANGED <<gatewayVars, turnVars, tokenVars, historyVars>>

\* A plausible slip: a call that never started does not count as failed.
FailedInTask(t) == turn[t].result \in {"err", "dropped"}

Failed(t) == turn[t].result # "ok"

\* A failed image ends the turn on the spot, before the audit row is written.
ImageFailed(t) ==
    /\ At(t, "record") /\ Current(t) \in Images /\ Failed(t)
    /\ turn' = [turn EXCEPT ![t].at = "closing", ![t].last = "Done",
                            ![t].failed = @ \cup {Current(t)}]
    /\ silent' = IF turn[t].result # "unstarted" /\ turn[t].row = "none"
                 THEN silent \cup {<<t, Current(t)>>} ELSE silent
    /\ UNCHANGED <<gatewayVars, subject, tokenVars, orphans, ran, bypassed>>

\* The locals after a call: over its budget or not, gone to the next call or routed.
AfterCall(t, spent, routed) ==
    [turn[t] EXCEPT
        !.at = IF routed THEN "route" ELSE "call",
        !.todo = IF routed THEN @ ELSE Tail(@),
        !.failed = IF Failed(t) THEN @ \cup {Current(t)} ELSE @,
        !.image = @ \/ Current(t) \in Images,
        !.colab = IF Current(t) = OpenCall THEN Linked(t, ~Failed(t)) ELSE @,
        !.spent = spent,
        !.result = "none",
        !.row = IF ~routed THEN "none"
                ELSE IF Tier[Current(t)] = "AUTO" THEN "AUTO_EXECUTED" ELSE @]

\* Everything else: failure bookkeeping, the Colab flow, the audit row of an
\* auto-executed call, the token count, and the routing of a file result to an
\* analysis tool the loop runs itself; the result's data is looked at whether the tool
\* succeeded or not, and a call that was dropped or never started has none.
Record(t) ==
    /\ At(t, "record") /\ ~(Current(t) \in Images /\ Failed(t))
    /\ \E spent \in {turn[t].spent, TRUE}, routed \in BOOLEAN :
         /\ routed => /\ turn[t].result \in {"ok", "err"}
                      /\ Current(t) \in Pathful /\ Analyzer \in Registered
         /\ turn' = [turn EXCEPT ![t] = AfterCall(t, spent, routed)]
         /\ bypassed' = IF routed THEN bypassed \cup {<<t, Analyzer>>} ELSE bypassed
         /\ silent' = IF turn[t].result # "unstarted" /\ turn[t].row = "none"
                         /\ Tier[Current(t)] # "AUTO"
                      THEN silent \cup {<<t, Current(t)>>} ELSE silent
    /\ UNCHANGED <<gatewayVars, subject, tokenVars, orphans, ran>>

Routed(t) ==
    /\ At(t, "route")
    /\ Leave(t)
    /\ OnlyTurn

\* A plausible slip: a token without its guard.
EndLeavingToken(t) ==
    /\ At(t, "closing")
    /\ turn' = [turn EXCEPT ![t] = [NewTurn EXCEPT !.at = "ended", !.asks = turn[t].asks,
                                                   !.last = turn[t].last]]
    /\ UNCHANGED <<gatewayVars, subject, tokenVars, orphans, historyVars>>

\* The locals go, and CancelGuard removes the session's entry, whosever it is.
End(t) ==
    /\ At(t, "closing")
    /\ turn' = [turn EXCEPT ![t] = [NewTurn EXCEPT !.at = "ended", !.asks = turn[t].asks,
                                                   !.last = turn[t].last]]
    /\ active' = [active EXCEPT ![SessionOf[t]] = NoTurn]
    /\ UNCHANGED <<gatewayVars, subject, cancelled, cancelAsked, orphans, historyVars>>

-----------------------------------------------------------------------------
\* cancel_session: at most one token is reached, the one the map holds.
CancelSession(s) ==
    /\ \E t \in Turns : SessionOf[t] = s /\ InFlight(t)
    /\ cancelled' = cancelled \cup ({active[s]} \ {NoTurn})
    /\ cancelAsked' = cancelAsked \cup {t \in Turns : SessionOf[t] = s /\ InFlight(t)}
    /\ UNCHANGED <<gatewayVars, turnVars, active, orphans, historyVars>>

UserStep(r) == /\ \E a \in Answers : Respond(r, a)
               /\ UNCHANGED <<turnVars, tokenVars, orphans, historyVars>>
EmergencyStop == CancelAll /\ UNCHANGED <<turnVars, tokenVars, orphans, historyVars>>

RequesterStep(r) == /\ Receive(r) \/ Elapse(r) \/ GiveUp(r)
                    /\ UNCHANGED <<turnVars, tokenVars, orphans, historyVars>>

TurnStep(t) ==
    \/ Chat(t) \/ NextRound(t) \/ NotMounted(t) \/ TakeCall(t)
    \/ GateOpened(t) \/ GateFailed(t)
    \/ Blocked(t) \/ AutoApproved(t) \/ ReuseApproval(t) \/ AskUser(t) \/ Park(t)
    \/ Granted(t) \/ Refused(t)
    \/ RepeatedFailure(t) \/ OverBudget(t) \/ NotStarted(t) \/ Start(t)
    \/ Finish(t) \/ Abandon(t) \/ ImageFailed(t) \/ Record(t) \/ Routed(t)
    \/ End(t)

Next ==
    \/ \E t \in Turns : Begin(t) \/ TurnStep(t)
    \/ \E r \in Requests : UserStep(r) \/ RequesterStep(r)
    \/ EmergencyStop
    \/ \E s \in Sessions : CancelSession(s)
    \/ \E o \in orphans : OrphanEnds(o)

\* Every await of the turn is bounded by a timeout of its own (the model call,
\* run_isolated, MCP requests, the gateway's timer), so a turn that can step does.
Fairness ==
    /\ \A t \in Turns : WF_vars(TurnStep(t))
    /\ \A r \in Requests : WF_vars(RequesterStep(r))

Spec == Init /\ [][Next]_vars
FairSpec == Spec /\ Fairness
-----------------------------------------------------------------------------
\* The types of the turn's locals and of the loop's shared maps, and which turn
\* can hold which session's token (run_with_profile and active_cancels).
AgentInv ==
    /\ GatewayInv
    /\ turn \in [Turns -> TurnRecord]
    /\ subject \in [Requests -> Calls \cup {NoCall}]
    /\ active \in [Sessions -> Turns \cup {NoTurn}]
    /\ \A s \in Sessions : active[s] # NoTurn =>
         SessionOf[active[s]] = s /\ InFlight(active[s])
    /\ cancelled \subseteq cancelAsked /\ cancelAsked \subseteq Turns
    /\ UNION {orphans, ran, bypassed, silent} \subseteq Turns \X Calls
    /\ orphans \subseteq ran

\* A question of turn t about call c that the gateway answered with Approved,
\* on the word of the user.
ApprovedFor(t, c) == \E n \in 1 .. turn[t].asks :
    /\ subject[<<t, n>>] = c
    /\ outcome[<<t, n>>] = "Approved"
    /\ <<t, n>> \in consent

\* A tool that the loop starts as such was mounted for the turn, is not
\* blacklisted, and if it is RED then the user approved these very arguments in
\* this very turn: the approval is looked up by call (approved_this_turn), so a
\* stale one, one of another turn or one that lost to its timeout must not pass.
Authorised == \A t \in Turns, c \in Calls : <<t, c>> \in ran =>
    /\ InFlight(t) => c \in turn[t].mounted
    /\ Tier[c] # "BLACK"
    /\ Tier[c] = "RED" => ApprovedFor(t, c)

\* The user is not asked twice in a turn for a call already approved in it, in
\* whatever order the rounds repeat it (approved_this_turn).
NeverAskedAgain == \A t \in Turns : \A m, n \in 1 .. turn[t].asks :
    (m < n /\ outcome[<<t, m>>] = "Approved") => subject[<<t, m>>] # subject[<<t, n>>]

\* Once a turn's token is cancelled no tool task of it starts any more, although
\* the turn itself goes on: it may still ask, be approved, and loop (the biased
\* select! around run_isolated).
CancelStopsStarts ==
    [][\A t \in cancelled : At(t, "running")' => At(t, "running")]_vars

\* A call that failed in a turn, abandoned and never started ones included, is
\* not run again in that turn: the bookkeeping after the call and the guard
\* before the next one are far apart (failed_calls).
FailureIsFinal ==
    [][\A t \in Turns :
         /\ At(t, "running")' /\ ~At(t, "running") => Current(t) \notin turn[t].failed
         /\ At(t, "record") /\ ~At(t, "record")' /\ turn[t].result # "ok" =>
              Current(t) \in turn'[t].failed
         /\ InFlight(t) /\ InFlight(t)' => turn[t].failed \subseteq turn'[t].failed]_vars

\* A tool that ran has its audit row when the loop goes on, but for an image whose
\* generation failed: that path returns before the row is written (audit.log).
OnlyFailedImagesUnlogged == silent \subseteq Turns \X Images

\* Every turn that starts comes to its end, cancelled or not, answered by the user
\* or not: no await of the loop waits for ever on the gateway or on a tool.
EveryTurnEnds == \A t \in Turns : ~At(t, "idle") ~> At(t, "ended")

\* The points of a round in the order in which a turn comes by them.
Order == [llm |-> 0, call |-> 1, gate |-> 2, policy |-> 3, ask |-> 4, wait |-> 5,
          guard |-> 6, running |-> 7, record |-> 8, route |-> 9]

\* A turn whose locals are `new` has less to do than with `old`: it has started, is
\* closing or has ended, is in a later round, has its model's answer, has a call less
\* to handle, or is further with the call at hand.
Further(old, new) ==
    \/ old.at = "idle" /\ new.at # "idle"
    \/ old.at \notin {"closing", "ended"} /\ new.at = "closing"
    \/ old.at # "ended" /\ new.at = "ended"
    \/ /\ {old.at, new.at} \subseteq DOMAIN Order
       /\ \/ new.round > old.round
          \/ new.round = old.round /\ old.at = "llm" /\ new.at # "llm"
          \/ /\ new.round = old.round /\ "llm" \notin {old.at, new.at}
             /\ \/ Len(new.todo) < Len(old.todo)
                \/ new.todo = old.todo /\ Order[old.at] < Order[new.at]

\* A turn never comes back to where it was: whatever the model proposes, the user
\* answers and the tools return, every step of the loop leaves it less to do, so that
\* with its rounds and its lists of calls its steps are bounded (max_rounds).
TurnsRunDown ==
    [][\A t \in Turns : turn'[t] # turn[t] => Further(turn[t], turn'[t])]_vars

\* What cancel_session is documented to do: cancel all in-flight work of the
\* session, that is every turn of it in flight at that moment.
CancelReachesSession == cancelAsked \subseteq cancelled

\* What the gateway is documented to be: all RED actions pass through it, so a RED
\* call that was executed, as a tool of the turn or by the loop itself, was approved.
AllRedThroughGateway == \A t \in Turns, c \in Calls :
    <<t, c>> \in ran \cup bypassed /\ Tier[c] = "RED" => ApprovedFor(t, c)
=============================================================================
