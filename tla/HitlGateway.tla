---------------------------- MODULE HitlGateway ----------------------------
(***************************************************************************)
(* HitlGateway of kria-core/src/safety/hitl.rs.  A requester inserts a     *)
(* PendingRequest holding the sender of a one-shot channel, then waits on  *)
(* the receiver under tokio::time::timeout.  Answers (respond) and the     *)
(* emergency stop (cancel_all) come from other tasks and take the entry    *)
(* out of the map.  The timer firing and the removal of the entry are two  *)
(* steps: the requester has to lock the map again, and an answer that gets *)
(* the lock first is accepted (respond returns true) although the receiver *)
(* is gone.                                                                *)
(*                                                                         *)
(* respond with an id that is not in the map returns false and changes     *)
(* nothing: it is a stuttering step here.                                  *)
(***************************************************************************)
CONSTANT Requests

VARIABLES
    phase,    \* where request_approval_with_id stands for each request
    pending,  \* the keys of the map `pending`
    slot,     \* what the one-shot channel holds for the requester
    outcome,  \* what request_approval_with_id returned
    consent   \* history: respond(r, Approved) took r out of the map

gatewayVars == <<phase, pending, slot, outcome, consent>>

None     == "none"
Answers  == {"Approved", "Denied"}
Outcomes == Answers \cup {"Timeout"}
Phases   == {"new", "waiting", "elapsed", "settled"}

\* Types, and how the phases, the map and the channels hang together: an entry is
\* in the map only while its requester has not returned, an answer is in a channel
\* only once the entry is gone, only a requester that returned has an outcome, and
\* both say what the user said (request_approval_with_id against respond and
\* cancel_all).
GatewayInv ==
    /\ phase \in [Requests -> Phases]
    /\ pending \subseteq Requests
    /\ slot \in [Requests -> Answers \cup {None}]
    /\ outcome \in [Requests -> Outcomes \cup {None}]
    /\ consent \subseteq Requests
    /\ \A r \in Requests :
         /\ r \in pending => phase[r] \in {"waiting", "elapsed"} /\ slot[r] = None
         /\ phase[r] = "waiting" => (r \in pending <=> slot[r] = None)
         /\ phase[r] = "new" => r \notin consent /\ slot[r] = None
         /\ phase[r] = "settled" <=> outcome[r] # None
         /\ slot[r] = "Approved" => r \in consent
         /\ slot[r] = "Denied" => r \notin consent
         /\ outcome[r] = "Approved" => r \in consent
         /\ outcome[r] = "Denied" => r \notin consent
         /\ r \in pending => r \notin consent

GatewayInit ==
    /\ phase = [r \in Requests |-> "new"]
    /\ pending = {}
    /\ slot = [r \in Requests |-> None]
    /\ outcome = [r \in Requests |-> None]
    /\ consent = {}

\* The entry is in the map before the frontends are told and before the wait.
Submit(r) ==
    /\ phase[r] = "new"
    /\ phase' = [phase EXCEPT ![r] = "waiting"]
    /\ pending' = pending \cup {r}
    /\ UNCHANGED <<slot, outcome, consent>>

\* send() on a one-shot channel whose receiver was dropped is ignored.
Send(S, a) ==
    [r \in Requests |-> IF r \in S /\ phase[r] = "waiting" THEN a ELSE slot[r]]

\* One click on Approve or Deny: the first to take the entry out decides.
Respond(r, a) ==
    /\ r \in pending
    /\ pending' = pending \ {r}
    /\ slot' = Send({r}, a)
    /\ consent' = IF a = "Approved" THEN consent \cup {r} ELSE consent
    /\ UNCHANGED <<phase, outcome>>

\* A plausible slip: the emergency stop answers with the wrong decision.
CancelAllApproving ==
    /\ pending # {}
    /\ pending' = {}
    /\ slot' = Send(pending, "Approved")
    /\ UNCHANGED <<phase, outcome, consent>>

\* The emergency stop drains the whole map, whoever the requesters are.
CancelAll ==
    /\ pending # {}
    /\ pending' = {}
    /\ slot' = Send(pending, "Denied")
    /\ UNCHANGED <<phase, outcome, consent>>

Settle(r, o) ==
    /\ phase' = [phase EXCEPT ![r] = "settled"]
    /\ outcome' = [outcome EXCEPT ![r] = o]

\* The timeout future polls the receiver before the timer.
Receive(r) ==
    /\ phase[r] = "waiting"
    /\ slot[r] # None
    /\ Settle(r, slot[r])
    /\ UNCHANGED <<pending, slot, consent>>

\* The timer fires with nothing received; the receiver is dropped.
Elapse(r) ==
    /\ phase[r] = "waiting"
    /\ slot[r] = None
    /\ phase' = [phase EXCEPT ![r] = "elapsed"]
    /\ UNCHANGED <<pending, slot, outcome, consent>>

\* The timeout branch, after it has locked the map again.
GiveUp(r) ==
    /\ phase[r] = "elapsed"
    /\ pending' = pending \ {r}
    /\ Settle(r, "Timeout")
    /\ UNCHANGED <<slot, consent>>

GatewayNext ==
    \/ \E r \in Requests : \/ Submit(r)
                           \/ \E a \in Answers : Respond(r, a)
                           \/ Receive(r)
                           \/ Elapse(r)
                           \/ GiveUp(r)
    \/ CancelAll

\* The runtime polls a ready requester, and a timer that is armed fires.
\* Nothing is assumed of the user.
GatewayFairness ==
    \A r \in Requests : WF_gatewayVars(Receive(r) \/ Elapse(r) \/ GiveUp(r))

GatewaySpec == GatewayInit /\ [][GatewayNext]_gatewayVars /\ GatewayFairness

-----------------------------------------------------------------------------
\* The refinement mapping: a request is open from its insertion until its
\* requester has returned, whether or not the map still holds its entry.
StatusOf(r) == IF phase[r] = "settled" THEN outcome[r]
               ELSE IF phase[r] = "new" THEN "unasked" ELSE "open"

Contract == INSTANCE ApprovalContract
                WITH status <- [r \in Requests |-> StatusOf(r)]

\* The gateway keeps the contract: it settles every request once, approves only
\* what the user approved while the request was open, and always answers
\* (request_approval_with_id against respond, cancel_all and its own timer).
GatewayKeepsContract == Contract!Spec
=============================================================================
