------------------------- MODULE HitlGateway_proofs -------------------------
(***************************************************************************)
(* GatewayInv is inductive, and every behaviour of the gateway is one the  *)
(* approval contract allows (its safety part: liveness stays with TLC).    *)
(***************************************************************************)
EXTENDS HitlGateway, TLAPS

\* A gateway just built (HitlGateway::new) is consistent.
LEMMA GatewayInitInv == GatewayInit => GatewayInv
  BY DEF GatewayInit, GatewayInv, Phases, Answers, Outcomes, None

\* Inserting a request keeps the gateway consistent (request_approval_with_id).
LEMMA SubmitInv == ASSUME GatewayInv, NEW r \in Requests, Submit(r)
                   PROVE  GatewayInv'
  BY DEF GatewayInv, Submit, Phases, Answers, Outcomes, None

\* An answer takes its entry out and keeps the gateway consistent (respond).
LEMMA RespondInv == ASSUME GatewayInv, NEW r \in Requests, NEW a \in Answers, Respond(r, a)
                    PROVE  GatewayInv'
  BY DEF GatewayInv, Respond, Send, Phases, Answers, Outcomes, None

\* The emergency stop denies every entry and keeps the gateway consistent (cancel_all).
LEMMA CancelAllInv == ASSUME GatewayInv, CancelAll
                      PROVE  GatewayInv'
  BY DEF GatewayInv, CancelAll, Send, Phases, Answers, Outcomes, None

\* A requester that reads its answer keeps the gateway consistent.
LEMMA ReceiveInv == ASSUME GatewayInv, NEW r \in Requests, Receive(r)
                    PROVE  GatewayInv'
  BY DEF GatewayInv, Receive, Settle, Phases, Answers, Outcomes, None

\* A timer that fires with nothing received keeps the gateway consistent.
LEMMA ElapseInv == ASSUME GatewayInv, NEW r \in Requests, Elapse(r)
                   PROVE  GatewayInv'
  BY DEF GatewayInv, Elapse, Phases, Answers, Outcomes, None

\* The late removal in the timeout branch keeps the gateway consistent.
LEMMA GiveUpInv == ASSUME GatewayInv, NEW r \in Requests, GiveUp(r)
                   PROVE  GatewayInv'
  BY DEF GatewayInv, GiveUp, Settle, Phases, Answers, Outcomes, None

\* A step of some other component keeps the gateway consistent.
LEMMA GatewayStutterInv == GatewayInv /\ UNCHANGED gatewayVars => GatewayInv'
  BY DEF GatewayInv, gatewayVars, Phases, Answers, Outcomes, None

\* The map, the channels and the requesters stay consistent, and every outcome is
\* what the user said, for every set of requests (request_approval_with_id against
\* respond and cancel_all).
THEOREM GatewayIsConsistent == GatewaySpec => []GatewayInv
<1>1. GatewayInit => GatewayInv
  BY GatewayInitInv
<1>2. GatewayInv /\ [GatewayNext]_gatewayVars => GatewayInv'
  <2> SUFFICES ASSUME GatewayInv, [GatewayNext]_gatewayVars PROVE GatewayInv'
    OBVIOUS
  <2>1. CASE \E r \in Requests : Submit(r)
    BY <2>1, SubmitInv
  <2>2. CASE \E r \in Requests, a \in Answers : Respond(r, a)
    BY <2>2, RespondInv
  <2>3. CASE \E r \in Requests : Receive(r)
    BY <2>3, ReceiveInv
  <2>4. CASE \E r \in Requests : Elapse(r)
    BY <2>4, ElapseInv
  <2>5. CASE \E r \in Requests : GiveUp(r)
    BY <2>5, GiveUpInv
  <2>6. CASE CancelAll
    BY <2>6, CancelAllInv
  <2>7. CASE UNCHANGED gatewayVars
    BY <2>7, GatewayStutterInv
  <2> QED
    BY <2>1, <2>2, <2>3, <2>4, <2>5, <2>6, <2>7 DEF GatewayNext
<1> QED
  BY <1>1, <1>2, PTL DEF GatewaySpec

-----------------------------------------------------------------------------
ContractStatus == [r \in Requests |-> StatusOf(r)]

\* Every step of the gateway is a step of the contract or leaves it where it was.
LEMMA StepKeepsContract ==
    ASSUME GatewayInv, [GatewayNext]_gatewayVars
    PROVE  [Contract!Next]_<<ContractStatus, consent>>
<1>1. ASSUME NEW r \in Requests, Submit(r)
      PROVE  Contract!Ask(r)
  BY <1>1 DEF ContractStatus, StatusOf, Submit, Contract!Ask, GatewayInv, None
<1>2. ASSUME NEW r \in Requests, Respond(r, "Approved")
      PROVE  Contract!Consent(r)
  BY <1>2 DEF ContractStatus, StatusOf, Respond, Contract!Consent, GatewayInv
<1>3. ASSUME NEW r \in Requests, Respond(r, "Denied")
      PROVE  UNCHANGED <<ContractStatus, consent>>
  BY <1>3 DEF ContractStatus, StatusOf, Respond
<1>4. ASSUME NEW r \in Requests, Receive(r)
      PROVE  Contract!Close(r, slot[r])
  BY <1>4 DEF ContractStatus, StatusOf, Receive, Settle, Contract!Close, GatewayInv, Answers, None
<1>5. ASSUME NEW r \in Requests, GiveUp(r)
      PROVE  Contract!Close(r, "Timeout")
  BY <1>5 DEF ContractStatus, StatusOf, GiveUp, Settle, Contract!Close, GatewayInv
<1>6. ASSUME NEW r \in Requests, Elapse(r)
      PROVE  UNCHANGED <<ContractStatus, consent>>
  BY <1>6 DEF ContractStatus, StatusOf, Elapse, GatewayInv
<1>7. CASE CancelAll
  BY <1>7 DEF ContractStatus, StatusOf, CancelAll
<1>8. CASE UNCHANGED gatewayVars
  BY <1>8 DEF ContractStatus, StatusOf, gatewayVars
<1>9. CASE \E r \in Requests, a \in Answers : Respond(r, a)
  <2>1. PICK r \in Requests, a \in Answers : Respond(r, a)
    BY <1>9
  <2>2. CASE a = "Approved"
    BY <2>1, <2>2, <1>2 DEF Contract!Next
  <2>3. CASE a = "Denied"
    BY <2>1, <2>3, <1>3
  <2> QED
    BY <2>2, <2>3 DEF Answers
<1>10. CASE \E r \in Requests : Receive(r)
  <2>1. PICK r \in Requests : Receive(r)
    BY <1>10
  <2>2. slot[r] \in Contract!Outcomes
    BY <2>1 DEF Receive, GatewayInv, Contract!Outcomes, Answers
  <2> QED
    BY <2>1, <2>2, <1>4 DEF Contract!Next
<1>11. CASE \E r \in Requests : GiveUp(r)
  BY <1>11, <1>5 DEF Contract!Next, Contract!Outcomes
<1>12. CASE \E r \in Requests : Submit(r) \/ Elapse(r)
  BY <1>12, <1>1, <1>6 DEF Contract!Next
<1> QED
  BY <1>7, <1>8, <1>9, <1>10, <1>11, <1>12 DEF GatewayNext

\* The gateway implements the approval contract for every set of requests: it closes
\* a request once, and as Approved only on the user's word given while the request
\* was open (request_approval_with_id, respond, cancel_all, the timer).
THEOREM GatewayKeepsContractSafety == GatewaySpec => Contract!Safety
<1>1. GatewayInit => Contract!Init
  BY DEF GatewayInit, Contract!Init, StatusOf
<1>2. GatewayInv /\ [GatewayNext]_gatewayVars => [Contract!Next]_<<ContractStatus, consent>>
  BY StepKeepsContract
<1>3. GatewaySpec => []GatewayInv
  BY GatewayIsConsistent
<1> QED
  BY <1>1, <1>2, <1>3, PTL DEF GatewaySpec, Contract!Safety, ContractStatus
=============================================================================
