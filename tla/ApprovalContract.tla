------------------------- MODULE ApprovalContract -------------------------
(***************************************************************************)
(* What the human-in-the-loop gateway promises to the agent loop and to    *)
(* the user, with none of its machinery (map, one-shot channel, timer).    *)
(* A request is asked, is open for a while, and closes exactly once.  The  *)
(* user can consent only while it is open; it closes "Approved" only after *)
(* consent, and "Denied" only without it.  A consent that comes too late   *)
(* may be lost to the timeout, never the other way round.                  *)
(***************************************************************************)
CONSTANT Requests

VARIABLES
    status,   \* [Requests -> {"unasked", "open"} \cup Outcomes]
    consent   \* the requests the user has said yes to

Outcomes == {"Approved", "Denied", "Timeout"}

Init == /\ status = [r \in Requests |-> "unasked"]
        /\ consent = {}

Ask(r) == /\ status[r] = "unasked"
          /\ status' = [status EXCEPT ![r] = "open"]
          /\ UNCHANGED consent

Consent(r) == /\ status[r] = "open"
              /\ consent' = consent \cup {r}
              /\ UNCHANGED status

Close(r, o) == /\ status[r] = "open"
               /\ o = "Approved" => r \in consent
               /\ o = "Denied"   => r \notin consent
               /\ status' = [status EXCEPT ![r] = o]
               /\ UNCHANGED consent

\* The emergency stop denies several requests in one step, but each of them
\* still closes in a step of its own: the requester reads its own answer.
Next == \E r \in Requests : \/ Ask(r)
                            \/ Consent(r)
                            \/ \E o \in Outcomes : Close(r, o)

\* An open request does not stay open for ever.
Fairness == \A r \in Requests : WF_<<status, consent>>(\E o \in Outcomes : Close(r, o))

Safety == Init /\ [][Next]_<<status, consent>>
Spec == Safety /\ Fairness
=============================================================================
