--------------------------- MODULE ServerContract ---------------------------
(***************************************************************************)
(* What Orchestrator (llm/orchestrator/mod.rs) promises of the model       *)
(* server to its callers, with none of its machinery (processes, guards,   *)
(* ports, retries): whether the model is on the graphics card, whether the *)
(* server is READY, and who may change either.  One operation at a time    *)
(* holds lifecycle_lock.  All but ensure_ready first stop the watchdog; a  *)
(* watchdog that is stopped may linger for the step it is in.              *)
(***************************************************************************)
VARIABLES
    layers,     \* "gpu" or "cpu": whether current_ngl is above 0
    up,         \* whether the manager's state is READY
    op,         \* the operation that holds the lock
    stage,      \* how far it is
    armed,      \* whether a watchdog runs
    lingering   \* whether one that was stopped may still act

serverSide == <<layers, up, op, stage, armed, lingering>>

\* release_if_idle and shutdown are one kind: both stop the server and spawn none.
Kinds  == {"restart", "ensure", "evict", "restore", "stop"}
Stages == {"none", "entered", "busy", "good", "bad"}
Places == {"gpu", "cpu"}

ServerInit ==
    /\ layers \in Places /\ up = TRUE
    /\ op = "none" /\ stage = "none"
    /\ armed = TRUE /\ lingering = FALSE

\* An eviction or a restore that has nothing to do does not come this far.
\* ensure_ready does not stop the watchdog, and may find the server up.
Take(kind) ==
    /\ op = "none"
    /\ kind = "evict" => layers = "gpu"
    /\ kind = "restore" => layers = "cpu"
    /\ op' = kind
    /\ IF kind = "ensure" THEN stage' = "busy" \/ (up /\ stage' = "good")
                          ELSE stage' = "entered"
    /\ UNCHANGED <<layers, up, armed, lingering>>

Disarm ==
    /\ stage = "entered" /\ stage' = "busy"
    /\ armed' = FALSE /\ lingering' = (lingering \/ armed)
    /\ UNCHANGED <<layers, up, op>>

TakeDown ==
    /\ stage = "busy"
    /\ up' = FALSE
    /\ UNCHANGED <<layers, op, stage, armed, lingering>>

\* A plausible slip: an eviction, too, asks for what free memory allows.
SucceedOnCard ==
    /\ stage = "busy" /\ stage' = "good"
    /\ IF op = "stop" THEN up' = FALSE /\ UNCHANGED layers
       ELSE up' = TRUE /\ layers' \in Places
    /\ UNCHANGED <<op, armed, lingering>>

\* The server that comes up after an eviction has no layer on the card; any other has
\* as many as free memory allows, possibly none.
Succeed ==
    /\ stage = "busy" /\ stage' = "good"
    /\ IF op = "stop" THEN up' = FALSE /\ UNCHANGED layers
       ELSE /\ up' = TRUE
            /\ layers' \in IF op = "evict" THEN {"cpu"} ELSE Places
    /\ UNCHANGED <<op, armed, lingering>>

\* No server came up; current_ngl still tells of the last one.
Fail ==
    /\ stage = "busy" /\ stage' = "bad"
    /\ op # "stop"
    /\ up' = up \/ up' = FALSE
    /\ UNCHANGED <<layers, op, armed, lingering>>

LetGo ==
    /\ stage \in {"good", "bad"}
    /\ op' = "none" /\ stage' = "none"
    /\ armed' = (armed \/ (stage = "good" /\ op \in {"restart", "ensure", "restore"}))
    /\ UNCHANGED <<layers, up, lingering>>

\* The image path awaits its calls within a tool call, whose timeout drops them.
Drop ==
    /\ op \in {"evict", "restore"}
    /\ op' = "none" /\ stage' = "none"
    /\ UNCHANGED <<layers, up, armed, lingering>>

\* Whoever holds the lock, a watchdog may take the server down and bring up another.
WatchdogActs ==
    /\ armed \/ lingering
    /\ \/ up' = FALSE /\ UNCHANGED layers
       \/ up' = TRUE /\ layers' \in Places
    /\ lingering' \in {lingering, FALSE}
    /\ UNCHANGED <<op, stage, armed>>

Fade ==
    /\ lingering /\ lingering' = FALSE
    /\ UNCHANGED <<layers, up, op, stage, armed>>

ServerNext ==
    \/ \E kind \in Kinds : Take(kind)
    \/ Disarm \/ TakeDown \/ Succeed \/ Fail \/ LetGo \/ Drop
    \/ WatchdogActs \/ Fade

ServerSpec == ServerInit /\ [][ServerNext]_serverSide
=============================================================================
