------------------------------ MODULE ImageSwap ------------------------------
(***************************************************************************)
(* How an image job gets the graphics card: ImageOrchestrator::generate,   *)
(* generate_local and generate_with_swap (image/orchestrator.rs) and the   *)
(* EvictionToken (image/swap.rs).  On a small card the language model is   *)
(* restarted on the CPU, a token stands for that, the picture is drawn,    *)
(* and the token restores the model, awaited by the job or, when the job   *)
(* is dropped, in a task of its own.                                       *)
(*                                                                         *)
(* The model server is seen through its contract, which LlmRuntime keeps:  *)
(* a job takes lifecycle_lock for its eviction and its restore, other      *)
(* turns and commands take it for restarts, ensure_ready and stops, and    *)
(* the watchdog, once armed, moves the model with no lock at all.  Free    *)
(* memory is what a wait for it reports.  ComfyUI is what drawing comes to *)
(* (ComfySidecar has its inside), so is the cloud.                         *)
(***************************************************************************)
EXTENDS ServerContract, Naturals, FiniteSets

CONSTANTS
    Draws,      \* image jobs; one that is over is used again
    Permits,    \* max_concurrent_jobs
    MaxHangs    \* bound on hang_count

ASSUME SwapConstants == IsFiniteSet(Draws) /\ Permits \in Nat \ {0} /\ MaxHangs \in Nat \ {0}

VARIABLES
    jat,        \* where each job stands
    mode,       \* its ResolvedMode
    second,     \* whether its acquire is the retry
    token,      \* whether it holds a token that has not begun to restore
    restorer,   \* the task its dropped token spawned: none, waits, runs
    hangs,      \* hang_count
    degraded,   \* session_degraded
    meddled,    \* history: another actor changed the server during this swap
    excused     \* history: why the model may stay on the CPU

swapVars   == <<serverSide, jat, mode, second, token, restorer, hangs, degraded,
                meddled, excused>>

Modes      == {"local_only", "cloud_only", "local_then_cloud", "cloud_then_local"}
SwapPoints == {"idle", "cloud", "acquire", "evict", "evicting", "barrier", "pause",
               "permit", "draw", "restore", "restoring"}

GpuResident == layers = "gpu" /\ up
To(j, p)    == jat' = [jat EXCEPT ![j] = p]

\* A step of the server that the jobs of S did not ask for.
Meddle(S) == meddled' = [k \in Draws |-> meddled[k] \/ (/\ k \in S /\ jat[k] # "idle"
                                                        /\ <<layers, up>>' # <<layers, up>>)]

\* The job has put the model on the CPU, or found it so, and has no token yet.
Owes(j) == \/ jat[j] \in {"barrier", "pause"}
           \/ jat[j] = "evicting" /\ stage = "good"
           \/ second[j] /\ jat[j] \in {"acquire", "evict", "evicting"}

SwapInit ==
    /\ ServerInit
    /\ jat = [j \in Draws |-> "idle"]
    /\ mode = [j \in Draws |-> "local_only"]
    /\ second = [j \in Draws |-> FALSE]
    /\ token = [j \in Draws |-> FALSE]
    /\ restorer = [j \in Draws |-> "none"]
    /\ hangs = 0 /\ degraded = FALSE
    /\ meddled = [j \in Draws |-> FALSE]
    /\ excused = (layers = "cpu")

-----------------------------------------------------------------------------
\* generate: the mode is resolved; a degraded session forces the cloud on every mode
\* but local_only, which it refuses (the job is over at once).  The tier is A, which
\* draws without a swap, or B, which swaps; C never draws.
Begin(j, m, tier) ==
    /\ jat[j] = "idle" /\ restorer[j] = "none"
    /\ ~(degraded /\ m = "local_only") /\ ~(tier = "c" /\ m = "local_only")
    /\ mode' = [mode EXCEPT ![j] = IF degraded THEN "cloud_only"
                                   ELSE IF tier = "c" THEN "cloud_only" ELSE m]
    /\ To(j, IF mode'[j] \in {"cloud_only", "cloud_then_local"} THEN "cloud"
             ELSE IF tier = "b" THEN "acquire" ELSE "permit")
    /\ second' = [second EXCEPT ![j] = FALSE]
    /\ meddled' = [meddled EXCEPT ![j] = FALSE]
    /\ UNCHANGED <<serverSide, token, restorer, hangs, degraded, excused>>

\* What the failure of the local part leads to.
LocalFailure(j) == IF mode[j] = "local_then_cloud" THEN "cloud" ELSE "idle"

\* generate_cloud; when it fails, cloud_then_local goes on with the card.
CloudEnds(j) ==
    /\ jat[j] = "cloud"
    /\ \/ To(j, "idle")
       \/ /\ mode[j] = "cloud_then_local"
          /\ \E p \in {"acquire", "permit"} : To(j, p)
    /\ UNCHANGED <<serverSide, mode, second, token, restorer, hangs, degraded, meddled, excused>>

-----------------------------------------------------------------------------
\* acquire.  With nothing on the card it grants the token without looking at the
\* memory; the comment in the code still promises that look.
GrantToken(j) ==
    /\ To(j, "permit")
    /\ token' = [token EXCEPT ![j] = TRUE]

\* A plausible slip, and what the comment says: the memory is waited for anyway.
FastPathToBarrier(j) ==
    /\ jat[j] = "acquire" /\ ~GpuResident
    /\ To(j, "barrier")
    /\ UNCHANGED <<serverSide, mode, second, token, restorer, hangs, degraded, meddled, excused>>

FastPath(j) ==
    /\ jat[j] = "acquire" /\ ~GpuResident
    /\ GrantToken(j)
    /\ UNCHANGED <<serverSide, mode, second, restorer, hangs, degraded, meddled, excused>>

WantEviction(j) ==
    /\ jat[j] = "acquire" /\ GpuResident
    /\ To(j, "evict")
    /\ UNCHANGED <<serverSide, mode, second, token, restorer, hangs, degraded, meddled, excused>>

\* evict_to_cpu, which takes the lock.
EvictNoop(j) ==
    /\ jat[j] = "evict" /\ op = "none" /\ layers = "cpu"
    /\ To(j, "barrier")
    /\ UNCHANGED <<serverSide, mode, second, token, restorer, hangs, degraded, meddled, excused>>

EvictBegins(j) ==
    /\ jat[j] = "evict" /\ Take("evict")
    /\ To(j, "evicting")
    /\ UNCHANGED <<mode, second, token, restorer, hangs, degraded, meddled, excused>>

\* A retry that fails counts as a hang; the second one degrades the session.
CountHang(j) == IF second[j] /\ hangs < MaxHangs
                THEN hangs' = hangs + 1 /\ degraded' = (degraded \/ hangs' >= 2)
                ELSE UNCHANGED <<hangs, degraded>>

EvictEnds(j) ==
    /\ jat[j] = "evicting" /\ LetGo
    /\ IF stage = "good" THEN To(j, "barrier") /\ UNCHANGED <<hangs, degraded>>
                         ELSE To(j, LocalFailure(j)) /\ CountHang(j)
    /\ UNCHANGED <<mode, second, token, restorer, meddled, excused>>

\* VramBarrier.
BarrierPassed(j) ==
    /\ jat[j] = "barrier"
    /\ GrantToken(j)
    /\ UNCHANGED <<serverSide, mode, second, restorer, hangs, degraded, meddled, excused>>

BarrierTimeout(j) ==
    /\ jat[j] = "barrier"
    /\ To(j, IF second[j] THEN LocalFailure(j) ELSE "pause")
    /\ CountHang(j)
    /\ excused' = (excused \/ second[j])
    /\ UNCHANGED <<serverSide, mode, second, token, restorer, meddled>>

Retry(j) ==
    /\ jat[j] = "pause"
    /\ To(j, "acquire")
    /\ second' = [second EXCEPT ![j] = TRUE]
    /\ UNCHANGED <<serverSide, mode, token, restorer, hangs, degraded, meddled, excused>>

-----------------------------------------------------------------------------
\* generate_local: the permit is taken with the token in hand.
TakePermit(j) ==
    /\ jat[j] = "permit"
    /\ Cardinality({k \in Draws : jat[k] = "draw"}) < Permits
    /\ To(j, "draw")
    /\ UNCHANGED <<serverSide, mode, second, token, restorer, hangs, degraded, meddled, excused>>

\* The images are there, or ComfyUI failed.  A swap ends with the awaited restore
\* either way, marked as done before it begins; what comes of the job is decided
\* after it, as it is here for a job without a swap.
DrawEnds(j) ==
    /\ jat[j] = "draw"
    /\ IF token[j] THEN To(j, "restore")
                   ELSE \E p \in {"idle", LocalFailure(j)} : To(j, p)
    /\ token' = [token EXCEPT ![j] = FALSE]
    /\ UNCHANGED <<serverSide, mode, second, restorer, hangs, degraded, meddled, excused>>

AfterSwap(j) == \E p \in {"idle", LocalFailure(j)} : To(j, p)

\* restore_from_cpu, which takes the lock, by the job.
RestoreNoop(j) ==
    /\ jat[j] = "restore" /\ op = "none" /\ layers = "gpu"
    /\ AfterSwap(j)
    /\ UNCHANGED <<serverSide, mode, second, token, restorer, hangs, degraded, meddled, excused>>

RestoreBegins(j) ==
    /\ jat[j] = "restore" /\ Take("restore")
    /\ To(j, "restoring")
    /\ UNCHANGED <<mode, second, token, restorer, hangs, degraded, meddled, excused>>

RestoreEnds(j) ==
    /\ jat[j] = "restoring" /\ LetGo
    /\ AfterSwap(j)
    /\ UNCHANGED <<mode, second, token, restorer, hangs, degraded, meddled, excused>>

-----------------------------------------------------------------------------
\* The lock of a dropped call is released with the server as it stands.
Unlock(j) == IF jat[j] \in {"evicting", "restoring"} THEN Drop ELSE UNCHANGED serverSide

\* A plausible slip: a dropped token forgets to restore.
JobDroppedForgetting(j) ==
    /\ jat[j] # "idle"
    /\ To(j, "idle") /\ Unlock(j)
    /\ token' = [token EXCEPT ![j] = FALSE]
    /\ excused' = (excused \/ Owes(j) \/ jat[j] \in {"restore", "restoring"})
    /\ UNCHANGED <<mode, second, restorer, hangs, degraded, meddled>>

\* The timeout of the tool drops the job; a token that has not begun to restore spawns
\* a task that does.
JobDropped(j) ==
    /\ jat[j] # "idle"
    /\ To(j, "idle") /\ Unlock(j)
    /\ token' = [token EXCEPT ![j] = FALSE]
    /\ restorer' = [restorer EXCEPT ![j] = IF token[j] THEN "waits" ELSE @]
    /\ excused' = (excused \/ Owes(j) \/ jat[j] \in {"restore", "restoring"})
    /\ UNCHANGED <<mode, second, hangs, degraded, meddled>>

RestorerNoop(j) ==
    /\ restorer[j] = "waits" /\ op = "none" /\ layers = "gpu"
    /\ restorer' = [restorer EXCEPT ![j] = "none"]
    /\ UNCHANGED <<serverSide, jat, mode, second, token, hangs, degraded, meddled, excused>>

RestorerBegins(j) ==
    /\ restorer[j] = "waits" /\ Take("restore")
    /\ restorer' = [restorer EXCEPT ![j] = "runs"]
    /\ UNCHANGED <<jat, mode, second, token, hangs, degraded, meddled, excused>>

RestorerEnds(j) ==
    /\ restorer[j] = "runs" /\ LetGo
    /\ restorer' = [restorer EXCEPT ![j] = "none"]
    /\ UNCHANGED <<jat, mode, second, token, hangs, degraded, meddled, excused>>

-----------------------------------------------------------------------------
jobVars == <<jat, mode, second, token, restorer, hangs, degraded>>

\* The jobs whose own call is at work.
Callers == {j \in Draws : jat[j] \in {"evicting", "restoring"}}

\* The operation that holds the lock goes on.  An eviction that succeeds leaves the
\* model on the CPU for its job to bring back; a restore that fails leaves it there,
\* and any other spawn may find no room.
OperationProceeds ==
    /\ Disarm \/ TakeDown \/ Succeed \/ Fail
    /\ Meddle(Draws \ Callers)
    /\ excused' = CASE stage' = "good" /\ op = "evict" -> FALSE
                    [] stage' = "bad" /\ op = "restore" -> TRUE
                    [] stage' = "good" /\ up' -> layers' = "cpu"
                    [] OTHER -> excused
    /\ UNCHANGED jobVars

\* Other turns call ensure_ready; commands restart the server; it is stopped when the
\* program has been idle, and at its end.
OthersBegin(kind) == Take(kind) /\ UNCHANGED <<jobVars, meddled, excused>>

OthersEnd ==
    /\ op \in {"restart", "ensure", "stop"} /\ LetGo
    /\ UNCHANGED <<jobVars, meddled, excused>>

\* A watchdog takes the server down and brings another up by what memory is free.
WatchdogMoves ==
    /\ WatchdogActs
    /\ Meddle(Draws)
    /\ excused' = IF up' THEN layers' = "cpu" ELSE excused
    /\ UNCHANGED jobVars

WatchdogGone == Fade /\ UNCHANGED <<jobVars, meddled, excused>>

JobStep(j) ==
    \/ CloudEnds(j)
    \/ FastPath(j) \/ WantEviction(j)
    \/ EvictNoop(j) \/ EvictBegins(j) \/ EvictEnds(j)
    \/ BarrierPassed(j) \/ BarrierTimeout(j) \/ Retry(j)
    \/ TakePermit(j) \/ DrawEnds(j)
    \/ RestoreNoop(j) \/ RestoreBegins(j) \/ RestoreEnds(j)

RestorerStep(j) == RestorerNoop(j) \/ RestorerBegins(j) \/ RestorerEnds(j)

SwapNext ==
    \/ \E j \in Draws, m \in Modes, tier \in {"a", "b", "c"} : Begin(j, m, tier)
    \/ \E j \in Draws : JobStep(j) \/ RestorerStep(j) \/ JobDropped(j)
    \/ OperationProceeds
    \/ \E kind \in {"restart", "ensure", "stop"} : OthersBegin(kind)
    \/ OthersEnd
    \/ WatchdogMoves \/ WatchdogGone

SwapSpec == SwapInit /\ [][SwapNext]_swapVars

-----------------------------------------------------------------------------
\* Types of the variables of ImageSwap; a token is held from its grant to the end of
\* the drawing, and its restorer runs when its job is over.
SwapTypeOK ==
    /\ layers \in Places /\ {up, armed, lingering, degraded, excused} \subseteq BOOLEAN
    /\ op \in Kinds \cup {"none"} /\ stage \in Stages
    /\ jat \in [Draws -> SwapPoints] /\ mode \in [Draws -> Modes]
    /\ second \in [Draws -> BOOLEAN] /\ token \in [Draws -> BOOLEAN]
    /\ restorer \in [Draws -> {"none", "waits", "runs"}]
    /\ hangs \in 0..MaxHangs /\ meddled \in [Draws -> BOOLEAN]
    /\ \A j \in Draws : /\ token[j] => jat[j] \in {"permit", "draw"}
                        /\ restorer[j] # "none" => jat[j] = "idle"

\* The model comes back to the card: when it is on the CPU, a swap is under way or a
\* restore is due, unless a job was dropped between the eviction and its token or
\* inside its own restore, a retry or a restore failed, or there was no room.
NotStranded ==
    layers = "cpu" /\ ~excused
        => \E j \in Draws : \/ Owes(j) \/ token[j] \/ restorer[j] # "none"
                            \/ jat[j] \in {"restore", "restoring"}

\* What the swap is for: while a job with a token draws, the model is not on the card,
\* unless another job's restore, another turn or the watchdog has moved it meanwhile.
CardIsFree ==
    \A j \in Draws : jat[j] = "draw" /\ token[j] /\ ~meddled[j] => ~GpuResident

\* A hang is only counted for a job on its second attempt, and when somebody else moved the
\* model during its swap: for a job left alone the retry takes the fast path and cannot
\* fail, so memory that never becomes free does not degrade the session.
HangsNeedCompany ==
    [][hangs' > hangs => \E j \in Draws : second[j] /\ meddled[j] /\ jat'[j] # jat[j]]_swapVars
=============================================================================
