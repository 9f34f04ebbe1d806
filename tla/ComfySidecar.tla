---------------------------- MODULE ComfySidecar ----------------------------
(***************************************************************************)
(* The ComfyUI process of kria-core/src/image/comfy.rs: ensure_running,    *)
(* called by every local image job, stop and start, called by the          *)
(* defragmentation task after every n-th swap, and the dropping of a       *)
(* call's future when the image tool runs out of time.                     *)
(*                                                                         *)
(* The state is an atomic, the stored child sits under an async mutex, the *)
(* pid lockfile is on disk, and nothing orders two calls.  All processes   *)
(* are given the same port: one serves it, another cannot bind it.  The    *)
(* mutex is held across an await only by stop, from taking the child to    *)
(* the removal of the lockfile; everybody else holds it for one step.  An  *)
(* HTTP answer and the store that follows it are one step, as are the two  *)
(* phases of wait_ready, which make the same checks.  What the lockfile    *)
(* says is never used: it is there or not.                                 *)
(***************************************************************************)
CONSTANTS
    Jobs,      \* image jobs, which make sure that it runs
    Defrags,   \* defragmentation tasks, which stop it and start it again
    Comfys,    \* ComfyUI processes
    Prior,     \* one of them, which an earlier session may have left behind
    NoComfy, NoUser

ASSUME ComfyConstants ==
    /\ Prior \in Comfys /\ NoComfy \notin Comfys
    /\ NoUser \notin Jobs \cup Defrags /\ Jobs \cap Defrags = {}

Users == Jobs \cup Defrags

VARIABLES
    comfy,     \* the atomic state
    stored,    \* the child under the mutex
    stopper,   \* the user that holds the mutex across its awaits
    lockfile,  \* whether the pid lockfile exists
    running,   \* live processes
    serving,   \* the one that answers on the port
    uat,       \* where each user stands
    own,       \* the child a user's call holds outside the mutex
    abandoned, \* history: a start gave up without leaving STARTING
    shaken     \* history: the serving process died by itself, or a stop ran
               \* while another call was under way

processVars == <<stored, running, serving>>
comfyVars   == <<comfy, processVars, stopper, lockfile, uat, own, abandoned, shaken>>

ComfyStates == {"STOPPED", "STARTING", "READY", "ERROR"}
UserPoints  == {"idle", "probe", "ask", "spawn", "record", "store", "check", "poll",
                "stop", "kill"}

\* A user is starting a process from the moment it has spawned it.
Starter(u) == uat[u] \in {"record", "store"}
              \/ (uat[u] \in {"check", "poll"} /\ own[u] # NoComfy)
Free       == stopper = NoUser

UserAt(u, p) == uat' = [uat EXCEPT ![u] = p]
Ends(u)      == uat' = [uat EXCEPT ![u] = "idle"] /\ own' = [own EXCEPT ![u] = NoComfy]
Killed(p)    == /\ running' = running \ {p}
                /\ serving' = IF serving = p THEN NoComfy ELSE serving

ComfyInit ==
    /\ comfy = "STOPPED" /\ stored = NoComfy /\ stopper = NoUser
    /\ lockfile \in BOOLEAN
    /\ running \in {{}, {Prior}}
    /\ serving = IF Prior \in running THEN Prior ELSE NoComfy
    /\ uat = [u \in Users |-> "idle"]
    /\ own = [u \in Users |-> NoComfy]
    /\ abandoned = FALSE /\ shaken = FALSE

-----------------------------------------------------------------------------
\* ensure_running: READY is taken at its word, STARTING is waited for.
EnsureRunning(u) ==
    /\ uat[u] = "idle" /\ comfy # "READY"
    /\ UserAt(u, IF comfy = "STARTING" THEN "check" ELSE "probe")
    /\ shaken' = (shaken \/ \E v \in Users : uat[v] \in {"stop", "kill"})
    /\ UNCHANGED <<comfy, processVars, stopper, lockfile, own, abandoned>>

\* try_adopt_existing_process, with which start begins: if there was a lockfile,
\* whatever answers on the port is taken over; one that does not answer in time is
\* not, and the lockfile is removed.
ReadLockfile(u) ==
    /\ uat[u] = "probe"
    /\ UserAt(u, IF lockfile THEN "ask" ELSE "spawn")
    /\ UNCHANGED <<comfy, processVars, stopper, lockfile, own, abandoned, shaken>>

Adopt(u) ==
    /\ uat[u] = "ask" /\ serving # NoComfy
    /\ Ends(u)
    /\ comfy' = "READY"
    /\ UNCHANGED <<processVars, stopper, lockfile, abandoned, shaken>>

FindNobody(u) ==
    /\ uat[u] = "ask"
    /\ UserAt(u, "spawn")
    /\ lockfile' = FALSE
    /\ UNCHANGED <<comfy, processVars, stopper, own, abandoned, shaken>>

\* start: STARTING, the checks of the installation and the spawn, without an await.
InstallMissing(u) ==
    /\ uat[u] = "spawn"
    /\ Ends(u)
    /\ comfy' = "ERROR"
    /\ UNCHANGED <<processVars, stopper, lockfile, abandoned, shaken>>

SpawnError(u) ==
    /\ uat[u] = "spawn"
    /\ Ends(u)
    /\ comfy' = "STARTING" /\ abandoned' = TRUE
    /\ UNCHANGED <<processVars, stopper, lockfile, shaken>>

Spawn(u) ==
    /\ uat[u] = "spawn"
    /\ \E p \in Comfys \ ({Prior} \cup running \cup {stored} \cup {own[v] : v \in Users}) :
          own' = [own EXCEPT ![u] = p] /\ running' = running \cup {p}
    /\ UserAt(u, "record")
    /\ comfy' = "STARTING"
    /\ UNCHANGED <<stored, serving, stopper, lockfile, abandoned, shaken>>

RecordPid(u) ==
    /\ uat[u] = "record"
    /\ UserAt(u, "store")
    /\ lockfile' = TRUE
    /\ UNCHANGED <<comfy, processVars, stopper, own, abandoned, shaken>>

\* A plausible slip: the child that was stored before is let go, not killed.
StoreChildLeaks(u) ==
    /\ uat[u] = "store" /\ Free
    /\ UserAt(u, "check")
    /\ stored' = own[u]
    /\ UNCHANGED <<comfy, running, serving, stopper, lockfile, own, abandoned, shaken>>

\* The child that was stored before is dropped, which kills it.
StoreChild(u) ==
    /\ uat[u] = "store" /\ Free
    /\ UserAt(u, "check")
    /\ stored' = own[u]
    /\ Killed(stored)
    /\ UNCHANGED <<comfy, stopper, lockfile, own, abandoned, shaken>>

-----------------------------------------------------------------------------
\* wait_ready gives up: the stored child has exited, or the deadline is over.  Only
\* start, which waits for its own child, turns that into ERROR.
WaitFailsQuietly(u) ==
    /\ uat[u] = "check" /\ Free
    /\ Ends(u)
    /\ lockfile' = (lockfile /\ own[u] = NoComfy)
    /\ UNCHANGED <<comfy, processVars, stopper, abandoned, shaken>>

WaitFails(u) ==
    /\ uat[u] = "check" /\ Free
    /\ Ends(u)
    /\ comfy' = IF own[u] # NoComfy THEN "ERROR" ELSE comfy
    /\ lockfile' = (lockfile /\ own[u] = NoComfy)
    /\ UNCHANGED <<processVars, stopper, abandoned, shaken>>

CheckExit(u) ==
    /\ uat[u] = "check" /\ Free
    /\ stored # NoComfy => stored \in running
    /\ UserAt(u, "poll")
    /\ UNCHANGED <<comfy, processVars, stopper, lockfile, own, abandoned, shaken>>

\* Not yet: the poll is over, after its 500 ms sleep the next check comes.
PollAgain(u) ==
    /\ uat[u] = "poll"
    /\ UserAt(u, "check")
    /\ UNCHANGED <<comfy, processVars, stopper, lockfile, own, abandoned, shaken>>

PollAnswered(u) ==
    /\ uat[u] = "poll" /\ serving # NoComfy
    /\ Ends(u)
    /\ comfy' = "READY"
    /\ UNCHANGED <<processVars, stopper, lockfile, abandoned, shaken>>

-----------------------------------------------------------------------------
\* A plausible slip: the state is left to the start that follows.
StopKeepingState(u) ==
    /\ uat[u] = "idle"
    /\ UserAt(u, "stop")
    /\ shaken' = (shaken \/ \E v \in Users \ {u} : uat[v] # "idle")
    /\ UNCHANGED <<comfy, processVars, stopper, lockfile, own, abandoned>>

\* stop: the state first, then the mutex, then up to half a second in which the
\* child still answers; then the kill and the lockfile.  The defragmentation task
\* goes on to start.
Stop(u) ==
    /\ uat[u] = "idle"
    /\ UserAt(u, "stop")
    /\ comfy' = "STOPPED"
    /\ shaken' = (shaken \/ \E v \in Users \ {u} : uat[v] # "idle")
    /\ UNCHANGED <<processVars, stopper, lockfile, own, abandoned>>

TakeComfy(u) ==
    /\ uat[u] = "stop" /\ Free
    /\ UserAt(u, "kill")
    /\ stopper' = u
    /\ own' = [own EXCEPT ![u] = stored]
    /\ stored' = NoComfy
    /\ UNCHANGED <<comfy, running, serving, lockfile, abandoned, shaken>>

KillComfy(u) ==
    /\ uat[u] = "kill"
    /\ UserAt(u, "probe")
    /\ own' = [own EXCEPT ![u] = NoComfy]
    /\ stopper' = NoUser
    /\ Killed(own[u])
    /\ lockfile' = FALSE
    /\ UNCHANGED <<comfy, stored, abandoned, shaken>>

\* The tool's timeout drops the future of an image job.  A child that the call holds
\* outside the mutex is dropped with it, and so killed; the defragmentation task, the
\* only one that stops, is spawned on its own and is never dropped.
CallDropped(u) ==
    /\ u \in Jobs /\ uat[u] # "idle"
    /\ Ends(u)
    /\ IF uat[u] \in {"record", "store"} THEN Killed(own[u])
                                         ELSE UNCHANGED <<running, serving>>
    /\ abandoned' = (abandoned \/ Starter(u))
    /\ UNCHANGED <<comfy, stored, stopper, lockfile, shaken>>

\* External: the ComfyUI process itself.
Boots(p) ==
    /\ p \in running /\ serving = NoComfy
    /\ serving' = p
    /\ UNCHANGED <<comfy, stored, running, stopper, lockfile, uat, own, abandoned, shaken>>

Exits(p) ==
    /\ p \in running
    /\ Killed(p)
    /\ shaken' = (shaken \/ serving = p)
    /\ UNCHANGED <<comfy, stored, stopper, lockfile, uat, own, abandoned>>

ComfyStep(u) ==
    \/ ReadLockfile(u) \/ Adopt(u) \/ FindNobody(u)
    \/ InstallMissing(u) \/ SpawnError(u) \/ Spawn(u) \/ RecordPid(u) \/ StoreChild(u)
    \/ CheckExit(u) \/ WaitFails(u) \/ PollAgain(u) \/ PollAnswered(u)
    \/ TakeComfy(u) \/ KillComfy(u)

ComfyNext == \/ \E u \in Jobs : EnsureRunning(u) \/ CallDropped(u)
             \/ \E u \in Defrags : Stop(u)
             \/ \E u \in Users : ComfyStep(u)
             \/ \E p \in Comfys : Boots(p) \/ Exits(p)

ComfySpec == ComfyInit /\ [][ComfyNext]_comfyVars

-----------------------------------------------------------------------------
\* Types of the variables of ComfySidecar.
ComfyTypeOK ==
    /\ comfy \in ComfyStates
    /\ stored \in Comfys \cup {NoComfy} /\ stopper \in Users \cup {NoUser}
    /\ running \subseteq Comfys /\ serving \in running \cup {NoComfy}
    /\ uat \in [Users -> UserPoints] /\ own \in [Users -> Comfys \cup {NoComfy}]
    /\ lockfile \in BOOLEAN /\ abandoned \in BOOLEAN /\ shaken \in BOOLEAN

\* No ComfyUI process outlives its owner: every one alive is the stored child, in the
\* hands of a call that spawned or is stopping it, or left from an earlier session.
NoStrayComfy == running \subseteq {Prior, stored} \cup {own[u] : u \in Users}

\* STARTING, which makes every other call wait instead of starting, is somebody's: as
\* long as no start was dropped or failed to spawn, somebody is starting a process.
StartingIsSomeones == comfy = "STARTING" /\ ~abandoned => \E u \in Users : Starter(u)

\* READY is true: unless the process died by itself, a stop crossed another call or a
\* start was dropped, something answers on the port, or a newer start is under way.
ReadyServes ==
    comfy = "READY" /\ ~abandoned /\ ~shaken
        => serving # NoComfy \/ \E u \in Users : Starter(u)
=============================================================================
