----------------------------- MODULE LlmRuntime -----------------------------
(***************************************************************************)
(* The local model server of kria-core/src/llm/orchestrator: the           *)
(* operations of Orchestrator (restart, ensure_ready, release_if_idle,     *)
(* shutdown, evict_to_cpu, restore_from_cpu), which exclude each other by  *)
(* lifecycle_lock, and the swaps of the GPU watchdog, which take no lock   *)
(* and share LlamaServerManager with them.  Both stop and spawn the server *)
(* by the same code, so stop and spawn are one set of actions here, taken  *)
(* by an actor: Lifecycle for the holder of the lock, a watchdog task for  *)
(* each swap.  An action is the code between two awaits that wait for      *)
(* something: the exit of a process, its port, its health, a mutex that    *)
(* may be held meanwhile.                                                  *)
(*                                                                         *)
(* Aborting a watchdog task does not wait for it: the step it is in still  *)
(* happens, and what it holds is dropped later.  A ChildGuard that is      *)
(* dropped kills its process.  The mutex of `child` is held while the      *)
(* process taken out of it is terminated, so taking and killing are one    *)
(* step.  Ports, prompts, health reports and memory readings are left out; *)
(* a server is named by its process.                                       *)
(***************************************************************************)
EXTENDS Naturals

CONSTANTS
    Procs,       \* process ids; a dead one nobody refers to is used again
    Dogs,        \* watchdog tasks; one that is gone is used again
    Lifecycle,   \* the actor that holds lifecycle_lock
    Layers,      \* numbers of GPU layers
    OnCpu,       \* the layer count 0
    NoProc, NoDog

ASSUME RuntimeConstants ==
    /\ OnCpu \in Layers
    /\ Lifecycle \notin Dogs /\ NoDog \notin Dogs
    /\ NoProc \notin Procs

Actors == Dogs \cup {Lifecycle}

VARIABLES
    state,      \* the atomic state of the manager
    ngl,        \* current_ngl
    url,        \* the process that api_url leads to
    child,      \* the process whose guard is stored
    alive,      \* live server processes
    at,         \* where each actor stands
    proc,       \* the process an actor's spawn made
    goal,       \* the layers an actor's spawn asks for
    spare,      \* the layers the lifecycle operation falls back to
    retried,    \* whether its spawn is the fallback
    op,         \* the lifecycle operation in progress
    dog,        \* watchdog_handle
    fate,       \* [Dogs -> Fates]
    disturbed   \* history: a watchdog took a step during the operation

serverVars == <<state, ngl, url, child, alive>>
actorVars  == <<at, proc, goal>>
opVars     == <<op, spare, retried>>
dogVars    == <<dog, fate>>
vars == <<serverVars, actorVars, opVars, dogVars, disturbed>>

States == {"STOPPED", "STARTING", "READY", "SWAPPING", "ERROR"}
Ops    == {"restart", "shutdown", "release", "evict", "restore", "ensure"}
Points == {"idle", "disarm", "stop", "take", "stopped", "launch", "port", "store",
           "health", "reap", "done", "fast", "failed"}
Fates  == {"none", "armed", "aborted", "doomed"}

\* The locals of a spawn are gone when its caller is back at rest.
Clear(a) == /\ proc' = [proc EXCEPT ![a] = NoProc]
            /\ goal' = [goal EXCEPT ![a] = OnCpu]

\* The guard of a process is a local of its spawn until it is stored.
Held(a) == IF at[a] \in {"port", "store"} THEN {proc[a]} ELSE {}
Kill(P) == alive' = alive \ P

\* Orchestrator::start has spawned the first server and armed the watchdog.
Init ==
    /\ \E p \in Procs : child = p /\ url = p /\ alive = {p}
    /\ \E d \in Dogs : /\ dog = d
                       /\ fate = [e \in Dogs |-> IF e = d THEN "armed" ELSE "none"]
    /\ state = "READY"
    /\ ngl \in Layers
    /\ at = [a \in Actors |-> "idle"]
    /\ proc = [a \in Actors |-> NoProc]
    /\ goal = [a \in Actors |-> OnCpu]
    /\ op = "none" /\ spare = OnCpu /\ retried = FALSE
    /\ disturbed = FALSE

\* What a task awaits in earnest: its next poll, an exit, a port, a health check.
Waits(p) == p \in {"idle", "port", "health"} \/ (p = "stopped" /\ child # NoProc)

\* An actor takes its next step.  A watchdog that is already aborted goes on with
\* the step it was in until it would wait.
Go(a, p) ==
    /\ a \in Dogs => fate[a] \in {"armed", "aborted"}
    /\ at' = [at EXCEPT ![a] = p]
    /\ fate' = [d \in Dogs |-> IF d = a /\ fate[d] = "aborted" /\ Waits(p)
                               THEN "doomed" ELSE fate[d]]
    /\ disturbed' = (disturbed \/ (a \in Dogs /\ op # "none"))
    /\ UNCHANGED <<op, spare, dog>>

-----------------------------------------------------------------------------
\* graceful_stop_with_timeout and kill.
StopServer(a) ==
    /\ at[a] = "stop"
    /\ Go(a, "take")
    /\ state' = "SWAPPING"
    /\ UNCHANGED <<ngl, url, child, alive, proc, goal, retried>>

TakeChild(a) ==
    /\ at[a] = "take"
    /\ Go(a, "stopped")
    /\ Kill({child})
    /\ child' = NoProc
    /\ UNCHANGED <<state, ngl, url, proc, goal, retried>>

\* release_if_idle and shutdown end here; everything else goes on to a spawn.
Stopped(a) ==
    /\ at[a] = "stopped"
    /\ Go(a, IF a = Lifecycle /\ op \in {"release", "shutdown"} THEN "done" ELSE "launch")
    /\ state' = "STOPPED"
    /\ UNCHANGED <<ngl, url, child, alive, proc, goal, retried>>

-----------------------------------------------------------------------------
\* A plausible slip: the fallback falls back again.
MayRetryForever(a) == a = Lifecycle /\ op \in {"restart", "ensure"}

\* spawn.  What a failure leads to: restart and ensure_ready try once more with the
\* layers they found; the others give up.
MayRetry(a) == a = Lifecycle /\ op \in {"restart", "ensure"} /\ ~retried
SpawnFails(a) == /\ Go(a, IF MayRetry(a) THEN "launch"
                          ELSE IF a = Lifecycle THEN "failed" ELSE "idle")
                 /\ retried' = (retried \/ MayRetry(a))
                 /\ Clear(a)

\* A plausible slip: an eviction, too, asks for what free memory allows.
TargetsByMemory(a) == IF a = Lifecycle /\ retried THEN {spare} ELSE Layers

\* The layers a spawn may ask for: what free memory allows, or what was there before.
Targets(a) == IF a # Lifecycle THEN Layers
              ELSE IF retried THEN {spare}
              ELSE IF op = "evict" THEN {OnCpu} ELSE Layers

Unused(p) == p \notin alive /\ p \notin {child, url} /\ \A a \in Actors : p # proc[a]

Launch(a) ==
    /\ at[a] = "launch"
    /\ \E p \in Procs, n \in Targets(a) :
         /\ Unused(p)
         /\ proc' = [proc EXCEPT ![a] = p]
         /\ goal' = [goal EXCEPT ![a] = n]
         /\ alive' = alive \cup {p}
    /\ Go(a, "port")
    /\ state' = "STARTING"
    /\ UNCHANGED <<ngl, url, child, retried>>

LaunchFails(a) ==
    /\ at[a] = "launch"
    /\ SpawnFails(a)
    /\ state' = "ERROR"
    /\ UNCHANGED <<ngl, url, child, alive>>

\* The port is known: callers can read the address from here on.
PortFound(a) ==
    /\ at[a] = "port"
    /\ Go(a, "store")
    /\ url' = proc[a]
    /\ UNCHANGED <<state, ngl, child, alive, proc, goal, retried>>

\* A plausible slip: the guard is forgotten instead of dropped.
PortMissingLeaking(a) ==
    /\ at[a] = "port"
    /\ SpawnFails(a)
    /\ UNCHANGED <<state, ngl, url, child, alive>>

\* The process is killed; the state stays at what it is.
PortMissing(a) ==
    /\ at[a] = "port"
    /\ SpawnFails(a)
    /\ Kill({proc[a]})
    /\ UNCHANGED <<state, ngl, url, child>>

\* A guard that was stored before is dropped by the assignment.
Store(a) ==
    /\ at[a] = "store"
    /\ Go(a, "health")
    /\ Kill({child} \ {proc[a]})
    /\ child' = proc[a]
    /\ UNCHANGED <<state, ngl, url, proc, goal, retried>>

Healthy(a) ==
    /\ at[a] = "health" /\ proc[a] \in alive
    /\ Go(a, IF a = Lifecycle THEN "done" ELSE "idle")
    /\ ngl' = goal[a]
    /\ state' = "READY"
    /\ IF a = Lifecycle THEN UNCHANGED <<proc, goal>> ELSE Clear(a)
    /\ UNCHANGED <<url, child, alive, retried>>

\* The deadline passes, with the process dead or only slow.
Unhealthy(a) ==
    /\ at[a] = "health"
    /\ Go(a, "reap")
    /\ state' = "ERROR"
    /\ UNCHANGED <<ngl, url, child, alive, proc, goal, retried>>

\* A plausible slip: the failed server stays stored.
ReapNothing(a) ==
    /\ at[a] = "reap"
    /\ SpawnFails(a)
    /\ state' = "ERROR"
    /\ UNCHANGED <<ngl, url, child, alive>>

\* Whatever guard is stored by now is taken and killed.
Reap(a) ==
    /\ at[a] = "reap"
    /\ SpawnFails(a)
    /\ Kill({child})
    /\ child' = NoProc
    /\ state' = "ERROR"
    /\ UNCHANGED <<ngl, url>>

-----------------------------------------------------------------------------
\* Lifecycle operations, from taking the lock to releasing it.  Those that find
\* nothing to do (and restart within its cooldown) change nothing.
Enter(kind) ==
    /\ op = "none"
    /\ \/ kind \in {"restart", "shutdown"}
       \/ kind = "release" /\ child \in alive
       \/ kind = "evict" /\ ngl # OnCpu
       \/ kind = "restore" /\ ngl = OnCpu
    /\ op' = kind
    /\ at' = [at EXCEPT ![Lifecycle] = "disarm"]
    /\ UNCHANGED <<serverVars, proc, goal, spare, retried, dogVars, disturbed>>

\* stop_watchdog; the layers for a fallback are read after it.
Disarm ==
    /\ at[Lifecycle] = "disarm"
    /\ at' = [at EXCEPT ![Lifecycle] = "stop"]
    /\ fate' = [d \in Dogs |-> IF d = dog THEN "aborted" ELSE fate[d]]
    /\ dog' = NoDog
    /\ spare' = IF op = "restart" THEN ngl ELSE spare
    /\ UNCHANGED <<serverVars, proc, goal, op, retried, disturbed>>

\* has_live_process drops the guard of a dead process.  The watchdog is not stopped.
EnsureReady ==
    /\ op = "none"
    /\ op' = "ensure"
    /\ child' = IF child \in alive THEN child ELSE NoProc
    /\ at' = [at EXCEPT ![Lifecycle] =
                IF child \in alive /\ state = "READY" THEN "fast"
                ELSE IF child \in alive \/ state # "STOPPED" THEN "stop" ELSE "launch"]
    /\ spare' = ngl
    /\ UNCHANGED <<state, ngl, url, alive, proc, goal, retried, dogVars, disturbed>>

\* The lock is released; restart, ensure_ready and restore_from_cpu arm the watchdog
\* after a success, when there is none.
Finish ==
    /\ at[Lifecycle] \in {"done", "fast", "failed"}
    /\ at' = [at EXCEPT ![Lifecycle] = "idle"]
    /\ op' = "none"
    /\ IF at[Lifecycle] # "failed" /\ op \in {"restart", "ensure", "restore"} /\ dog = NoDog
       THEN \E d \in Dogs : /\ fate[d] = "none"
                            /\ dog' = d
                            /\ fate' = [fate EXCEPT ![d] = "armed"]
       ELSE UNCHANGED dogVars
    /\ Clear(Lifecycle)
    /\ spare' = OnCpu /\ retried' = FALSE /\ disturbed' = FALSE
    /\ UNCHANGED serverVars

\* An eviction or a restore is part of a tool call, whose timeout drops it where it
\* stands.
OpDropped ==
    /\ op \in {"evict", "restore"}
    /\ at' = [at EXCEPT ![Lifecycle] = "idle"]
    /\ op' = "none"
    /\ Kill(Held(Lifecycle))
    /\ Clear(Lifecycle)
    /\ spare' = OnCpu /\ retried' = FALSE /\ disturbed' = FALSE
    /\ UNCHANGED <<state, ngl, url, child, dogVars>>

-----------------------------------------------------------------------------
\* The watchdog has seen pressure, headroom or an emergency for long enough.
DogSwaps(d) ==
    /\ at[d] = "idle"
    /\ Go(d, "stop")
    /\ UNCHANGED <<serverVars, proc, goal, retried>>

\* The aborted task is dropped with its locals.
DogDropped(d) ==
    /\ fate[d] \in {"aborted", "doomed"}
    /\ fate' = [fate EXCEPT ![d] = "none"]
    /\ at' = [at EXCEPT ![d] = "idle"]
    /\ Kill(Held(d))
    /\ Clear(d)
    /\ UNCHANGED <<state, ngl, url, child, opVars, dog, disturbed>>

\* A server process dies of itself.
Crash(p) ==
    /\ p \in alive
    /\ Kill({p})
    /\ UNCHANGED <<state, ngl, url, child, actorVars, opVars, dogVars, disturbed>>

\* The idle monitor asks has_live_process without the lock.
NoticeDeath ==
    /\ child # NoProc /\ child \notin alive
    /\ child' = NoProc
    /\ UNCHANGED <<state, ngl, url, alive, actorVars, opVars, dogVars, disturbed>>

ServerStep(a) ==
    \/ StopServer(a) \/ TakeChild(a) \/ Stopped(a)
    \/ Launch(a) \/ LaunchFails(a) \/ PortFound(a) \/ PortMissing(a)
    \/ Store(a) \/ Healthy(a) \/ Unhealthy(a) \/ Reap(a)

Next ==
    \/ \E a \in Actors : ServerStep(a)
    \/ \E kind \in Ops \ {"ensure"} : Enter(kind)
    \/ EnsureReady
    \/ Disarm
    \/ Finish
    \/ OpDropped
    \/ \E d \in Dogs : DogSwaps(d) \/ DogDropped(d)
    \/ \E p \in Procs : Crash(p)
    \/ NoticeDeath

\* Every wait of an operation has a deadline (terminate, port discovery, health,
\* memory release), and the runtime drops a task that is aborted.
Fairness ==
    /\ WF_vars(ServerStep(Lifecycle) \/ Disarm \/ Finish)
    /\ \A d \in Dogs : WF_vars(DogDropped(d))

Spec == Init /\ [][Next]_vars
FairSpec == Spec /\ Fairness
-----------------------------------------------------------------------------
\* Types; the lock is held exactly while an operation is under way; the task in
\* watchdog_handle is the only one that is not on its way out.
RuntimeInv ==
    /\ state \in States /\ ngl \in Layers
    /\ {url, child} \subseteq Procs \cup {NoProc} /\ alive \subseteq Procs
    /\ at \in [Actors -> Points]
    /\ proc \in [Actors -> Procs \cup {NoProc}]
    /\ goal \in [Actors -> Layers]
    /\ spare \in Layers /\ retried \in BOOLEAN /\ disturbed \in BOOLEAN
    /\ op \in Ops \cup {"none"} /\ (op = "none" <=> at[Lifecycle] = "idle")
    /\ dog \in Dogs \cup {NoDog}
    /\ fate \in [Dogs -> Fates]
    /\ \A d \in Dogs : /\ fate[d] = "armed" <=> d = dog
                       /\ fate[d] = "none" => at[d] = "idle"
                       /\ at[d] \notin {"disarm", "done", "fast", "failed"}

\* No server process is left to itself: each one is in the hands of the manager or
\* of one spawn, however spawns overlap, fail, and are aborted or dropped half-way
\* (ChildGuard).
NoStrayServer ==
    /\ alive \subseteq {child} \cup UNION {Held(a) : a \in Actors}
    /\ \A a \in Actors : child \notin Held(a)
    /\ \A a, b \in Actors : a # b => Held(a) \cap Held(b) = {}

\* Whatever swaps, failures, crashes and dropped futures left behind, an operation
\* in which no watchdog takes a step delivers: it ends with the server it started
\* in charge, or with none, and never leaves READY with nothing behind it.
OperationsDeliver == ~disturbed =>
    /\ at[Lifecycle] = "done" /\ op \in {"release", "shutdown"} =>
         child = NoProc /\ state = "STOPPED"
    /\ at[Lifecycle] = "done" /\ op \notin {"release", "shutdown"} =>
         /\ state = "READY" /\ ngl = goal[Lifecycle]
         /\ url = proc[Lifecycle] /\ child \in {url, NoProc}
    /\ at[Lifecycle] = "failed" => child = NoProc /\ state \in {"ERROR", "STARTING"}

\* lifecycle_lock is released again: no operation waits for ever, whatever the
\* server and the watchdog do meanwhile.
OperationsEnd == op # "none" ~> op = "none"

\* The points of an operation in the order in which it comes by them.
Order == [disarm |-> 0, stop |-> 1, take |-> 2, stopped |-> 3, launch |-> 4, port |-> 5,
          store |-> 6, health |-> 7, reap |-> 8, done |-> 9, fast |-> 9, failed |-> 9]

\* An operation never comes back to where it was: until it releases the lock each of
\* its steps takes it further, but for one second attempt at a spawn, and nobody
\* else moves it; so its steps are bounded (restart, ensure_ready).
OperationsRunDown ==
    [][op # "none" /\ op' # "none" =>
         \/ at'[Lifecycle] = at[Lifecycle] /\ retried' = retried
         \/ Order[at[Lifecycle]] < Order[at'[Lifecycle]] /\ retried' = retried
         \/ ~retried /\ retried']_vars

\* The server as its callers see it.
Server == INSTANCE ServerContract WITH
    layers    <- IF ngl = OnCpu THEN "cpu" ELSE "gpu",
    up        <- state = "READY",
    op        <- IF op \in {"release", "shutdown"} THEN "stop" ELSE op,
    stage     <- IF at[Lifecycle] = "idle" THEN "none"
                 ELSE IF at[Lifecycle] = "disarm" THEN "entered"
                 ELSE IF at[Lifecycle] \in {"done", "fast"} THEN "good"
                 ELSE IF at[Lifecycle] = "failed" THEN "bad" ELSE "busy",
    armed     <- dog # NoDog,
    lingering <- \E d \in Dogs : fate[d] = "aborted"

\* The manager keeps its promise to the callers, however stops and spawns overlap:
\* the model changes its place only with a server that comes up, an eviction that
\* succeeds has put it on the CPU, and with no watchdog armed or lingering nobody but
\* the holder of the lock changes anything (Orchestrator against GpuWatchdog).
RuntimeKeepsContract == Server!ServerSpec

\* What ensure_ready is documented to do: when it reports success the server is
\* running, and requests go to it.
EnsureReadyDelivers ==
    [][op' = "ensure" /\ at'[Lifecycle] \in {"done", "fast"} /\ at'[Lifecycle] # at[Lifecycle]
         => state' = "READY" /\ url' = child']_vars
=============================================================================
