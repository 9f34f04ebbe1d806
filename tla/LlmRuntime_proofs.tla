------------------------- MODULE LlmRuntime_proofs -------------------------
(***************************************************************************)
(* Proofs about LlmRuntime, for any number of processes, watchdog tasks    *)
(* and layer counts: the types, that no server process is left to itself,  *)
(* that an operation in which no watchdog takes a step delivers, that the  *)
(* steps of an operation are bounded, and that the manager refines         *)
(* ServerContract, which ImageSwap is built on.                            *)
(***************************************************************************)
EXTENDS LlmRuntime, TLAPS

\* The two operations that only stop the server.
Stops == {"release", "shutdown"}

\* A spawn that made a process knows it, and no stopping operation spawns.
SpawnInv ==
    /\ \A a \in Actors : at[a] \in {"port", "store", "health"} => proc[a] \in Procs
    /\ at[Lifecycle] \in {"launch", "port", "store", "health", "reap"} => op \notin Stops

\* What OperationsDeliver rests on, at every point of an undisturbed operation:
\* from the kill to the store nothing is stored, then only its own process.
Progress ==
    /\ at[Lifecycle] \in {"stopped", "launch", "port", "store", "failed"} => child = NoProc
    /\ at[Lifecycle] = "port" => state = "STARTING"
    /\ at[Lifecycle] \in {"store", "health"} => url = proc[Lifecycle]
    /\ at[Lifecycle] = "health" => child \in {proc[Lifecycle], NoProc}

DeliverInv == (~disturbed => Progress) /\ OperationsDeliver

RuntimeIInv == RuntimeInv /\ SpawnInv /\ NoStrayServer /\ DeliverInv
-----------------------------------------------------------------------------
\* What begins a stop keeps the invariant (graceful_stop, kill).
LEMMA StopServerKeeps == ASSUME RuntimeIInv, NEW a \in Actors, StopServer(a) PROVE RuntimeIInv'
<1> USE RuntimeConstants DEF RuntimeIInv, Actors, StopServer, Go
<1>1. RuntimeInv'
  BY DEF RuntimeInv, States, Points, Fates, Ops, Waits
<1>2. SpawnInv'
  BY DEF RuntimeInv, SpawnInv, Stops
<1>3. NoStrayServer'
  BY DEF RuntimeInv, SpawnInv, NoStrayServer, Held
<1>4. DeliverInv'
  BY DEF RuntimeInv, SpawnInv, DeliverInv, Progress, OperationsDeliver, Stops
<1> QED
  BY <1>1, <1>2, <1>3, <1>4

\* Taking and terminating the stored server keeps the invariant.
LEMMA TakeChildKeeps == ASSUME RuntimeIInv, NEW a \in Actors, TakeChild(a) PROVE RuntimeIInv'
<1> USE RuntimeConstants DEF RuntimeIInv, Actors, TakeChild, Go, Kill
<1>1. RuntimeInv'
  BY DEF RuntimeInv, States, Points, Fates, Ops, Waits
<1>2. SpawnInv'
  BY DEF RuntimeInv, SpawnInv, Stops
<1>3. NoStrayServer'
  BY DEF RuntimeInv, SpawnInv, NoStrayServer, Held
<1>4. DeliverInv'
  BY DEF RuntimeInv, SpawnInv, DeliverInv, Progress, OperationsDeliver, Stops
<1> QED
  BY <1>1, <1>2, <1>3, <1>4

\* The end of a stop keeps the invariant.
LEMMA StoppedKeeps == ASSUME RuntimeIInv, NEW a \in Actors, Stopped(a) PROVE RuntimeIInv'
<1> USE RuntimeConstants DEF RuntimeIInv, Actors, Stopped, Go
<1>1. RuntimeInv'
  BY DEF RuntimeInv, States, Points, Fates, Ops, Waits
<1>2. SpawnInv'
  BY DEF RuntimeInv, SpawnInv, Stops
<1>3. NoStrayServer'
  BY DEF RuntimeInv, SpawnInv, NoStrayServer, Held
<1>4. DeliverInv'
  BY DEF RuntimeInv, SpawnInv, DeliverInv, Progress, OperationsDeliver, Stops
<1> QED
  BY <1>1, <1>2, <1>3, <1>4

\* Making a process keeps the invariant: its id is unused, so no guard names it.
LEMMA LaunchKeeps == ASSUME RuntimeIInv, NEW a \in Actors, Launch(a) PROVE RuntimeIInv'
<1> USE RuntimeConstants DEF RuntimeIInv, Actors, Launch, Go, Targets, Unused
<1>1. RuntimeInv'
  BY DEF RuntimeInv, States, Points, Fates, Ops, Waits
<1>2. SpawnInv'
  BY DEF RuntimeInv, SpawnInv, Stops
<1>3. NoStrayServer'
  BY DEF RuntimeInv, SpawnInv, NoStrayServer, Held
<1>4. DeliverInv'
  BY DEF RuntimeInv, SpawnInv, DeliverInv, Progress, OperationsDeliver, Stops
<1> QED
  BY <1>1, <1>2, <1>3, <1>4

\* A process that cannot be made keeps the invariant.
LEMMA LaunchFailsKeeps == ASSUME RuntimeIInv, NEW a \in Actors, LaunchFails(a) PROVE RuntimeIInv'
<1> USE RuntimeConstants DEF RuntimeIInv, Actors, LaunchFails, Go, SpawnFails, MayRetry, Clear
<1>1. RuntimeInv'
  BY DEF RuntimeInv, States, Points, Fates, Ops, Waits
<1>2. SpawnInv'
  BY DEF RuntimeInv, SpawnInv, Stops
<1>3. NoStrayServer'
  BY DEF RuntimeInv, SpawnInv, NoStrayServer, Held
<1>4. DeliverInv'
  BY DEF RuntimeInv, SpawnInv, DeliverInv, Progress, OperationsDeliver, Stops
<1> QED
  BY <1>1, <1>2, <1>3, <1>4

\* Finding the port keeps the invariant (discover_port).
LEMMA PortFoundKeeps == ASSUME RuntimeIInv, NEW a \in Actors, PortFound(a) PROVE RuntimeIInv'
<1> USE RuntimeConstants DEF RuntimeIInv, Actors, PortFound, Go
<1>1. RuntimeInv'
  BY DEF RuntimeInv, States, Points, Fates, Ops, Waits
<1>2. SpawnInv'
  BY DEF RuntimeInv, SpawnInv, Stops
<1>3. NoStrayServer'
  BY DEF RuntimeInv, SpawnInv, NoStrayServer, Held
<1>4. DeliverInv'
  BY DEF RuntimeInv, SpawnInv, DeliverInv, Progress, OperationsDeliver, Stops
<1> QED
  BY <1>1, <1>2, <1>3, <1>4

\* A port that is not found keeps the invariant: the spawn kills its process.
LEMMA PortMissingKeeps == ASSUME RuntimeIInv, NEW a \in Actors, PortMissing(a) PROVE RuntimeIInv'
<1> USE RuntimeConstants DEF RuntimeIInv, Actors, PortMissing, Go, SpawnFails, MayRetry, Clear, Kill
<1>1. RuntimeInv'
  BY DEF RuntimeInv, States, Points, Fates, Ops, Waits
<1>2. SpawnInv'
  BY DEF RuntimeInv, SpawnInv, Stops
<1>3. NoStrayServer'
  BY DEF RuntimeInv, SpawnInv, NoStrayServer, Held
<1>4. DeliverInv'
  BY DEF RuntimeInv, SpawnInv, DeliverInv, Progress, OperationsDeliver, Stops
<1> QED
  BY <1>1, <1>2, <1>3, <1>4

\* Storing the guard keeps the invariant: a guard it replaces kills its process.
LEMMA StoreKeeps == ASSUME RuntimeIInv, NEW a \in Actors, Store(a) PROVE RuntimeIInv'
<1> USE RuntimeConstants DEF RuntimeIInv, Actors, Store, Go, Kill
<1>1. RuntimeInv'
  BY DEF RuntimeInv, States, Points, Fates, Ops, Waits
<1>2. SpawnInv'
  BY DEF RuntimeInv, SpawnInv, Stops
<1>3. NoStrayServer'
  BY DEF RuntimeInv, SpawnInv, NoStrayServer, Held
<1>4. DeliverInv'
  BY DEF RuntimeInv, SpawnInv, DeliverInv, Progress, OperationsDeliver, Stops
<1> QED
  BY <1>1, <1>2, <1>3, <1>4

\* A server that answers keeps the invariant.
LEMMA HealthyKeeps == ASSUME RuntimeIInv, NEW a \in Actors, Healthy(a) PROVE RuntimeIInv'
<1> USE RuntimeConstants DEF RuntimeIInv, Actors, Healthy, Go, Clear
<1>1. RuntimeInv'
  BY DEF RuntimeInv, States, Points, Fates, Ops, Waits
<1>2. SpawnInv'
  BY DEF RuntimeInv, SpawnInv, Stops
<1>3. NoStrayServer'
  BY DEF RuntimeInv, SpawnInv, NoStrayServer, Held
<1>4. DeliverInv'
  BY DEF RuntimeInv, SpawnInv, DeliverInv, Progress, OperationsDeliver, Stops
<1> QED
  BY <1>1, <1>2, <1>3, <1>4

\* A deadline that passes keeps the invariant (wait_for_health).
LEMMA UnhealthyKeeps == ASSUME RuntimeIInv, NEW a \in Actors, Unhealthy(a) PROVE RuntimeIInv'
<1> USE RuntimeConstants DEF RuntimeIInv, Actors, Unhealthy, Go
<1>1. RuntimeInv'
  BY DEF RuntimeInv, States, Points, Fates, Ops, Waits
<1>2. SpawnInv'
  BY DEF RuntimeInv, SpawnInv, Stops
<1>3. NoStrayServer'
  BY DEF RuntimeInv, SpawnInv, NoStrayServer, Held
<1>4. DeliverInv'
  BY DEF RuntimeInv, SpawnInv, DeliverInv, Progress, OperationsDeliver, Stops
<1> QED
  BY <1>1, <1>2, <1>3, <1>4

\* Killing whatever is stored by then keeps the invariant.
LEMMA ReapKeeps == ASSUME RuntimeIInv, NEW a \in Actors, Reap(a) PROVE RuntimeIInv'
<1> USE RuntimeConstants DEF RuntimeIInv, Actors, Reap, Go, SpawnFails, MayRetry, Clear, Kill
<1>1. RuntimeInv'
  BY DEF RuntimeInv, States, Points, Fates, Ops, Waits
<1>2. SpawnInv'
  BY DEF RuntimeInv, SpawnInv, Stops
<1>3. NoStrayServer'
  BY DEF RuntimeInv, SpawnInv, NoStrayServer, Held
<1>4. DeliverInv'
  BY DEF RuntimeInv, SpawnInv, DeliverInv, Progress, OperationsDeliver, Stops
<1> QED
  BY <1>1, <1>2, <1>3, <1>4

\* Taking the lock keeps the invariant (restart, shutdown, release_if_idle, the image path).
LEMMA EnterKeeps == ASSUME RuntimeIInv, NEW kind \in Ops \ {"ensure"}, Enter(kind) PROVE RuntimeIInv'
<1> USE RuntimeConstants DEF RuntimeIInv, Actors, Enter, serverVars, dogVars
<1>1. RuntimeInv'
  BY DEF RuntimeInv, States, Points, Fates, Ops, Waits
<1>2. SpawnInv'
  BY DEF RuntimeInv, SpawnInv, Stops
<1>3. NoStrayServer'
  BY DEF RuntimeInv, SpawnInv, NoStrayServer, Held
<1>4. DeliverInv'
  BY DEF RuntimeInv, SpawnInv, DeliverInv, Progress, OperationsDeliver, Stops
<1> QED
  BY <1>1, <1>2, <1>3, <1>4

\* Stopping the watchdog keeps the invariant (stop_watchdog).
LEMMA DisarmKeeps == ASSUME RuntimeIInv, Disarm PROVE RuntimeIInv'
<1> USE RuntimeConstants DEF RuntimeIInv, Actors, Disarm, serverVars, dogVars
<1>1. RuntimeInv'
  BY DEF RuntimeInv, States, Points, Fates, Ops, Waits
<1>2. SpawnInv'
  BY DEF RuntimeInv, SpawnInv, Stops
<1>3. NoStrayServer'
  BY DEF RuntimeInv, SpawnInv, NoStrayServer, Held
<1>4. DeliverInv'
  BY DEF RuntimeInv, SpawnInv, DeliverInv, Progress, OperationsDeliver, Stops
<1> QED
  BY <1>1, <1>2, <1>3, <1>4

\* Entering ensure_ready keeps the invariant.
LEMMA EnsureReadyKeeps == ASSUME RuntimeIInv, EnsureReady PROVE RuntimeIInv'
<1> USE RuntimeConstants DEF RuntimeIInv, Actors, EnsureReady, serverVars, dogVars
<1>1. RuntimeInv'
  BY DEF RuntimeInv, States, Points, Fates, Ops, Waits
<1>2. SpawnInv'
  BY DEF RuntimeInv, SpawnInv, Stops
<1>3. NoStrayServer'
  BY DEF RuntimeInv, SpawnInv, NoStrayServer, Held
<1>4. DeliverInv'
  BY DEF RuntimeInv, SpawnInv, DeliverInv, Progress, OperationsDeliver, Stops
<1> QED
  BY <1>1, <1>2, <1>3, <1>4

\* Releasing the lock keeps the invariant (ensure_watchdog_running).
LEMMA FinishKeeps == ASSUME RuntimeIInv, Finish PROVE RuntimeIInv'
<1> USE RuntimeConstants DEF RuntimeIInv, Actors, Finish, Clear, serverVars, dogVars
<1>1. RuntimeInv'
  BY DEF RuntimeInv, States, Points, Fates, Ops, Waits
<1>2. SpawnInv'
  BY DEF RuntimeInv, SpawnInv, Stops
<1>3. NoStrayServer'
  BY DEF RuntimeInv, SpawnInv, NoStrayServer, Held
<1>4. DeliverInv'
  BY DEF RuntimeInv, SpawnInv, DeliverInv, Progress, OperationsDeliver, Stops
<1> QED
  BY <1>1, <1>2, <1>3, <1>4

\* A dropped operation keeps the invariant: its guard is dropped with it.
LEMMA OpDroppedKeeps == ASSUME RuntimeIInv, OpDropped PROVE RuntimeIInv'
<1> USE RuntimeConstants DEF RuntimeIInv, Actors, OpDropped, Clear, Kill, serverVars, dogVars
<1>1. RuntimeInv'
  BY DEF RuntimeInv, States, Points, Fates, Ops, Waits
<1>2. SpawnInv'
  BY DEF RuntimeInv, SpawnInv, Stops
<1>3. NoStrayServer'
  BY DEF RuntimeInv, SpawnInv, NoStrayServer, Held
<1>4. DeliverInv'
  BY DEF RuntimeInv, SpawnInv, DeliverInv, Progress, OperationsDeliver, Stops
<1> QED
  BY <1>1, <1>2, <1>3, <1>4

\* A swap that begins keeps the invariant.
LEMMA DogSwapsKeeps == ASSUME RuntimeIInv, NEW d \in Dogs, DogSwaps(d) PROVE RuntimeIInv'
<1> USE RuntimeConstants DEF RuntimeIInv, Actors, DogSwaps, Go, serverVars
<1>1. RuntimeInv'
  BY DEF RuntimeInv, States, Points, Fates, Ops, Waits
<1>2. SpawnInv'
  BY DEF RuntimeInv, SpawnInv, Stops
<1>3. NoStrayServer'
  BY DEF RuntimeInv, SpawnInv, NoStrayServer, Held
<1>4. DeliverInv'
  BY DEF RuntimeInv, SpawnInv, DeliverInv, Progress, OperationsDeliver, Stops
<1> QED
  BY <1>1, <1>2, <1>3, <1>4

\* A dropped task keeps the invariant: its guard is dropped with it.
LEMMA DogDroppedKeeps == ASSUME RuntimeIInv, NEW d \in Dogs, DogDropped(d) PROVE RuntimeIInv'
<1> USE RuntimeConstants DEF RuntimeIInv, Actors, DogDropped, Clear, Kill, opVars
<1>1. RuntimeInv'
  BY DEF RuntimeInv, States, Points, Fates, Ops, Waits
<1>2. SpawnInv'
  BY DEF RuntimeInv, SpawnInv, Stops
<1>3. NoStrayServer'
  BY DEF RuntimeInv, SpawnInv, NoStrayServer, Held
<1>4. DeliverInv'
  BY DEF RuntimeInv, SpawnInv, DeliverInv, Progress, OperationsDeliver, Stops
<1> QED
  BY <1>1, <1>2, <1>3, <1>4

\* A server that dies keeps the invariant.
LEMMA CrashKeeps == ASSUME RuntimeIInv, NEW p \in Procs, Crash(p) PROVE RuntimeIInv'
<1> USE RuntimeConstants DEF RuntimeIInv, Actors, Crash, Kill, actorVars, opVars, dogVars
<1>1. RuntimeInv'
  BY DEF RuntimeInv, States, Points, Fates, Ops, Waits
<1>2. SpawnInv'
  BY DEF RuntimeInv, SpawnInv, Stops
<1>3. NoStrayServer'
  BY DEF RuntimeInv, SpawnInv, NoStrayServer, Held
<1>4. DeliverInv'
  BY DEF RuntimeInv, SpawnInv, DeliverInv, Progress, OperationsDeliver, Stops
<1> QED
  BY <1>1, <1>2, <1>3, <1>4

\* Noticing a dead server keeps the invariant (has_live_process).
LEMMA NoticeDeathKeeps == ASSUME RuntimeIInv, NoticeDeath PROVE RuntimeIInv'
<1> USE RuntimeConstants DEF RuntimeIInv, Actors, NoticeDeath, actorVars, opVars, dogVars
<1>1. RuntimeInv'
  BY DEF RuntimeInv, States, Points, Fates, Ops, Waits
<1>2. SpawnInv'
  BY DEF RuntimeInv, SpawnInv, Stops
<1>3. NoStrayServer'
  BY DEF RuntimeInv, SpawnInv, NoStrayServer, Held
<1>4. DeliverInv'
  BY DEF RuntimeInv, SpawnInv, DeliverInv, Progress, OperationsDeliver, Stops
<1> QED
  BY <1>1, <1>2, <1>3, <1>4

\* A step of something else keeps the invariant.
LEMMA StutterKeeps == ASSUME RuntimeIInv, UNCHANGED vars PROVE RuntimeIInv'
<1> USE RuntimeConstants DEF RuntimeIInv, Actors, vars, serverVars, actorVars, opVars, dogVars
<1>1. RuntimeInv'
  BY DEF RuntimeInv, States, Points, Fates, Ops, Waits
<1>2. SpawnInv'
  BY DEF RuntimeInv, SpawnInv, Stops
<1>3. NoStrayServer'
  BY DEF RuntimeInv, SpawnInv, NoStrayServer, Held
<1>4. DeliverInv'
  BY DEF RuntimeInv, SpawnInv, DeliverInv, Progress, OperationsDeliver, Stops
<1> QED
  BY <1>1, <1>2, <1>3, <1>4

-----------------------------------------------------------------------------
\* A spawn or a stop, whoever drives it, keeps the invariant.
LEMMA ServerStepKeeps == ASSUME RuntimeIInv, NEW a \in Actors, ServerStep(a)
                         PROVE  RuntimeIInv'
  BY StopServerKeeps, TakeChildKeeps, StoppedKeeps, LaunchKeeps,
     LaunchFailsKeeps, PortFoundKeeps, PortMissingKeeps, StoreKeeps,
     HealthyKeeps, UnhealthyKeeps, ReapKeeps DEF ServerStep

\* The manager that start leaves behind satisfies the invariant.
LEMMA InitKeeps == Init => RuntimeIInv
<1> SUFFICES ASSUME Init PROVE RuntimeIInv
  OBVIOUS
<1> USE RuntimeConstants DEF Init, Actors
<1>1. RuntimeInv
  BY DEF RuntimeInv, States, Points, Fates, Ops
<1>2. SpawnInv /\ DeliverInv
  BY DEF SpawnInv, DeliverInv, Progress, OperationsDeliver
<1>3. NoStrayServer
  BY DEF NoStrayServer, Held
<1> QED
  BY <1>1, <1>2, <1>3 DEF RuntimeIInv

\* The inductive invariant of the server lifecycle: types and the watchdog's fate,
\* who holds which process, and how far an undisturbed operation has come.
THEOREM LifecycleInvariant == Spec => []RuntimeIInv
<1>1. RuntimeIInv /\ [Next]_vars => RuntimeIInv'
  <2> SUFFICES ASSUME RuntimeIInv, [Next]_vars PROVE RuntimeIInv'
    OBVIOUS
  <2>1. CASE \E a \in Actors : ServerStep(a)
    BY <2>1, ServerStepKeeps
  <2>2. CASE \E kind \in Ops \ {"ensure"} : Enter(kind)
    BY <2>2, EnterKeeps
  <2>3. CASE EnsureReady \/ Disarm \/ Finish \/ OpDropped
    BY <2>3, EnsureReadyKeeps, DisarmKeeps, FinishKeeps, OpDroppedKeeps
  <2>4. CASE \E d \in Dogs : DogSwaps(d) \/ DogDropped(d)
    BY <2>4, DogSwapsKeeps, DogDroppedKeeps
  <2>5. CASE \E p \in Procs : Crash(p)
    BY <2>5, CrashKeeps
  <2>6. CASE NoticeDeath
    BY <2>6, NoticeDeathKeeps
  <2>7. CASE UNCHANGED vars
    BY <2>7, StutterKeeps
  <2> QED
    BY <2>1, <2>2, <2>3, <2>4, <2>5, <2>6, <2>7 DEF Next
<1> QED
  BY <1>1, InitKeeps, PTL DEF Spec

\* lifecycle_lock is held exactly while an operation is under way, and the task in
\* watchdog_handle is the only one that is not on its way out.
THEOREM RuntimeTypes == Spec => []RuntimeInv
<1>1. RuntimeIInv => RuntimeInv
  BY DEF RuntimeIInv
<1> QED
  BY <1>1, LifecycleInvariant, PTL

\* Every server process is in the hands of the manager or of one spawn, however many
\* spawns overlap, fail, and are aborted or dropped half-way (ChildGuard).
THEOREM ServersAreOwned == Spec => []NoStrayServer
<1>1. RuntimeIInv => NoStrayServer
  BY DEF RuntimeIInv
<1> QED
  BY <1>1, LifecycleInvariant, PTL

\* An operation in which no watchdog takes a step ends with the server it started in
\* charge, or with none, whatever state it began in (restart, ensure_ready,
\* release_if_idle, shutdown, the image path).
THEOREM UndisturbedOperationsDeliver == Spec => []OperationsDeliver
<1>1. RuntimeIInv => OperationsDeliver
  BY DEF RuntimeIInv, DeliverInv
<1> QED
  BY <1>1, LifecycleInvariant, PTL

-----------------------------------------------------------------------------
(***************************************************************************)
(* The measure an operation runs down, and the contract of ServerContract. *)
(***************************************************************************)
\* Only restart and ensure_ready try again, and the server an eviction waits for was
\* asked for no layer.
GoalInv ==
    /\ retried => op \in {"restart", "ensure"}
    /\ op = "evict" /\ at[Lifecycle] \in {"port", "store", "health"} => goal[Lifecycle] = OnCpu

\* What a watchdog's step leaves alone.
LEMMA DogLeavesOperation ==
    ASSUME RuntimeIInv, NEW d \in Dogs, ServerStep(d) \/ DogSwaps(d) \/ DogDropped(d)
    PROVE  UNCHANGED <<op, retried, at[Lifecycle], goal[Lifecycle]>>
<1>1. /\ d # Lifecycle /\ Lifecycle \in Actors /\ d \in Actors
      /\ at \in [Actors -> Points] /\ goal \in [Actors -> Layers] /\ retried \in BOOLEAN
  BY RuntimeConstants DEF Actors, RuntimeIInv, RuntimeInv
<1>2. CASE StopServer(d) \/ TakeChild(d) \/ Stopped(d) \/ PortFound(d) \/ Store(d) \/ Unhealthy(d) \/ DogSwaps(d)
  BY <1>1, <1>2 DEF StopServer, TakeChild, Stopped, PortFound, Store, Unhealthy, DogSwaps, Go
<1>3. CASE Launch(d) \/ Healthy(d) \/ DogDropped(d)
  BY <1>1, <1>3 DEF Launch, Healthy, DogDropped, Go, Clear, opVars
<1>4. CASE LaunchFails(d) \/ PortMissing(d) \/ Reap(d)
  BY <1>1, <1>4 DEF LaunchFails, PortMissing, Reap, SpawnFails, MayRetry, Go, Clear
<1> QED
  BY <1>2, <1>3, <1>4 DEF ServerStep

\* What a step of the operation's own spawn or stop does to it.
LEMMA OperationKeepsGoal == ASSUME RuntimeIInv, GoalInv, ServerStep(Lifecycle) PROVE GoalInv'
<1>1. /\ Lifecycle \in Actors /\ Lifecycle \notin Dogs
      /\ at \in [Actors -> Points] /\ goal \in [Actors -> Layers] /\ retried \in BOOLEAN
  BY RuntimeConstants DEF Actors, RuntimeIInv, RuntimeInv
<1>2. CASE StopServer(Lifecycle) \/ TakeChild(Lifecycle) \/ Stopped(Lifecycle) \/ PortFound(Lifecycle)
           \/ Store(Lifecycle) \/ Unhealthy(Lifecycle)
  BY <1>1, <1>2 DEF GoalInv, StopServer, TakeChild, Stopped, PortFound, Store, Unhealthy, Go
<1>3. CASE Launch(Lifecycle)
  BY <1>1, <1>3 DEF GoalInv, Launch, Go, Targets
<1>4. CASE Healthy(Lifecycle)
  BY <1>1, <1>4 DEF GoalInv, Healthy, Go
<1>5. CASE LaunchFails(Lifecycle) \/ PortMissing(Lifecycle) \/ Reap(Lifecycle)
  BY <1>1, <1>5 DEF GoalInv, LaunchFails, PortMissing, Reap, SpawnFails, MayRetry, Go
<1> QED
  BY <1>2, <1>3, <1>4, <1>5 DEF ServerStep

\* Every step keeps what the operation asks for.
LEMMA NextKeepsGoal == ASSUME RuntimeIInv, GoalInv, [Next]_vars PROVE GoalInv'
<1>1. ASSUME NEW a \in Actors, ServerStep(a) PROVE GoalInv'
  BY <1>1, DogLeavesOperation, OperationKeepsGoal DEF Actors, GoalInv
<1>2. ASSUME NEW d \in Dogs, DogSwaps(d) \/ DogDropped(d) PROVE GoalInv'
  BY <1>2, DogLeavesOperation DEF GoalInv
<1>3. /\ Lifecycle \in Actors /\ at \in [Actors -> Points] /\ (op = "none" <=> at[Lifecycle] = "idle")
  BY DEF Actors, RuntimeIInv, RuntimeInv
<1>4. ASSUME NEW kind \in Ops \ {"ensure"}, Enter(kind) PROVE GoalInv'
  BY <1>3, <1>4 DEF Enter, GoalInv
<1>5. CASE EnsureReady \/ Disarm \/ Finish \/ OpDropped
  BY <1>3, <1>5 DEF EnsureReady, Disarm, Finish, OpDropped, GoalInv
<1>6. CASE (\E p \in Procs : Crash(p)) \/ NoticeDeath \/ UNCHANGED vars
  <2>1. UNCHANGED <<at, goal, op, retried>>
    BY <1>6 DEF Crash, NoticeDeath, actorVars, opVars, vars
  <2> QED
    BY <2>1 DEF GoalInv
<1> QED
  BY <1>1, <1>2, <1>4, <1>5, <1>6 DEF Next

\* The invariant with what the operation asks for.
LEMMA GoalInvariant == Spec => [](RuntimeIInv /\ GoalInv)
<1>1. Init => GoalInv
  BY DEF Init, GoalInv
<1> QED
  BY <1>1, NextKeepsGoal, LifecycleInvariant, PTL DEF Spec

-----------------------------------------------------------------------------
\* What a step of the operation's own does to the measure.
RunsOn ==
    \/ Order[at[Lifecycle]] < Order[at'[Lifecycle]] /\ retried' = retried
    \/ ~retried /\ retried'

\* A step of the operation's own spawn or stop takes it further.
LEMMA OperationRunsOn == ASSUME RuntimeIInv, ServerStep(Lifecycle) PROVE RunsOn
<1>1. /\ Lifecycle \in Actors /\ Lifecycle \notin Dogs /\ at \in [Actors -> Points] /\ retried \in BOOLEAN
  BY RuntimeConstants DEF Actors, RuntimeIInv, RuntimeInv
<1>2. CASE StopServer(Lifecycle) \/ TakeChild(Lifecycle) \/ Stopped(Lifecycle)
  BY <1>1, <1>2 DEF StopServer, TakeChild, Stopped, Go, RunsOn, Order
<1>3. CASE Launch(Lifecycle) \/ PortFound(Lifecycle) \/ Store(Lifecycle) \/ Healthy(Lifecycle)
           \/ Unhealthy(Lifecycle)
  BY <1>1, <1>3 DEF Launch, PortFound, Store, Healthy, Unhealthy, Go, RunsOn, Order
<1>4. CASE LaunchFails(Lifecycle) \/ PortMissing(Lifecycle) \/ Reap(Lifecycle)
  <2>1. at[Lifecycle] \in {"launch", "port", "reap"} /\ SpawnFails(Lifecycle)
    BY <1>4 DEF LaunchFails, PortMissing, Reap
  <2>2. /\ at'[Lifecycle] = IF MayRetry(Lifecycle) THEN "launch" ELSE "failed"
        /\ retried' = (retried \/ MayRetry(Lifecycle))
    BY <1>1, <2>1 DEF SpawnFails, Go
  <2>3. CASE MayRetry(Lifecycle)
    BY <2>2, <2>3 DEF MayRetry, RunsOn
  <2>4. CASE ~MayRetry(Lifecycle)
    BY <1>1, <2>1, <2>2, <2>4 DEF RunsOn, Order
  <2> QED
    BY <2>3, <2>4
<1> QED
  BY <1>2, <1>3, <1>4 DEF ServerStep

\* Between taking the lock and releasing it an operation only goes forward, but for the
\* one fallback, whatever the watchdogs and the servers do meanwhile: its steps are
\* bounded (restart, ensure_ready and the rest of llm/orchestrator/mod.rs).
THEOREM OperationsDoRunDown == Spec => OperationsRunDown
<1>1. RuntimeIInv /\ [Next]_vars =>
        [op # "none" /\ op' # "none" =>
           \/ at'[Lifecycle] = at[Lifecycle] /\ retried' = retried
           \/ Order[at[Lifecycle]] < Order[at'[Lifecycle]] /\ retried' = retried
           \/ ~retried /\ retried']_vars
  <2> SUFFICES ASSUME RuntimeIInv, [Next]_vars, op # "none", op' # "none"
               PROVE  (at'[Lifecycle] = at[Lifecycle] /\ retried' = retried) \/ RunsOn
    BY DEF RunsOn
  <2>1. ASSUME NEW a \in Actors, ServerStep(a) PROVE a \in Dogs \/ RunsOn
    BY <2>1, OperationRunsOn DEF Actors
  <2>2. CASE Disarm
    <3>1. at[Lifecycle] = "disarm" /\ at'[Lifecycle] = "stop" /\ retried' = retried
      BY <2>2 DEF Disarm, Actors, RuntimeIInv, RuntimeInv
    <3> QED
      BY <3>1 DEF RunsOn, Order
  <2>3. ASSUME NEW kind \in Ops \ {"ensure"} PROVE ~Enter(kind)
    BY DEF Enter
  <2>4. CASE (\E p \in Procs : Crash(p)) \/ NoticeDeath \/ UNCHANGED vars
    BY <2>4 DEF Crash, NoticeDeath, actorVars, opVars, vars
  <2>5. ~EnsureReady /\ ~Finish /\ ~OpDropped
    BY DEF EnsureReady, Finish, OpDropped
  <2> QED
    BY <2>1, <2>2, <2>3, <2>4, <2>5, DogLeavesOperation DEF Next
<1> QED
  BY <1>1, LifecycleInvariant, PTL DEF Spec, OperationsRunDown

-----------------------------------------------------------------------------
(***************************************************************************)
(* The contract, step by step: each step of the operation under the lock   *)
(* and of a watchdog is one the callers were promised, or none at all.     *)
(***************************************************************************)
\* What the callers see of the server.
Seen == <<ngl, state, op, at[Lifecycle], dog, fate>>

\* Steps that touch nothing of it are none to the callers.
LEMMA UnseenStutters == ASSUME UNCHANGED Seen PROVE UNCHANGED Server!serverSide
  BY DEF Seen, Server!serverSide

\* The operation takes the server down.
LEMMA DownKeepsContract ==
    ASSUME RuntimeIInv, StopServer(Lifecycle) \/ TakeChild(Lifecycle) \/ Stopped(Lifecycle)
    PROVE  [Server!ServerNext]_Server!serverSide
<1>1. /\ Lifecycle \in Actors /\ Lifecycle \notin Dogs /\ at \in [Actors -> Points]
      /\ op \in Ops \cup {"none"} /\ (op = "none" <=> at[Lifecycle] = "idle")
  BY RuntimeConstants DEF Actors, RuntimeIInv, RuntimeInv
<1>2. CASE StopServer(Lifecycle)
  <2>1. Server!TakeDown
    BY <1>1, <1>2 DEF StopServer, Go, Server!TakeDown
  <2> QED
    BY <2>1 DEF Server!ServerNext
<1>3. CASE TakeChild(Lifecycle)
  BY <1>1, <1>3 DEF TakeChild, Go, Server!serverSide
<1>4. CASE Stopped(Lifecycle) /\ op \in Stops
  <2>1. Server!Succeed
    BY <1>1, <1>4 DEF Stopped, Go, Stops, Server!Succeed
  <2> QED
    BY <2>1 DEF Server!ServerNext
<1>5. CASE Stopped(Lifecycle) /\ op \notin Stops
  <2>1. Server!TakeDown
    BY <1>1, <1>5 DEF Stopped, Go, Stops, Server!TakeDown
  <2> QED
    BY <2>1 DEF Server!ServerNext
<1> QED
  BY <1>2, <1>3, <1>4, <1>5

\* It spawns a server, and waits for it.
LEMMA SpawnKeepsContract ==
    ASSUME RuntimeIInv, GoalInv,
           \/ Launch(Lifecycle) \/ PortFound(Lifecycle) \/ Store(Lifecycle) \/ Healthy(Lifecycle)
           \/ Unhealthy(Lifecycle)
    PROVE  [Server!ServerNext]_Server!serverSide
<1>1. /\ Lifecycle \in Actors /\ Lifecycle \notin Dogs /\ at \in [Actors -> Points] /\ goal \in [Actors -> Layers]
      /\ op \in Ops \cup {"none"} /\ (op = "none" <=> at[Lifecycle] = "idle")
  BY RuntimeConstants DEF Actors, RuntimeIInv, RuntimeInv
<1>2. CASE Launch(Lifecycle) \/ Unhealthy(Lifecycle)
  <2>1. Server!TakeDown
    BY <1>1, <1>2 DEF Launch, Unhealthy, Go, Server!TakeDown
  <2> QED
    BY <2>1 DEF Server!ServerNext
<1>3. CASE PortFound(Lifecycle) \/ Store(Lifecycle)
  BY <1>1, <1>3 DEF PortFound, Store, Go, Server!serverSide
<1>4. CASE Healthy(Lifecycle)
  <2>1. op \notin Stops
    BY <1>4 DEF RuntimeIInv, SpawnInv, Healthy
  <2>2. /\ at[Lifecycle] = "health" /\ at'[Lifecycle] = "done" /\ state' = "READY" /\ ngl' = goal[Lifecycle]
        /\ UNCHANGED <<op, dog, fate>>
    BY <1>1, <1>4, RuntimeConstants DEF Healthy, Go, RuntimeIInv, RuntimeInv
  <2>3. op = "evict" => ngl' = OnCpu
    BY <2>2 DEF GoalInv
  <2>4. Server!Succeed
    BY <1>1, <2>1, <2>2, <2>3 DEF Ops, Stops, Server!Succeed, Server!Places
  <2> QED
    BY <2>4 DEF Server!ServerNext
<1> QED
  BY <1>2, <1>3, <1>4

\* A spawn of it fails: for good, or for the fallback.
LEMMA FailureKeepsContract ==
    ASSUME RuntimeIInv, LaunchFails(Lifecycle) \/ PortMissing(Lifecycle) \/ Reap(Lifecycle)
    PROVE  [Server!ServerNext]_Server!serverSide
<1>1. /\ Lifecycle \in Actors /\ Lifecycle \notin Dogs /\ at \in [Actors -> Points]
      /\ op \in Ops \cup {"none"} /\ (op = "none" <=> at[Lifecycle] = "idle")
  BY RuntimeConstants DEF Actors, RuntimeIInv, RuntimeInv
<1>2. op \notin Stops /\ at[Lifecycle] \in {"launch", "port", "reap"}
  BY DEF RuntimeIInv, SpawnInv, LaunchFails, PortMissing, Reap
<1>3. /\ at'[Lifecycle] \in {"launch", "failed"} /\ state' \in {state, "ERROR"} /\ ngl' = ngl
      /\ op' = op /\ dog' = dog /\ fate' = fate
  BY <1>1, RuntimeConstants DEF LaunchFails, PortMissing, Reap, SpawnFails, Go, RuntimeIInv, RuntimeInv
<1>4. CASE at'[Lifecycle] = "failed"
  <2>1. Server!Fail
    BY <1>1, <1>2, <1>3, <1>4 DEF Ops, Stops, Server!Fail
  <2> QED
    BY <2>1 DEF Server!ServerNext
<1>5. CASE at'[Lifecycle] = "launch" /\ state' = state
  BY <1>2, <1>3, <1>5 DEF Server!serverSide
<1>6. CASE at'[Lifecycle] = "launch" /\ state' = "ERROR"
  <2>1. Server!TakeDown
    BY <1>1, <1>2, <1>3, <1>6 DEF Server!TakeDown
  <2> QED
    BY <2>1 DEF Server!ServerNext
<1> QED
  BY <1>3, <1>4, <1>5, <1>6

\* The lock is taken and released, and the watchdog stopped.
LEMMA LockKeepsContract ==
    ASSUME RuntimeIInv, GoalInv,
           (\E kind \in Ops \ {"ensure"} : Enter(kind)) \/ EnsureReady \/ Disarm \/ Finish \/ OpDropped
    PROVE  Server!ServerNext
<1>1. /\ Lifecycle \in Actors /\ at \in [Actors -> Points]
      /\ op \in Ops \cup {"none"} /\ (op = "none" <=> at[Lifecycle] = "idle")
      /\ \A d \in Dogs : fate[d] = "armed" <=> d = dog
      /\ fate \in [Dogs -> Fates] /\ dog \in Dogs \cup {NoDog} /\ NoDog \notin Dogs
  BY RuntimeConstants DEF Actors, RuntimeIInv, RuntimeInv
<1>2. ASSUME NEW kind \in Ops \ {"ensure"}, Enter(kind) PROVE Server!ServerNext
  <2>1. Server!Take(IF kind \in Stops THEN "stop" ELSE kind)
    BY <1>1, <1>2 DEF Enter, Ops, Stops, serverVars, dogVars, Server!Take
  <2>2. (IF kind \in Stops THEN "stop" ELSE kind) \in Server!Kinds
    BY DEF Ops, Stops, Server!Kinds
  <2> QED
    BY <2>1, <2>2 DEF Server!ServerNext
<1>3. CASE EnsureReady
  <2>1. Server!Take("ensure")
    BY <1>1, <1>3 DEF EnsureReady, dogVars, Server!Take
  <2> QED
    BY <2>1 DEF Server!ServerNext, Server!Kinds
<1>4. CASE Disarm
  <2>1. (\E d \in Dogs : fate'[d] = "aborted") <=> (\E d \in Dogs : fate[d] = "aborted") \/ dog # NoDog
    BY <1>1, <1>4 DEF Disarm
  <2>2. Server!Disarm
    BY <1>1, <1>4, <2>1 DEF Disarm, serverVars, Server!Disarm
  <2> QED
    BY <2>2 DEF Server!ServerNext
<1>5. CASE Finish
  <2>1. (\E d \in Dogs : fate'[d] = "aborted") <=> (\E d \in Dogs : fate[d] = "aborted")
    BY <1>1, <1>5 DEF Finish, dogVars
  <2>2. dog' # NoDog <=> dog # NoDog \/ (at[Lifecycle] # "failed" /\ op \in {"restart", "ensure", "restore"})
    BY <1>1, <1>5 DEF Finish, dogVars
  <2>3. /\ at[Lifecycle] \in {"done", "fast", "failed"} /\ at'[Lifecycle] = "idle" /\ op' = "none"
        /\ UNCHANGED <<ngl, state>>
    BY <1>1, <1>5 DEF Finish, serverVars
  <2>4. Server!LetGo
    BY <1>1, <2>1, <2>2, <2>3 DEF Ops, Server!LetGo
  <2> QED
    BY <2>4 DEF Server!ServerNext
<1>6. CASE OpDropped
  <2>1. Server!Drop
    BY <1>1, <1>6 DEF OpDropped, dogVars, Server!Drop
  <2> QED
    BY <2>1 DEF Server!ServerNext
<1> QED
  BY <1>2, <1>3, <1>4, <1>5, <1>6

\* A watchdog, armed or on its way out, moves the model; one that is dropped is gone.
LEMMA DogKeepsContract ==
    ASSUME RuntimeIInv, NEW d \in Dogs, ServerStep(d) \/ DogSwaps(d) \/ DogDropped(d)
    PROVE  [Server!ServerNext]_Server!serverSide
<1>1. /\ d # Lifecycle /\ d \in Actors
      /\ \A e \in Dogs : fate[e] = "armed" <=> e = dog
      /\ fate \in [Dogs -> Fates] /\ dog \in Dogs \cup {NoDog} /\ NoDog \notin Dogs
  BY RuntimeConstants DEF Actors, RuntimeIInv, RuntimeInv
<1>2. UNCHANGED <<op, retried, at[Lifecycle], goal[Lifecycle]>>
  BY DogLeavesOperation
<1>3. CASE DogDropped(d)
  <2>1. (\E e \in Dogs : fate'[e] = "aborted") => \E e \in Dogs : fate[e] = "aborted"
    BY <1>1, <1>3 DEF DogDropped
  <2>2. UNCHANGED <<ngl, state, dog>>
    BY <1>3 DEF DogDropped
  <2>3. UNCHANGED Server!serverSide \/ Server!Fade
    BY <1>2, <2>1, <2>2 DEF Server!serverSide, Server!Fade
  <2> QED
    BY <2>3 DEF Server!ServerNext
<1>4. CASE ServerStep(d) \/ DogSwaps(d)
  <2>1. \E p \in Points : Go(d, p)
    BY <1>4, <1>1 DEF ServerStep, DogSwaps, StopServer, TakeChild, Stopped, Launch, LaunchFails, PortFound,
       PortMissing, Store, Healthy, Unhealthy, Reap, SpawnFails, Points
  <2>2. /\ dog # NoDog \/ \E e \in Dogs : fate[e] = "aborted"
        /\ (\E e \in Dogs : fate'[e] = "aborted") => \E e \in Dogs : fate[e] = "aborted"
        /\ dog' = dog
    BY <1>1, <2>1 DEF Go
  <2>4. \/ UNCHANGED <<ngl, state>>
        \/ UNCHANGED ngl /\ state' # "READY"
        \/ state' = "READY"
    BY <1>4 DEF ServerStep, DogSwaps, StopServer, TakeChild, Stopped, Launch, LaunchFails, PortFound,
       PortMissing, Store, Healthy, Unhealthy, Reap, serverVars
  <2>5. CASE UNCHANGED <<ngl, state>>
    <3>1. UNCHANGED Server!serverSide \/ Server!Fade
      BY <1>2, <2>2, <2>5 DEF Server!serverSide, Server!Fade
    <3> QED
      BY <3>1 DEF Server!ServerNext
  <2>6. CASE (UNCHANGED ngl /\ state' # "READY") \/ state' = "READY"
    <3>1. Server!WatchdogActs
      BY <1>2, <2>2, <2>6 DEF Server!WatchdogActs, Server!Places
    <3> QED
      BY <3>1 DEF Server!ServerNext
  <2> QED
    BY <2>4, <2>5, <2>6
<1> QED
  BY <1>3, <1>4

\* A crash is not seen until somebody asks.
LEMMA CrashKeepsContract ==
    ASSUME (\E p \in Procs : Crash(p)) \/ NoticeDeath \/ UNCHANGED vars
    PROVE  UNCHANGED Server!serverSide
  BY UnseenStutters DEF Seen, Crash, NoticeDeath, actorVars, opVars, dogVars, serverVars, vars

\* The manager keeps the promise its callers rely on, for any number of processes,
\* watchdog tasks and layers: every spawn, stop, swap, failure and dropped future is a
\* step of ServerContract or nothing its callers see (Orchestrator, GpuWatchdog).
THEOREM RuntimeRefinesContract == Spec => RuntimeKeepsContract
<1>1. Init => Server!ServerInit
  BY RuntimeConstants DEF Init, Actors, Server!ServerInit, Server!Places
<1>2. RuntimeIInv /\ GoalInv /\ [Next]_vars => [Server!ServerNext]_Server!serverSide
  <2> SUFFICES ASSUME RuntimeIInv, GoalInv, [Next]_vars
               PROVE  [Server!ServerNext]_Server!serverSide
    OBVIOUS
  <2>1. ASSUME NEW a \in Actors, ServerStep(a) PROVE [Server!ServerNext]_Server!serverSide
    <3>1. CASE a \in Dogs
      BY <2>1, <3>1, DogKeepsContract
    <3>2. CASE a = Lifecycle
      BY <2>1, <3>2, DownKeepsContract, SpawnKeepsContract, FailureKeepsContract DEF ServerStep
    <3> QED
      BY <3>1, <3>2 DEF Actors
  <2>2. ASSUME NEW d \in Dogs, DogSwaps(d) \/ DogDropped(d) PROVE [Server!ServerNext]_Server!serverSide
    BY <2>2, DogKeepsContract
  <2> QED
    BY <2>1, <2>2, LockKeepsContract, CrashKeepsContract DEF Next
<1> QED
  BY <1>1, <1>2, GoalInvariant, PTL DEF Spec, RuntimeKeepsContract, Server!ServerSpec
=============================================================================
