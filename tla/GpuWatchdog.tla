----------------------------- MODULE GpuWatchdog -----------------------------
(***************************************************************************)
(* The decisions of the GPU watchdog (llm/orchestrator/gpu_watchdog.rs,    *)
(* strategy.rs): from the free memory of the card it decides when the      *)
(* model server is replaced by one with fewer or more layers on the GPU.   *)
(* How a swap stops and spawns servers is LlmRuntime's; here a swap is one *)
(* step that succeeds or leaves no server.                                 *)
(*                                                                         *)
(* Memory is counted in coarse units and time in polls.  With any layer on *)
(* the card the server takes what its profile says: overhead, layers, the  *)
(* KV cache of its context and, from vision_min_ngl layers on, the         *)
(* projector.  This is the CUDA back end: on Metal every target has all    *)
(* layers.                                                                 *)
(***************************************************************************)
EXTENDS Integers

CONSTANTS
    Total,                      \* memory of the card
    Emergency, Yield, RecoverAt,  \* emergency_, yield_ and recover_threshold_mb
    Band,                       \* hysteresis_band_mb
    Margin,                     \* safety_margin_mb
    Base,                       \* base_vram_overhead_mb; a layer takes one unit
    Layers,                     \* total_layers
    MinKv, MaxKv,               \* KV cache of min_context and of max_context
    Projector, VisionFrom,      \* mmproj_vram_mb (zero without vision), vision_min_ngl
    MinDelta, MinDeltaUp,
    EmergencyDwell, PressureDwell, RecoveryDwell, MaxDwell, CooldownTime,
    PerHour,                      \* [{"normal", "emergency"} -> swaps per hour]
    MaxChanges,                 \* bound on what others do to the card and the server
    NoReading

Buckets == {"normal", "emergency"}

ASSUME WatchdogConstants ==
    /\ {Total, Emergency, Yield, RecoverAt, Band, Margin, Base, Layers, MaxChanges} \subseteq Nat
    /\ {MaxKv, Projector, VisionFrom} \subseteq Nat /\ MinKv \in 0..MaxKv
    /\ {MinDelta, MinDeltaUp, EmergencyDwell, PressureDwell, RecoveryDwell, CooldownTime}
         \subseteq Nat \ {0}
    /\ MaxDwell \in Nat
    /\ {EmergencyDwell, PressureDwell, RecoveryDwell, CooldownTime} \subseteq 1..MaxDwell
    /\ PerHour \in [Buckets -> Nat \ {0}]
    /\ NoReading \notin 0..Total

VARIABLES
    mode, age,    \* WatchdogState and the polls since it was entered
    target,       \* TargetParams computed on entering Pressured or Recovering
    ema,          \* the smoothed reading
    spent,        \* [Buckets -> swaps within the last hour]
    params,       \* current_params of the server
    up,           \* whether there is a server
    load,         \* what other programs use of the card
    changes

dogState     == <<mode, age, target>>
card         == <<params, up, load>>
watchdogVars == <<dogState, ema, spent, card, changes>>

\* TargetParams, the context by the memory of its KV cache
Params  == [ngl : 0..Layers, kv : MinKv..MaxKv]
CpuOnly == [ngl |-> 0, kv |-> MinKv]

WatchdogTypeOK ==
    /\ mode \in {"idle", "pressured", "cooldown", "recovering", "critical"}
    /\ age \in 0..MaxDwell
    /\ target \in Params /\ params \in Params
    /\ ema \in 0..Total \cup {NoReading}
    /\ spent \in [Buckets -> Nat]
    /\ up \in BOOLEAN
    /\ load \in 0..Total
    /\ changes \in 0..MaxChanges

WatchdogInit ==
    /\ mode = "idle" /\ age = 0 /\ target = CpuOnly
    /\ ema = NoReading
    /\ spent = [b \in Buckets |-> 0]
    /\ params \in Params /\ up = TRUE
    /\ load \in 0..Total
    /\ changes = 0

AtLeast0(n) == IF n < 0 THEN 0 ELSE n

Taken(p) ==
    IF p.ngl = 0 THEN 0
    ELSE Base + p.ngl + p.kv + (IF p.ngl >= VisionFrom THEN Projector ELSE 0)

Free == AtLeast0(Total - load - (IF up THEN Taken(params) ELSE 0))

\* VramEma::update, alpha one half; it comes to rest at a steady reading.
Reading ==
    IF ema = NoReading THEN Free
    ELSE IF Free > ema THEN ema + (Free - ema + 1) \div 2
    ELSE ema - (ema - Free + 1) \div 2

-----------------------------------------------------------------------------
\* calculate_target_params: as many layers as the budget holds; the context takes what is
\* left of it, and min_context however little that is.
Budget(free) == AtLeast0(free - Margin - Base - Projector)

\* A plausible slip: the margin is not left free.
LayersWithoutMargin(free) ==
    LET n == AtLeast0(free - Base - Projector) IN IF n > Layers THEN Layers ELSE n

LayersFor(free) == IF Budget(free) > Layers THEN Layers ELSE Budget(free)

KvFor(free) ==
    LET rest == Budget(free) - LayersFor(free)
    IN  IF rest < MinKv THEN MinKv ELSE IF rest > MaxKv THEN MaxKv ELSE rest

TargetFor(free) == [ngl |-> LayersFor(free), kv |-> KvFor(free)]

EnterMode(m, t) == mode' = m /\ age' = 0 /\ target' = t
Stay        == age' = age + 1 /\ UNCHANGED <<mode, target>>
Hold        == UNCHANGED dogState

HasBudget(b) == spent[b] < PerHour[b]

\* execute_swap_with_target: only a swap that succeeds is put on the budget.
SwapTo(p, b) ==
    /\ EnterMode("cooldown", CpuOnly)
    /\ \/ params' = p /\ up' = TRUE /\ spent' = [spent EXCEPT ![b] = @ + 1]
       \/ up' = FALSE /\ UNCHANGED <<params, spent>>
    /\ UNCHANGED load

\* Every iteration of the loop takes a reading.  A state held for too long counts as Idle.
Overdue  == mode \in {"pressured", "recovering", "critical"} /\ age = MaxDwell
In(m)    == IF Overdue THEN m = "idle" ELSE mode = m
Sample   == ema' = Reading /\ UNCHANGED changes
Keep     == UNCHANGED <<spent, card>>
Elapsed(dwell) == age + 1 >= dwell

\* The overlay: below the emergency threshold every state but Cooldown is Critical.
InEmergency == Reading < Emergency /\ ~In("cooldown")

EnterCritical ==
    /\ InEmergency /\ ~In("critical")
    /\ EnterMode("critical", CpuOnly) /\ Keep

StayCritical ==
    /\ InEmergency /\ In("critical")
    /\ ~Elapsed(EmergencyDwell) \/ ~HasBudget("emergency")
    /\ Stay /\ Keep

EmergencySwap ==
    /\ InEmergency /\ In("critical")
    /\ Elapsed(EmergencyDwell) /\ HasBudget("emergency")
    /\ SwapTo(TargetFor(Reading), "emergency")

FeelPressure ==
    /\ ~InEmergency /\ In("idle") /\ Reading < Yield
    /\ EnterMode("pressured", TargetFor(Reading)) /\ Keep

\* A plausible slip: the budget is left to the swap to check.
HeadroomAtAnyRate ==
    /\ Reading > RecoverAt + Band
    /\ LayersFor(Reading) - params.ngl >= MinDeltaUp

Headroom ==
    /\ Reading > RecoverAt + Band
    /\ LayersFor(Reading) - params.ngl >= MinDeltaUp
    /\ HasBudget("normal")

SeeHeadroom ==
    /\ ~InEmergency /\ In("idle") /\ Reading >= Yield /\ Headroom
    /\ EnterMode("recovering", TargetFor(Reading)) /\ Keep

StayIdle ==
    /\ ~InEmergency /\ In("idle") /\ Reading >= Yield /\ ~Headroom
    /\ EnterMode("idle", CpuOnly) /\ Keep

Relieved ==
    /\ ~InEmergency /\ In("pressured") /\ Reading > Yield + Band
    /\ EnterMode("idle", CpuOnly) /\ Keep

Pressed == ~InEmergency /\ In("pressured") /\ Reading <= Yield + Band
WorthIt == MinDelta <= IF params.ngl > target.ngl THEN params.ngl - target.ngl
                                                  ELSE target.ngl - params.ngl

\* A plausible slip: the clock starts again at every poll.
StayPressuredAnew ==
    /\ Pressed /\ ~Elapsed(PressureDwell)
    /\ EnterMode("pressured", target) /\ Keep

StayPressured ==
    /\ Pressed /\ ~Elapsed(PressureDwell)
    /\ Stay /\ Keep

PressureSwap ==
    /\ Pressed /\ Elapsed(PressureDwell) /\ HasBudget("normal") /\ WorthIt
    /\ SwapTo(target, "normal")

PressureIgnored ==
    /\ Pressed /\ Elapsed(PressureDwell) /\ ~(HasBudget("normal") /\ WorthIt)
    /\ EnterMode("cooldown", CpuOnly) /\ Keep

CoolingDown ==
    /\ In("cooldown") /\ ~Elapsed(CooldownTime)
    /\ Stay /\ Keep

CooldownOver ==
    /\ In("cooldown") /\ Elapsed(CooldownTime)
    /\ EnterMode("idle", CpuOnly) /\ Keep

\* After the dwell the reading is not looked at again.
ScaleUp ==
    /\ ~InEmergency /\ In("recovering") /\ Elapsed(RecoveryDwell)
    /\ SwapTo(target, "normal")

HeadroomGone ==
    /\ ~InEmergency /\ In("recovering") /\ ~Elapsed(RecoveryDwell) /\ Reading < RecoverAt
    /\ EnterMode("idle", CpuOnly) /\ Keep

StayRecovering ==
    /\ ~InEmergency /\ In("recovering") /\ ~Elapsed(RecoveryDwell) /\ Reading >= RecoverAt
    /\ Stay /\ Keep

CriticalOver ==
    /\ ~InEmergency /\ In("critical")
    /\ EnterMode("idle", CpuOnly) /\ Keep

Poll ==
    /\ Sample
    /\ \/ EnterCritical \/ StayCritical \/ EmergencySwap
       \/ FeelPressure \/ SeeHeadroom \/ StayIdle
       \/ Relieved \/ StayPressured \/ PressureSwap \/ PressureIgnored
       \/ CoolingDown \/ CooldownOver
       \/ ScaleUp \/ HeadroomGone \/ StayRecovering \/ CriticalOver

-----------------------------------------------------------------------------
\* RateBucket::prune: a swap is an hour old.
Expire(b) ==
    /\ spent[b] > 0
    /\ spent' = [spent EXCEPT ![b] = @ - 1]
    /\ UNCHANGED <<dogState, ema, card, changes>>

Change == changes < MaxChanges /\ changes' = changes + 1

LoadChanges(l) ==
    /\ Change /\ l # load
    /\ load' = l
    /\ UNCHANGED <<dogState, ema, spent, params, up>>

ServerDies ==
    /\ Change /\ up
    /\ up' = FALSE
    /\ UNCHANGED <<dogState, ema, spent, params, load>>

\* ensure_ready and the like start a server; where they stopped the watchdog they start
\* another one, with readings and budgets of its own.  Some keep the context the server had.
Respawn(p) ==
    /\ Change
    /\ params' = p /\ up' = TRUE
    /\ \/ UNCHANGED <<dogState, ema, spent>>
       \/ EnterMode("idle", CpuOnly) /\ ema' = NoReading /\ spent' = [b \in Buckets |-> 0]
    /\ UNCHANGED load

WatchdogNext ==
    \/ Poll
    \/ \E b \in Buckets : Expire(b)
    \/ \E l \in 0..Total : LoadChanges(l)
    \/ ServerDies
    \/ \E p \in Params : Respawn(p)

WatchdogSpec == WatchdogInit /\ [][WatchdogNext]_watchdogVars

\* The loop polls for ever, and an hour passes.
WatchdogFairness ==
    /\ WF_watchdogVars(Poll)
    /\ \A b \in Buckets : WF_watchdogVars(Expire(b))

WatchdogFair == WatchdogSpec /\ WatchdogFairness

-----------------------------------------------------------------------------
\* No bucket is overdrawn: within an hour one watchdog task swaps the server at most so
\* many times, though the budget is looked at polls before a scale-up (has_budget) and an
\* emergency may come between.  Each new task starts with budgets of its own.
BudgetsHold == \A b \in Buckets : spent[b] <= PerHour[b]

\* The anti-thrash guarantee (gpu_watchdog.rs:24), where the margin covers the yield
\* threshold and the KV cache of min_context, which is granted on top of the budget: once
\* the other programs and the user leave the card alone, the number of layers comes to
\* rest: a server that was scaled up does not cause the pressure that scales it down again.
LayersSettle == \E n \in 0..Layers : <>[](params.ngl = n)

\* Pressure that lasts is acted upon: it goes away, or the server has next to nothing on
\* the card, or there is no server; budgets and cooldowns only delay that.
PressureIsMet == []<>(Free >= Yield \/ params.ngl < MinDelta \/ ~up)
=============================================================================
