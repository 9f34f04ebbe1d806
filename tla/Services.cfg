SPECIFICATION MCSpec
CONSTANTS
  Turns = {t1, t2}
  Bots = {b1, b2}
  NoBot = noBot
  MaxUpdates = 2
  Limit = 2
  Tries = 2
  MaxUpsets = 1
  Kinds = {"ask", "aside", "poison"}
  Requests = {r1, r2, r3}
  Callers = {a1, a2}
  Threshold = 2
  Attempts = 3
  MaxTurns = 2
  Servers = {v1}
  Clients = {c1, c2, c3}
  NoClient = noClient
  Launches = {l1, l2}
  Off = off
  Tools = {u1}
  MaxPings = 2
  MaxFaults = 2
  MaxEdits = 2
  Speeches = {s1}
  Loop = loop
  NoTurn = noTurn
  Slots = 1
  AudioEnds = TRUE
  Total = 10
  Emergency = 1
  Yield = 2
  RecoverAt = 4
  Band = 1
  Margin = 3
  Base = 1
  Layers = 3
  MinKv = 1
  MaxKv = 2
  Projector = 1
  VisionFrom = 2
  MinDelta = 1
  MinDeltaUp = 2
  EmergencyDwell = 1
  PressureDwell = 2
  RecoveryDwell = 2
  MaxDwell = 3
  CooldownTime = 2
  PerHour <- MCPerHour
  MaxChanges = 2
  NoReading = none
INVARIANTS
  RetryIsClean
  NothingLost
  NoLoopRepeats
  ServersAsConfigured
  ToolsReachTheirServer
  GateHolds
  BudgetsHold
  OpenIsFull
PROPERTIES
  ReleaseSparesTurns
  TurnsFinish
  MessagesServed
  GatewayKeepsContract
  CircuitCloses
  DeadServersLeave
  AbortSettles
  LayersSettle
  PressureIsMet
CHECK_DEADLOCK FALSE
