SPECIFICATION FairSpec
CONSTANTS
    p1 = p1
    p2 = p2
    p3 = p3
    d1 = d1
    Procs = {p1, p2, p3}
    Dogs = {d1}
    Lifecycle = Lifecycle
    Layers = {0, 1}
    OnCpu = 0
    NoProc = NoProc
    NoDog = NoDog
INVARIANTS
    NoStrayServer
    OperationsDeliver
PROPERTIES
    OperationsEnd
    OperationsRunDown
    RuntimeKeepsContract
CHECK_DEADLOCK FALSE
