SPECIFICATION StreamsSpec
CONSTANTS
    p1 = p1
    p2 = p2
    d1 = d1
    s1 = s1
    Procs = {p1, p2}
    Dogs = {d1}
    Lifecycle = Lifecycle
    Layers = {0, 1}
    OnCpu = 0
    NoProc = NoProc
    NoDog = NoDog
    Streams = {s1}
INVARIANTS
    CutOnlyBySwap
CHECK_DEADLOCK FALSE
