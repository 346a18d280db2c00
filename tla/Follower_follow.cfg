SPECIFICATION Spec
CONSTANTS
    Services = {s1}
    Conns = {c1}
    Buffer = 1
    WireBound = 1
    MaxRuns = 2
    MaxSteps = 2
    MaxCuts = 1
    MaxLost = 1
CHECK_DEADLOCK FALSE
INVARIANTS
    TypeOK
    DrainedIsCurrent
    ExitZeroIsHealthy
    StarterHearsTheEnd
