SPECIFICATION Spec
CONSTANTS
    Services = {s1}
    Conns = {c1}
    Buffer = 2
    WireBound = 1
    MaxRuns = 1
    MaxSteps = 3
    MaxCuts = 0
    MaxLost = 1
CHECK_DEADLOCK FALSE
INVARIANTS
    NoTransitionUnobserved
