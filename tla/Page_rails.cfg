SPECIFICATION Spec
CONSTANTS
    Services = {s1}
    Conns = {c1}
    Page = c1
    Route = "services"
    Buffer = 1
    WireBound = 1
    MaxRuns = 2
    MaxSteps = 1
    MaxCuts = 1
    MaxLost = 1
    MaxFetches = 1
PROPERTIES
    RailsClear
    BusyIsShown
