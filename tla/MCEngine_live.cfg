SPECIFICATION FairSpec
CONSTANTS
    NoContent = NoContent
    InitialPin = A
    Services = {s1, s2}
    Digests = {A, B}
    MaxEdits = 0
    Mentions = {}
    KeepMergedBranches = TRUE
    Clients = {c1}
    Actions = {"deploy"}
    MaxRuns = 2
    MergeAttempts = 2
    RevertAttempts = 2
    Faults = {"probe", "merge", "sync", "red", "set pr", "set merge"}
    MaxFaults = 1
    MaxStops = 1
INVARIANTS
    MergeSpanSerial
PROPERTIES
    OnlyPushesMoveMain
    EveryRunLeaves
    EveryRunGetsAReceipt
    StopDrains
