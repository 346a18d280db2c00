SPECIFICATION Spec
CONSTANTS
    NoContent = NoContent
    InitialPin = A
    Services = {s1}
    Digests = {A, B, C}
    MaxEdits = 0
    Mentions = {}
    KeepMergedBranches = TRUE
    Clients = {c1}
    Actions = {"deploy"}
    MaxRuns = 3
    MergeAttempts = 2
    RevertAttempts = 2
    Faults = {"probe","restart"}
    MaxFaults = 2
    MaxStops = 0
SYMMETRY Symmetry
INVARIANTS
    HealthyWasProbed
