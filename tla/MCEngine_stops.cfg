SPECIFICATION Spec
CONSTANTS
    NoContent = NoContent
    InitialPin = A
    Services = {s1}
    Digests = {A, B}
    MaxEdits = 1
    Mentions <- MentionInitialPin
    KeepMergedBranches = FALSE
    Clients = {c1, c2}
    Actions = {"deploy", "converge"}
    MaxRuns = 2
    MergeAttempts = 2
    RevertAttempts = 2
    Faults = {"sync", "read", "inspect", "open", "open reply", "red", "checks", "merge", "merge reply", "update", "update lag", "close", "write", "restart", "probe", "begin", "set pr", "set merge", "set digests", "close orphan"}
    MaxFaults = 1
    MaxStops = 1
SYMMETRY Symmetry
INVARIANTS
    UnfinishedIsDriven
    PendingIsLive
    MergeFirst
PROPERTIES
    StopLeavesNoOrphan
    RevertMatchesHost
    ImplementsDeploys
