SPECIFICATION Spec
CONSTANTS
    NoContent = NoContent
    InitialPin = A
    Services = {s1}
    Digests = {A, B, C}
    MaxEdits = 0
    Mentions = {}
    KeepMergedBranches = TRUE
    Clients = {c1}
    Actions = {"deploy", "rollback", "converge"}
    MaxRuns = 3
    MergeAttempts = 2
    RevertAttempts = 2
    Faults = {"probe", "red", "merge", "restart", "finish"}
    MaxFaults = 3
    MaxStops = 0
SYMMETRY Symmetry
INVARIANTS
    TypeOK
    OneApplierPerService
    HealthyMeansRunning
    RolledBackMeansRestored
    OpenPRAccountedFor
PROPERTIES
    JoinPointKept
