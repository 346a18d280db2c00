SPECIFICATION Spec
CONSTANTS
    NoContent = NoContent
    InitialPin = A
    Services = {s1}
    Digests = {A, B, C}
    MaxEdits = 1
    Mentions = {}
    KeepMergedBranches = TRUE
    Clients = {c1}
    Actions = {"deploy"}
    MaxRuns = 1
    MergeAttempts = 2
    RevertAttempts = 2
    Faults = {}
    MaxFaults = 0
    MaxStops = 0
SYMMETRY Symmetry
PROPERTIES
    ProposalKeepsEdits
