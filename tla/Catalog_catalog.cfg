SPECIFICATION FairSpec
CONSTANTS
    Services = {s1}
    Repositories = {r1, r2}
    Absent = Absent
    Unreadable = Unreadable
    MaxVersion = 2
    MaxChanges = 2
    MaxFaults = 1
    MaxRestarts = 1
INVARIANTS
    TypeOK
PROPERTIES
    OffersNeverGoBack
    VerdictIsRight
    NewestIsOffered
    GaugeSettles
