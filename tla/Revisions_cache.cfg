SPECIFICATION FairSpec
CONSTANTS
    Keys = {k1, k2, k3}
    Callers = {c1, c2}
    Fills = {f1, f2, f3}
    maxEntries = 2
    failureRetry = 1
    MaxTime = 1
INVARIANTS
    TypeOK
    CacheBounded
    OneFillPerKey
PROPERTIES
    AnswersAreKept
    EveryLookupReturns
