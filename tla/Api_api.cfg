SPECIFICATION ApiSpec
CONSTANTS
    Services = {s1}
    Repositories = {r1}
    Absent = Absent
    Unreadable = Unreadable
    MaxVersion = 2
    MaxChanges = 2
    MaxFaults = 1
    MaxRestarts = 1
    Tokens = {t1, t2}
    Typo = "typo"
INVARIANTS
    NotFoundIsKnown
    OnceReadStaysServed
    NeverWidened
    BrowserKeepsWorking
    OfferHasVerdict
    StatusIsTrue
