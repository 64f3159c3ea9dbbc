SPECIFICATION FairSpec
CONSTANTS
    Fetches = {f1, f2}
    Sessions = {s1, s2}
    Profiles = {k1, k2}
    PoolSize = 2
    MaxSessionUses = 2
    MaxLaunches = 2
    None = None
INVARIANTS
    BrowserTypeOK
    CountsExact
    OneOwner
    IdleOnCurrentBrowser
    CloseLeavesNothing
PROPERTIES
    EveryFetchReturns
