SPECIFICATION FairSpec
CONSTANTS
    u1 = u1
    Workers = {w1, w2}
    Objects = {o1}
    URLs = {u1}
    Direct = u1
    FirstLists <- OneProxy
    ReloadLists <- NoLists
    Strategy = "Random"
    BanThreshold = 1
    BanCooldown = 1
    ConfigMaxCooldown = 2
    RetryAfters = {0, 1}
    MaxStreak = 4
    None = None
    RPS = 2
    ConfigMin = 1
    Step = 1
    Adaptive = TRUE
    Queries = 2
    Buffer = 1
    MaxRetries = 1
    MaxProxyWait = 1
INVARIANTS
    TypeOK
    EveryJobCounted
    NothingLeftBehind
PROPERTIES
    ShutdownSparesProxies
    RunReturns
