SPECIFICATION PoolFairSpec
CONSTANTS
    u1 = u1
    u2 = u2
    direct = direct
    Workers = {w1, w2}
    Objects = {o1, o2}
    URLs <- MCURLs
    Direct = direct
    FirstLists <- MCFirstLists
    ReloadLists <- MCReloadLists
    Strategy = "RoundRobin"
    BanThreshold = 2
    BanCooldown = 2
    ConfigMaxCooldown = 3
    RetryAfters = {0, 2}
    MaxStreak = 2
    None = None
INVARIANTS
    PoolTypeOK
    CooldownBounded
    FailsBelowThreshold
PROPERTIES
    CooldownKept
    PoolRecovers
    RoundRobinStarvesNone
