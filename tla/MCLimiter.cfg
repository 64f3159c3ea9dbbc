SPECIFICATION LimiterFairSpec
CONSTANTS
    Workers = {w1, w2}
    Keys = {k1}
    RPS = 40
    ConfigMin = 0
    Step = 2
    Adaptive = TRUE
INVARIANTS
    LimiterTypeOK
    FloorHolds
PROPERTY
    RecoversFullRate
