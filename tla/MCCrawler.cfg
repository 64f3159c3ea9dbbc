SPECIFICATION FairSpec
CONSTANTS
    s1 = s1
    s2 = s2
    a = a
    b = b
    c = c
    Workers = {w1, w2}
    Pages = {s1, s2, a, b, c}
    Starts <- OneStart
    Sites <- SmallSites
    Moves <- AMoved
    Token = "us"
    Ours = {"us", "u"}
    Files <- BothFiles
    MaxDepth = 2
    MaxPages = 4
    MaxDelay = 1
    MaxRetries = 1
INVARIANTS
    CrawlTypeOK
    EveryPageCounted
    NothingMissed
    RobotsObeyed
PROPERTY
    CrawlReturns
