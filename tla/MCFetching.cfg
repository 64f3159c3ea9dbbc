SPECIFICATION FairSpec
CONSTANTS
    Fetches = {f1, f2}
    Proxies = {direct, broken}
    BadURLs = {broken}
    Pages <- MCPages
    Scripted <- MCScripted
    FailEvery = 2
    None = None
INVARIANTS
    FetchTypeOK
    OneTransportPerProxy
    BlocksAreLeftAlone
    ShutdownStartsNoBrowser
    OutcomeOfLastAnswer
PROPERTIES
    EveryFetchEnds
