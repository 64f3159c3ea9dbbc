SPECIFICATION FairSpec
CONSTANTS
    Procs = {p1, p2}
    Unreliable = {p1}
    MaxEntries = 1
    Count = 2
    Concurrency = 1
    None = None
PROPERTY
    ClaimedIsWorkedOn
