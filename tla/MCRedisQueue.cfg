SPECIFICATION FairSpec
CONSTANTS
    Procs = {p1, p2}
    Unreliable = {p1}
    MaxEntries = 3
    Count = 2
    Concurrency = 1
    None = None
INVARIANT
    QueueTypeOK
PROPERTIES
    ImplementsJobQueue
    StreamDrains
    ReadIsDone
