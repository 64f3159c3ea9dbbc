SPECIFICATION Spec
CONSTANTS
    Procs = {p1, p2}
    Unreliable = {p1, p2}
    MaxEntries = 3
    Count = 2
    Concurrency = 1
    None = None
INVARIANT
    NoneSilentlyDropped
