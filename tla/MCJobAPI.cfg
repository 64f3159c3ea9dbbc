SPECIFICATION FairSpec
CONSTANTS
    Posts = {p1}
    Ticks = {t1}
    Gets = {g1}
    N = 2
    HasCounter = TRUE
    p1 = p1
    Repeatable <- MCRepeatable
    MaxStarts = 2
    None = None
INVARIANTS
    APITypeOK
    AcceptedIsQueued
    TicksComplete
PROPERTIES
    StatusKnowsAccepted
    BegunEnds
