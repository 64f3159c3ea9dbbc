SPECIFICATION Spec
CONSTANTS
    s1 = s1
    s2 = s2
    a = a
    b = b
    c = c
    Workers = {w1, w2}
    Pages = {s1, s2, a, b, c}
    Starts <- TwoStarts
    Sites <- TwoPathSites
    Moves <- NoMoves
    Token = "us"
    Ours = {"us", "u"}
    Files <- NoFile
    MaxDepth = 2
    MaxPages = 5
    MaxDelay = 0
    MaxRetries = 0
INVARIANT
    AllWithinDepthVisited
