SPECIFICATION Spec
CONSTANTS
    s1 = s1
    s2 = s2
    a = a
    b = b
    c = c
    Workers = {w1, w2}
    Pages = {s1, s2, a, b, c}
    Starts <- OneStart
    Sites <- SmallSites
    Moves <- NoMoves
    Token = "us"
    Ours = {"us", "u"}
    Files <- DelayFile
    MaxDepth = 1
    MaxPages = 3
    MaxDelay = 2
    MaxRetries = 1
PROPERTY
    RequestsSpaced
