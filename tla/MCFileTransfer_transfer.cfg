SPECIFICATION FairSpec
CONSTANTS
    u1 = u1
    u2 = u2
    u3 = u3
    d1 = d1
    f = f
    g = g
    h = h
    None = None
    Uploads = {u1, u2, u3}
    Downloads = {d1}
    Paths = {f, g, h}
    PathOf <- OwnPaths
    After <- OneCall
    Chmods = {u1}
    Pieces <- OneOrTwo
    OldFile <- OldThree
    TransferTries = 2
PROPERTY IsAtomic
PROPERTY TransferEnds
CHECK_DEADLOCK FALSE
