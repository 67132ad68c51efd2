SPECIFICATION Spec
CONSTANTS
    u1 = u1
    u2 = u2
    u3 = u3
    d1 = d1
    f = f
    g = g
    h = h
    None = None
    Uploads = {u1, u2}
    Downloads = {}
    Paths = {f}
    PathOf <- OnePath
    After <- Single
    Chmods = {}
    Pieces <- TwoPieces
    OldFile <- Nothing
    TransferTries = 1
INVARIANT PublishedWhole
CHECK_DEADLOCK FALSE
