SPECIFICATION FairFirehose
CONSTANTS
    NoCursor = NoCursor
    Sources = {n1, n2}
    Entry = n1
    RingSize = 1
    ChanSize = 1
    MaxEvents = 2
    MaxConnects = 2
    MaxRestarts = 1
INVARIANT StreamIsFaithful
PROPERTY CatchesUp
CHECK_DEADLOCK FALSE
