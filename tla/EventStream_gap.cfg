SPECIFICATION FirehoseSpec
CONSTANTS
    NoCursor = NoCursor
    Sources = {n1}
    Entry = n1
    RingSize = 2
    ChanSize = 1
    MaxEvents = 2
    MaxConnects = 1
    MaxRestarts = 0
INVARIANT NoGap
CHECK_DEADLOCK FALSE
