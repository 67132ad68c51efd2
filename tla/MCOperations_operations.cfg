SPECIFICATION Spec
CONSTANTS
    o1 = o1
    o2 = o2
    OpIds = {o1, o2}
    s1 = s1
    s2 = s2
    Sids = {s1, s2}
    c1 = c1
    c2 = c2
    Callers = {c1, c2}
    w1 = w1
    w2 = w2
    Workers = {w1, w2}
    k1 = k1
    k2 = k2
    Keys = {k1, k2}
    NoKey = NoKey
    None = None
    Requests <- MCRequests
    Places = {"local", "peer"}
    MayVanish = TRUE
    PutsFail = TRUE
    MaxCrashes = 1
SYMMETRY MCSymmetry
INVARIANT PendingIsWorkedOn
INVARIANT KeysAreSound
PROPERTY TerminalIsFinal
CHECK_DEADLOCK FALSE
