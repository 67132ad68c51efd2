SPECIFICATION Spec
CONSTANTS
    o1 = o1
    o2 = o2
    OpIds = {o1, o2}
    s1 = s1
    s2 = s2
    Sids = {s1, s2}
    c1 = c1
    Callers = {c1}
    w1 = w1
    Workers = {w1}
    k1 = k1
    k2 = k2
    Keys = {k1}
    NoKey = NoKey
    None = None
    Requests <- CreateRequests
    Places = {"local", "peer"}
    MayVanish = FALSE
    PutsFail = FALSE
    MaxCrashes = 0
SYMMETRY MCSymmetry
INVARIANT RebindOnlyWhenGone
CHECK_DEADLOCK FALSE
