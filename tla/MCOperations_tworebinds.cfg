SPECIFICATION Spec
CONSTANTS
    o1 = o1
    o2 = o2
    o3 = o3
    OpIds = {o1, o2, o3}
    s1 = s1
    s2 = s2
    s3 = s3
    Sids = {s1, s2, s3}
    c1 = c1
    c2 = c2
    Callers = {c1, c2}
    w1 = w1
    w2 = w2
    Workers = {w1, w2}
    k1 = k1
    k2 = k2
    Keys = {k1}
    NoKey = NoKey
    None = None
    Requests <- CreateRequests
    Places = {"local"}
    MayVanish = TRUE
    PutsFail = FALSE
    MaxCrashes = 0
SYMMETRY MCSymmetry
INVARIANT Idempotent
CHECK_DEADLOCK FALSE
