SPECIFICATION MCSpec
CONSTANTS
    s1 = s1
    Sids = {s1}
    p1 = p1
    p2 = p2
    Operators = {p1, p2}
    w1 = w1
    w2 = w2
    Sweepers = {w1, w2}
    q1 = q1
    Placers = {q1}
    Orders = {"cordon", "uncordon", "drain"}
    MaxRPCs = 3
    SaveFails = TRUE
    LoadFails = TRUE
    ListFails = TRUE
    StopFails = TRUE
    m1 = m1
    m2 = m2
    Procs = {m1, m2}
    MaxFaults = 1
    None = None
INVARIANT FlagsAgree
INVARIANT SweepIsComplete
INVARIANT NodeIdIsStable
PROPERTY ComesBack
CHECK_DEADLOCK FALSE
