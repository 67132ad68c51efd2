\* Two creates publish their listings in the other order.
SPECIFICATION Spec
CONSTANTS
    None = None
    c1 = c1
    c2 = c2
    reaper = reaper
    ticker = ticker
    Ticker = ticker
    Procs <- MCProcs
    Resources <- OneResource
    Cost <- CostOne
    Callers = {c1, c2}
    Sweepers = {}
    Ids = {s1, s2}
    CallerOps = {"create"}
    MayFail = {}
    MaxTime = 0
    IdleTimeout = 1
    MaxCrashes = 0
    MaxLosses = 0
    Specs = {"small"}
    Exempt = {}
    Limit <- LimitTwo
INVARIANT OwnedIsFresh
SYMMETRY MCSymmetry
