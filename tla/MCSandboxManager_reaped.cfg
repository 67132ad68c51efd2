\* A keep-alive between the reaper's listing and its stop.
SPECIFICATION Spec
CONSTANTS
    None = None
    c1 = c1
    c2 = c2
    reaper = reaper
    ticker = ticker
    Ticker = ticker
    Procs <- MCProcs
    Resources <- OneResource
    Cost <- CostOne
    Callers = {c1}
    Sweepers = {reaper}
    Ids = {s1}
    CallerOps = {"create", "bump"}
    MayFail = {}
    MaxTime = 2
    IdleTimeout = 1
    MaxCrashes = 0
    MaxLosses = 0
    Specs = {"small"}
    Exempt = {}
    Limit <- LimitTwo
PROPERTY ReapedWasIdle
SYMMETRY MCSymmetry
