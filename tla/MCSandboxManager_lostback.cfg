\* A stop in flight while its sandbox vanishes.
SPECIFICATION Spec
CONSTANTS
    None = None
    c1 = c1
    c2 = c2
    reaper = reaper
    ticker = ticker
    Ticker = ticker
    Procs <- MCProcs
    Resources <- OneResource
    Cost <- CostOne
    Callers = {c1}
    Sweepers = {}
    Ids = {s1}
    CallerOps = {"create", "stop"}
    MayFail = {}
    MaxTime = 0
    IdleTimeout = 1
    MaxCrashes = 0
    MaxLosses = 1
    Specs = {"small"}
    Exempt = {}
    Limit <- LimitTwo
PROPERTY LostIsTerminal
SYMMETRY MCSymmetry
