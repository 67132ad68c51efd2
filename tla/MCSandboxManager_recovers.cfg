\* A client and the ticker write the base from listings of different ages; a
\* sandbox vanishes, and the node crashes once.
SPECIFICATION FairSpec
CONSTANTS
    None = None
    c1 = c1
    c2 = c2
    reaper = reaper
    ticker = ticker
    Ticker = ticker
    Procs <- MCProcs
    Resources <- OneResource
    Cost <- CostOne
    Callers = {c1}
    Sweepers = {}
    Ids = {s1, s2}
    CallerOps = {"create", "stop", "delete"}
    MayFail = {}
    MaxTime = 0
    IdleTimeout = 1
    MaxCrashes = 1
    MaxLosses = 1
    Specs = {"small"}
    Exempt = {}
    Limit <- LimitTwo
PROPERTIES AccountingHeals VanishedBecomesLost
