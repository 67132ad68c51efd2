\* Two API callers, the ticker and the reaper on one sandbox.  Every daemon and
\* store call may fail, and the node may crash once.
SPECIFICATION Spec
CONSTANTS
    None = None
    c1 = c1
    c2 = c2
    reaper = reaper
    ticker = ticker
    Ticker = ticker
    Procs <- MCProcs
    Resources <- OneResource
    Cost <- CostOne
    Callers = {c1, c2}
    Sweepers = {reaper}
    Ids = {s1}
    CallerOps = {"create", "start", "exec", "delete"}
    MayFail = {"create", "save", "rpc", "remove", "list"}
    MaxTime = 2
    IdleTimeout = 1
    MaxCrashes = 1
    MaxLosses = 0
    Specs = {"small"}
    Exempt = {}
    Limit <- LimitTwo
INVARIANTS NoLostUpdate NoResurrection OrphanOnlyFromCreate NoReservationLeak
SYMMETRY MCSymmetry
