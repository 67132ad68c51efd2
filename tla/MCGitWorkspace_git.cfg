CONSTANTS
    Procs = {p1, p2}
    Boxes = {b1, b2}
    Old = {b1}
    Main = main
    Features = {f}
    Review = review
    Change = change
    Upstream = upstream
    Providers = {"github", "gerrit"}
    AllowPush = TRUE
    StartsEmpty = TRUE
    CallsFail = TRUE
    Selections <- SomeSelections
    MaxCommits = 2
    MaxRequests = 3
    MaxCrashes = 1
    None = None
SPECIFICATION MCSpec
INVARIANTS OneDeliverable BaseIsReady
PROPERTIES CloneIsUpstream DeliversOwn
CHECK_DEADLOCK FALSE
SYMMETRY Symmetry
