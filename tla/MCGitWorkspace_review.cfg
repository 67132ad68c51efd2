CONSTANTS
    Procs = {p1}
    Boxes = {b1, b2}
    Old = {b1}
    Main = main
    Features = {f}
    Review = review
    Change = change
    Upstream = upstream
    Providers = {"gerrit"}
    AllowPush = TRUE
    StartsEmpty = FALSE
    CallsFail = FALSE
    Selections <- SomeSelections
    MaxCommits = 2
    MaxRequests = 3
    MaxCrashes = 0
    None = None
SPECIFICATION Spec
PROPERTY
    ReviewIsCurrent
CHECK_DEADLOCK FALSE
