SPECIFICATION MCSpec
CONSTANTS
    n1 = n1
    n2 = n2
    n3 = n3
    n4 = n4
    r1 = r1
    r2 = r2
    image = image
    recipe = recipe
    kit = kit
    NoTemplate = NoTemplate
    Nack = Nack
    Failure = Failure
    None = None
    Nodes = {n1, n2}
    Requests = {r1, r2}
    Entry <- AllAtFirst
    Slots = 1
    DedupMax = 1
    MidCallErrors = TRUE
    MayCordon = TRUE
    MayExpire = TRUE
    MaxRestarts = 1
    Kinds = {"place", "rank"}
    RankNodes = {n1, n2, n3, n4}
    RankRequests <- Wishes
INVARIANT OneUnlessExcused
INVARIANT CoordinatorsAgree
CHECK_DEADLOCK FALSE
