SPECIFICATION MCSpec
CONSTANTS
    n1 = n1
    n2 = n2
    n3 = n3
    n4 = n4
    r1 = r1
    r2 = r2
    image = image
    recipe = recipe
    kit = kit
    NoTemplate = NoTemplate
    Nack = Nack
    Failure = Failure
    None = None
    Nodes = {n1, n2}
    Requests = {r1}
    Entry <- AllAtFirst
    Slots = 1
    DedupMax = 1
    MidCallErrors = TRUE
    MayCordon = FALSE
    MayExpire = FALSE
    MaxRestarts = 0
    Kinds = {"rank"}
    RankNodes = {n1, n2, n3}
    RankRequests <- PlainWishes
INVARIANT UnknownLimitIsLast
CHECK_DEADLOCK FALSE
