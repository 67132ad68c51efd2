CONSTANTS
    n1 = n1
    n2 = n2
    n3 = n3
    x1 = x1
    x2 = x2
    Nodes = {n1, n2, n3}
    Addrs = {x1, x2}
    r1 = r1
    r2 = r2
    Requests = {r1, r2}
    c1 = c1
    c2 = c2
    Kinds = {"route", "create", "review"}
    None = None
    MaxBoots = 1
    Shapes <- Asked
    RoleForKey <- Keyring
    Denied <- NoneDenied
    Home <- Homes
    Nil = Nil
    Hosts = {n1, n2}
    entry = n1
    Setups <- Creates
    MaxHostBoots = 2
    MaxChanges = 2
    Calls = {c1, c2}
    Reviews <- Talks
    Page = 2
    MaxHuman = 2
    MaxFailures = 1
SPECIFICATION MCSpec
INVARIANTS NamedNodeActs CallerIsAdmin AdvertisedIsServed CreatedAsAdmitted AnswersAreOwn
PROPERTIES RetriesArrive AdvertsConverge ThreadsStayWhole
CHECK_DEADLOCK FALSE
