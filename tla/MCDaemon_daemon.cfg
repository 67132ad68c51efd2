SPECIFICATION StreamFairSpec
CONSTANTS
    c1 = c1
    c2 = c2
    c3 = c3
    s1 = s1
    s2 = s2
    None = None
    Clients = {c1, c2, c3}
    Setups <- AllSetups
    MaxFaults = 1
    Streams = {s1, s2}
    ChanCap = 1
    MaxOutput = 2
INVARIANT RotationSucceeds
INVARIANT NoOrphanSecrets
INVARIANT UnpublishIsWhole
PROPERTY AgentIsSpared
PROPERTY StreamsEnd
CHECK_DEADLOCK FALSE
