SPECIFICATION FairSwarm
CONSTANTS
    a = a
    b = b
    p = p
    A = A
    B = B
    ha = ha
    hb = hb
    hp = hp
    hp2 = hp2
    ha2 = ha2
    NoSwarm = NoSwarm
    Absent = Absent
    Nodes = {a, b, p}
    SwarmIds = {A, B}
    Handlers = {ha, ha2, hb, hp, hp2}
    HandlerOf <- Home
    Revocable = {p}
    Setups <- ThreeSetups
    MaxRestarts = 1
INVARIANT PeersAreSound
PROPERTY SwarmIdIsKept
PROPERTY RevocationsLast
