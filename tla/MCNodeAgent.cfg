SPECIFICATION FairSpec
CONSTANTS
    h1 = h1
    h2 = h2
    s1 = s1
    s2 = s2
    p1 = p1
    p2 = p2
    none = none
    Handlers = {h1, h2}
    Sessions = {s1, s2}
    NoSession = none
    Players = {p1}
    MaxJoins = 2
    MaxIllnesses = 1
    MaxLapses = 1
    MaxRefused = 1
    MaxLost = 1
    MaxRestarts = 1
    MaxOverlaps = 1
    MaxFaults = 2
INVARIANTS
    ServesItsSession
PROPERTIES
    NeverBackFromActive
    CountSettles
    LearnsOfAllocation
    SilentAreMarked
CHECK_DEADLOCK FALSE
