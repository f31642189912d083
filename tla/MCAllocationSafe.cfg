SPECIFICATION Spec
CONSTANTS
    g1 = g1
    g2 = g2
    b1 = b1
    b2 = b2
    s1 = s1
    s2 = s2
    h1 = h1
    h2 = h2
    GameServers = {g1}
    Builds = {b1}
    UnknownBuild = b2
    Sessions = {s1, s2}
    MalformedSession = MalformedSession
    NoSession = NoSession
    NoGameServer = NoGameServer
    BuildOf <- OneBuild
    NodeAge <- SameAge
    Handlers = {h1, h2}
    AllocationTries = 2
    EventsCapacity = 1
    MaxVersions = 4
    MaxLateHeartbeats = 1
    MaxPatchFaults = 1
    MaxRestarts = 0
SYMMETRY Symmetry
INVARIANTS
    BookedOnce
PROPERTY ImplementsService
