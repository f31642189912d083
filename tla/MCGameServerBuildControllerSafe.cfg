SPECIFICATION Spec
CONSTANTS
    g1 = g1
    g2 = g2
    g3 = g3
    GameServers = {g1, g2, g3}
    Specs <- OneOfTwo
    CrashesToMarkUnhealthy = 1
    MaxToAdd = 2
    MaxToDelete = 2
    MaxChanges = 2
    MaxVanished = 1
    MaxRefused = 1
    MaxLost = 1
    MaxRestarts = 1
    MaxFaults = 2
    MayDelete = TRUE
SYMMETRY Alike
INVARIANTS
    MaxRespected
    CrashesCountedOnce
PROPERTIES
    UnhealthyIsFinal
CHECK_DEADLOCK FALSE
