SPECIFICATION FairSpec
CONSTANTS
    g1 = g1
    g2 = g2
    g3 = g3
    GameServers = {g1, g2}
    Specs <- NoneOrOne
    CrashesToMarkUnhealthy <- Unlimited
    MaxToAdd = 2
    MaxToDelete = 2
    MaxChanges = 2
    MaxVanished = 0
    MaxRefused = 0
    MaxLost = 1
    MaxRestarts = 0
    MaxFaults = 1
    MayDelete = FALSE
PROPERTIES Converges FinishedAreDeleted StatusSettles
CHECK_DEADLOCK FALSE
