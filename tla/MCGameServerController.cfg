SPECIFICATION FairSpec
CONSTANTS
    n1 = n1
    n2 = n2
    none = none
    Nodes = {n1}
    NoNode = none
    MaxLateReports = 1
    MaxEvictions = 1
    MaxRefused = 1
    MaxLost = 1
    MaxRestarts = 1
INVARIANTS
    BookableHasAddress
    NothingIsMissed
PROPERTIES
    StaysProtected
    ActiveGetsProtected
    PodIsMade
    ExitIsRecorded
CHECK_DEADLOCK FALSE
