SPECIFICATION Spec
CONSTANTS
    g1 = g1
    g2 = g2
    g3 = g3
    GameServers = {g1, g2}
    n1 = n1
    n2 = n2
    Nodes = {n1, n2}
    MinPort = 1
    MaxPort = 2
    PortsOf <- OneEach
    Unexposed <- OneUnexposed
    Exclusive = FALSE
    MaxRefused = 0
    MaxRelabels = 0
    MaxRestarts = 1
INVARIANT NoPortLeaks
