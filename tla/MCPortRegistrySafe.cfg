SPECIFICATION Spec
CONSTANTS
    g1 = g1
    g2 = g2
    g3 = g3
    GameServers = {g1, g2, g3}
    n1 = n1
    n2 = n2
    Nodes = {n1, n2}
    MinPort = 1
    MaxPort = 2
    PortsOf <- TwoAndOne
    Unexposed <- OneUnexposed
    Exclusive = TRUE
    MaxRefused = 1
    MaxRelabels = 1
    MaxRestarts = 1
SYMMETRY OnePortServers
INVARIANTS
    FreeCountAgrees
    SearchSucceeds
    UsageCoversServers
    UsageIsOwned
