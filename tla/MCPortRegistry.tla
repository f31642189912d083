--------------------------- MODULE MCPortRegistry ---------------------------
(* Instances of PortRegistry for TLC.                                      *)
EXTENDS PortRegistry, TLC

CONSTANTS g1, g2, g3, n1, n2

(* One GameServer with two ports, the others with one.                     *)
TwoAndOne == [g \in GameServers |-> IF g = g1 THEN 2 ELSE 1]
OneEach   == [g \in GameServers |-> 1]

(* Servers with one port are alike, and so are Nodes.                      *)
OnePortServers == Permutations(GameServers \ {g1}) \cup Permutations(Nodes)

OneUnexposed == [g \in GameServers |-> IF g = g1 THEN 1 ELSE 0]

=============================================================================
