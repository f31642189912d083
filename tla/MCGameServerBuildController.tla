-------------------- MODULE MCGameServerBuildController --------------------
(* Instances of GameServerBuildController for TLC.                         *)
EXTENDS GameServerBuildController, TLC

CONSTANTS g1, g2, g3

Size(standingBy, max) == [standingBy |-> standingBy, max |-> max]

OneOfTwo     == {Size(1, 2)}
NoneOrOne    == {Size(0, 1), Size(1, 1)}

Unlimited == -1

Alike == Permutations(GameServers)

=============================================================================
