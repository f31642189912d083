------------------------ MODULE MCGameServerController -----------------------
(* Instances of GameServerController for TLC.                              *)
EXTENDS GameServerController, TLC

CONSTANTS n1, n2, none

=============================================================================
