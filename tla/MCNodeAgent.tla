----------------------------- MODULE MCNodeAgent -----------------------------
(* Instances of NodeAgent for TLC.                                         *)
EXTENDS NodeAgent, TLC

CONSTANTS h1, h2, s1, s2, p1, p2, none

=============================================================================
