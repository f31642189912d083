---------------------------- MODULE MCAllocation ----------------------------
(* Instances of Allocation for TLC.                                        *)
EXTENDS Allocation, TLC

CONSTANTS g1, g2, b1, b2, s1, s2, h1, h2

(* One build, and all nodes of one age.                                    *)
OneBuild == [g \in GameServers |-> b1]
SameAge  == [g \in GameServers |-> 1]

(* Servers of one age, requests and sessions are interchangeable.          *)
Symmetry == Permutations(GameServers) \cup Permutations(Sessions)
                \cup Permutations(Handlers)

=============================================================================
