------------------------------ MODULE PortPool ------------------------------
(***************************************************************************)
(* What the PortRegistry promises to those who create GameServers          *)
(* (pkg/operator/controllers/port_registry.go): a pool of ports, each of   *)
(* which can be lent once for every Node.  A GameServer is lent all of its *)
(* ports at once, and keeps them until its object is deleted or will never *)
(* exist.  No mutex, no counters and no deregistration can be seen.        *)
(*                                                                         *)
(* The limit holds when ports are lent.  Nodes may leave later, and then a *)
(* port can be lent more often than there are Nodes until GameServers end. *)
(***************************************************************************)
EXTENDS Integers, FiniteSets

CONSTANTS
    GameServers,    \* names of GameServers
    Ports,          \* the port numbers between MIN_PORT and MAX_PORT
    Wanted          \* how many ports each GameServer wants

VARIABLES
    lent,           \* the ports that each GameServer has
    nodes           \* NodeCount

vars == <<lent, nodes>>

(* Where a port is lent: the GameServers that have it, and as their which. *)
Places(p) == {c \in UNION {{g} \X DOMAIN lent[g] : g \in GameServers} :
                lent[c[1]][c[2]] = p}

(* A GameServer gets all of its ports, none of which is then lent more     *)
(* often than there are Nodes.                                             *)
Lend(g) ==
    /\ lent[g] = <<>>
    /\ \E ports \in [1 .. Wanted[g] -> Ports] :
          /\ lent' = [lent EXCEPT ![g] = ports]
          /\ \A i \in 1 .. Wanted[g] : Cardinality(Places(ports[i])') <= nodes
    /\ nodes' = nodes

(* A GameServer that is deleted, or was not created, has no ports.         *)
Return(g) ==
    /\ lent[g] # <<>>
    /\ lent' = [lent EXCEPT ![g] = <<>>]
    /\ nodes' = nodes

(* The Node reconciler adds or removes one Node.                           *)
Resize ==
    /\ nodes' \in {nodes + 1, nodes - 1} \cap Nat
    /\ lent' = lent

(* A restart of the operator counts the Nodes anew; the creations that were*)
(* under way are lost.                                                     *)
Restart ==
    /\ nodes' \in Nat
    /\ \E lost \in SUBSET GameServers :
          lent' = [g \in GameServers |-> IF g \in lost THEN <<>> ELSE lent[g]]

Init ==
    /\ lent = [g \in GameServers |-> <<>>]
    /\ nodes \in Nat

Next ==
    \/ \E g \in GameServers : Lend(g) \/ Return(g)
    \/ Resize
    \/ Restart

Spec == Init /\ [][Next]_vars

=============================================================================
