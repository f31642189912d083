---------------------------- MODULE PortRegistry ----------------------------
(***************************************************************************)
(* The PortRegistry of the operator (pkg/operator/controllers/             *)
(* port_registry.go) and those who use it.                                 *)
(*                                                                         *)
(* The registry hands out host ports.  A port may be used once per Node,   *)
(* and Kubernetes finds the Nodes.  The GameServerBuild controller asks    *)
(* for the ports of a new GameServer and then creates the object; the      *)
(* GameServer controller gives them back when it finds the object deleted; *)
(* the Node reconciler adds or removes one set of ports per Node.  All run *)
(* in goroutines of their own, behind one mutex.  After a restart the      *)
(* operator counts the ports of the GameServers that the API server lists. *)
(*                                                                         *)
(* The names of GameServers are random (generateName): one is never used   *)
(* twice.                                                                  *)
(***************************************************************************)
EXTENDS Integers, Sequences, FiniteSets

CONSTANTS
    GameServers,        \* names of GameServers
    Nodes,              \* names of Nodes
    MinPort, MaxPort,   \* MIN_PORT and MAX_PORT
    PortsOf,            \* len(portsToExpose) of the build of each GameServer
    Unexposed,          \* container ports without a host port, per GameServer
    Exclusive,          \* PORT_REGISTRY_EXCLUSIVELY_GAME_SERVER_NODES
    MaxRefused,         \* bound: creations that fail after ports were taken
    MaxRelabels,        \* bound: changes of the label of a Node
    MaxRestarts         \* bound: restarts of the operator

ASSUME PortsAssumption ==
    /\ IsFiniteSet(GameServers)
    /\ IsFiniteSet(Nodes)
    /\ MinPort \in Nat \ {0}
    /\ MaxPort \in Nat
    /\ MinPort < MaxPort
    /\ PortsOf \in [GameServers -> Nat \ {0}]
    /\ Unexposed \in [GameServers -> Nat]
    /\ Exclusive \in BOOLEAN
    /\ MaxRefused \in Nat
    /\ MaxRelabels \in Nat
    /\ MaxRestarts \in Nat

VARIABLES
    usage,      \* HostPortsUsage
    assigned,   \* HostPortsPerGameServer
    nodeCount,  \* NodeCount
    freePorts,  \* FreePortsCount
    nextPort,   \* nextPortNumber
    op,         \* the operation that holds lockMutex
    listed,     \* ports that NewPortRegistry has still to register
    running,    \* whether the controllers run
    target,     \* schedulableNodesCount of the Node reconciler
    nodeEvent,  \* whether the Node reconciler has been asked to run
    pending,    \* requests of the GameServer controller for deleted objects
    phase,      \* what has become of each GameServer
    hostPorts,  \* the host ports in the spec of each GameServer
    node,       \* the Nodes of the cluster
    refused, relabels, restarts     \* faults so far

registry == <<usage, assigned, nodeCount, freePorts, nextPort, op>>
start    == <<listed, running>>
objects  == <<phase, hostPorts>>
nodeWork == <<target, nodeEvent, node>>
faults   == <<refused, relabels, restarts>>
vars     == <<registry, start, nodeWork, pending, objects, faults>>

Ports    == MinPort .. MaxPort
PortSet  == MaxPort - MinPort + 1

(* A container port without a host port is registered as port 0.           *)
AllPorts == Ports \cup {0}

(* reserved: the object is on its way to the API server.  refused: it will *)
(* never be there.                                                         *)
Phases   == {"unborn", "reserved", "live", "deleted", "refused"}

Statuses == {"absent", "notReady", "ready"}
Labels   == IF Exclusive THEN BOOLEAN ELSE {TRUE}

(* Nobody holds the mutex.                                                 *)
Free == [kind |-> "free"]

-----------------------------------------------------------------------------
(* GetNewPorts, called by NewGameServerForGameServerBuild                  *)

(* Variant of EnoughPorts: one free port is enough.                        *)
SomePorts(g) == freePorts > 0

EnoughPorts(g) == PortsOf[g] <= freePorts

(* Without enough ports the reconciliation fails, and changes nothing.     *)
BeginGet(g) ==
    /\ running
    /\ op = Free
    /\ phase[g] = "unborn"
    /\ EnoughPorts(g)
    /\ op' = [kind |-> "get", gs |-> g, ports |-> <<>>]
    /\ UNCHANGED <<usage, assigned, nodeCount, freePorts, nextPort, start,
                   nodeWork, pending, objects, faults>>

Successor(p) == IF p = MaxPort THEN MinPort ELSE p + 1

(* The number of iterations after which the search reaches p.              *)
Distance(p) == IF p >= nextPort THEN p - nextPort
                                ELSE p - nextPort + PortSet

Available(p) == usage[p] < nodeCount

(* Variant of TakePort: forgets the count of free ports.                   *)
TakePortUncounted ==
    /\ op.kind = "get"
    /\ Len(op.ports) < PortsOf[op.gs]
    /\ \E p \in Ports :
          /\ Available(p)
          /\ \A q \in Ports : Available(q) => Distance(p) <= Distance(q)
          /\ usage' = [usage EXCEPT ![p] = @ + 1]
          /\ nextPort' = Successor(p)
          /\ op' = [op EXCEPT !.ports = Append(@, p)]
    /\ UNCHANGED <<assigned, nodeCount, freePorts, start, nodeWork, pending,
                   objects, faults>>

(* One port: the first from nextPortNumber on that is used less often than *)
(* there are Nodes.  Without one, GetNewPorts gives up.                    *)
TakePort ==
    /\ op.kind = "get"
    /\ Len(op.ports) < PortsOf[op.gs]
    /\ IF \E p \in Ports : Available(p)
       THEN \E p \in Ports :
               /\ Available(p)
               /\ \A q \in Ports : Available(q) => Distance(p) <= Distance(q)
               /\ usage' = [usage EXCEPT ![p] = @ + 1]
               /\ freePorts' = freePorts - 1
               /\ nextPort' = Successor(p)
               /\ op' = [op EXCEPT !.ports = Append(@, p)]
       ELSE /\ op' = Free
            /\ UNCHANGED <<usage, freePorts, nextPort>>
    /\ UNCHANGED <<assigned, nodeCount, start, nodeWork, pending, objects,
                   faults>>

(* Variant of ReturnPorts: the registry does not remember the GameServer.  *)
ReturnUnrecorded ==
    /\ op.kind = "get"
    /\ Len(op.ports) = PortsOf[op.gs]
    /\ op' = Free
    /\ phase' = [phase EXCEPT ![op.gs] = "reserved"]
    /\ hostPorts' = [hostPorts EXCEPT ![op.gs] = op.ports]
    /\ UNCHANGED <<usage, assigned, nodeCount, freePorts, nextPort, start,
                   nodeWork, pending, faults>>

(* The registry remembers the ports, and they go into the spec.            *)
ReturnPorts ==
    /\ op.kind = "get"
    /\ Len(op.ports) = PortsOf[op.gs]
    /\ assigned' = [assigned EXCEPT ![op.gs] = op.ports]
    /\ op' = Free
    /\ phase' = [phase EXCEPT ![op.gs] = "reserved"]
    /\ hostPorts' = [hostPorts EXCEPT ![op.gs] = op.ports]
    /\ UNCHANGED <<usage, nodeCount, freePorts, nextPort, start, nodeWork,
                   pending, faults>>

-----------------------------------------------------------------------------
(* The GameServer objects in the API server                                *)

(* The GameServerBuild controller creates the object.                      *)
Create(g) ==
    /\ running
    /\ phase[g] = "reserved"
    /\ phase' = [phase EXCEPT ![g] = "live"]
    /\ UNCHANGED <<registry, start, nodeWork, pending, hostPorts, faults>>

(* Or it fails to: the API server refuses the object, or assigning the     *)
(* ports panics because a port to expose is found twice in the containers. *)
CreateFails(g) ==
    /\ running
    /\ phase[g] = "reserved"
    /\ refused < MaxRefused
    /\ refused' = refused + 1
    /\ phase' = [phase EXCEPT ![g] = "refused"]
    /\ UNCHANGED <<registry, start, nodeWork, pending, hostPorts, relabels,
                   restarts>>

(* Someone deletes the object, and the GameServer controller hears of it.  *)
Delete(g) ==
    /\ phase[g] = "live"
    /\ phase' = [phase EXCEPT ![g] = "deleted"]
    /\ pending' = pending \cup {g}
    /\ UNCHANGED <<registry, start, nodeWork, hostPorts, faults>>

(* Its Pod follows, in any number of updates: the controller hears again.  *)
PodChanges(g) ==
    /\ running
    /\ phase[g] = "deleted"
    /\ pending' = pending \cup {g}
    /\ UNCHANGED <<registry, start, nodeWork, objects, faults>>

-----------------------------------------------------------------------------
(* DeregisterPorts, called by GameServerReconciler for a deleted object    *)

BeginDeregister(g) ==
    /\ running
    /\ op = Free
    /\ g \in pending
    /\ pending' = pending \ {g}
    /\ op' = IF assigned[g] # <<>>
             THEN [kind |-> "deregister", gs |-> g, ports |-> assigned[g]]
             ELSE Free
    /\ UNCHANGED <<usage, assigned, nodeCount, freePorts, nextPort, start,
                   nodeWork, objects, faults>>

(* Variant of DeregisterPort: the first port only.                         *)
DeregisterFirstPort ==
    /\ op.kind = "deregister"
    /\ op.ports # <<>>
    /\ op' = [op EXCEPT !.ports = <<>>]
    /\ LET p == Head(op.ports) IN
       IF usage[p] > 0
       THEN /\ usage' = [usage EXCEPT ![p] = @ - 1]
            /\ freePorts' = freePorts + 1
       ELSE UNCHANGED <<usage, freePorts>>
    /\ UNCHANGED <<assigned, nodeCount, nextPort, start, nodeWork, pending,
                   objects, faults>>

DeregisterPort ==
    /\ op.kind = "deregister"
    /\ op.ports # <<>>
    /\ op' = [op EXCEPT !.ports = Tail(@)]
    /\ LET p == Head(op.ports) IN
       IF usage[p] > 0
       THEN /\ usage' = [usage EXCEPT ![p] = @ - 1]
            /\ freePorts' = freePorts + 1
       ELSE UNCHANGED <<usage, freePorts>>
    /\ UNCHANGED <<assigned, nodeCount, nextPort, start, nodeWork, pending,
                   objects, faults>>

(* Variant of EndDeregister: the registry remembers the ports for good.    *)
EndDeregisterUnrecorded ==
    /\ op.kind = "deregister"
    /\ op.ports = <<>>
    /\ op' = Free
    /\ UNCHANGED <<usage, assigned, nodeCount, freePorts, nextPort, start,
                   nodeWork, pending, objects, faults>>

EndDeregister ==
    /\ op.kind = "deregister"
    /\ op.ports = <<>>
    /\ assigned' = [assigned EXCEPT ![op.gs] = <<>>]
    /\ op' = Free
    /\ UNCHANGED <<usage, nodeCount, freePorts, nextPort, start, nodeWork,
                   pending, objects, faults>>

-----------------------------------------------------------------------------
(* The Nodes and their reconciler                                          *)

(* IsNodeReadyAndSchedulable, for the Nodes that the registry looks at.    *)
Schedulable(n) == node[n].status = "ready" /\ (Exclusive => node[n].labelled)

SchedulableCount == Cardinality({n \in Nodes : Schedulable(n)})

(* Variant of Noticed: a Node that stops being ready is not noticed.       *)
NoticedWhenReady(old, new, labelled) ==
    (Exclusive => labelled) /\ new = "ready"

(* The event filter.  Only the new labels count; a Node that joins is of   *)
(* interest if it is ready, a Node that leaves always is, any other change *)
(* if the readiness changed.                                               *)
Noticed(old, new, labelled) ==
    /\ Exclusive => labelled
    /\ old = "absent" => new = "ready"

(* A Node joins, leaves, becomes ready or stops being so.                  *)
NodeChanges(n) ==
    /\ \E s \in Statuses \ {node[n].status}, l \in Labels :
          /\ node[n].status # "absent" => l = node[n].labelled
          /\ node' = [node EXCEPT ![n] = [status |-> s, labelled |-> l]]
          /\ nodeEvent' = \/ nodeEvent
                          \/ running /\ Noticed(node[n].status, s, l)
    /\ UNCHANGED <<registry, start, target, pending, objects, faults>>

(* Its label alone changes, which the filter never lets through.           *)
Relabel(n) ==
    /\ relabels < MaxRelabels
    /\ relabels' = relabels + 1
    /\ node[n].status # "absent"
    /\ node' = [node EXCEPT ![n].labelled = ~@]
    /\ UNCHANGED <<registry, start, target, nodeEvent, pending, objects,
                   refused, restarts>>

(* Reconcile counts the schedulable Nodes ...                              *)
ReadNodes ==
    /\ running
    /\ nodeEvent
    /\ target = nodeCount
    /\ target' = SchedulableCount
    /\ nodeEvent' = FALSE
    /\ UNCHANGED <<registry, start, node, pending, objects, faults>>

(* ... and calls onNodeAdded or onNodeRemoved for each one of difference.  *)
OnNodeAdded ==
    /\ running
    /\ op = Free
    /\ nodeCount < target
    /\ nodeCount' = nodeCount + 1
    /\ freePorts' = freePorts + PortSet
    /\ UNCHANGED <<usage, assigned, nextPort, op, start, nodeWork, pending,
                   objects, faults>>

OnNodeRemoved ==
    /\ running
    /\ op = Free
    /\ nodeCount > target
    /\ nodeCount' = nodeCount - 1
    /\ freePorts' = freePorts - PortSet
    /\ UNCHANGED <<usage, assigned, nextPort, op, start, nodeWork, pending,
                   objects, faults>>

-----------------------------------------------------------------------------
(* The start of the operator                                               *)

(* The Nodes that initializePortRegistry counts.                           *)
InitialNodeCount == IF Exclusive THEN SchedulableCount ELSE 0

(* Variant of Claims: the first host port only.                            *)
ClaimsOfFirst(g) == {<<g, 1>>}

(* The ports of g that NewPortRegistry registers: its host ports, and a    *)
(* zero for every container port without one.                              *)
Claims(g) == {g} \X (1 .. Len(hostPorts[g]) + Unexposed[g])

ClaimedPort(c) ==
    IF c[2] <= Len(hostPorts[c[1]]) THEN hostPorts[c[1]][c[2]] ELSE 0

(* The operator stops anywhere and starts again: the registry is empty and *)
(* the GameServers and the Nodes are listed from the API server.           *)
Restart ==
    /\ restarts < MaxRestarts
    /\ restarts' = restarts + 1
    /\ usage' = [p \in AllPorts |-> 0]
    /\ assigned' = [g \in GameServers |-> <<>>]
    /\ nodeCount' = InitialNodeCount
    /\ freePorts' = InitialNodeCount * PortSet
    /\ nextPort' = MinPort
    /\ op' = Free
    /\ listed' = UNION {Claims(g) : g \in {h \in GameServers : phase[h] = "live"}}
    /\ running' = FALSE
    /\ target' = InitialNodeCount
    /\ nodeEvent' = FALSE
    /\ pending' = {}
    /\ phase' = [g \in GameServers |->
                    IF phase[g] = "reserved" THEN "refused" ELSE phase[g]]
    /\ UNCHANGED <<hostPorts, node, refused, relabels>>

(* assignRegisteredPorts, for one port.                                    *)
Register(c) ==
    /\ c \in listed
    /\ listed' = listed \ {c}
    /\ usage' = [usage EXCEPT ![ClaimedPort(c)] = @ + 1]
    /\ freePorts' = freePorts - 1
    /\ UNCHANGED <<assigned, nodeCount, nextPort, op, running, nodeWork,
                   pending, objects, faults>>

(* The manager starts the controllers; the cache reports the Nodes it has, *)
(* each as a creation.                                                     *)
StartManager ==
    /\ ~running
    /\ listed = {}
    /\ running' = TRUE
    /\ nodeEvent' = \E n \in Nodes : Schedulable(n)
    /\ UNCHANGED <<registry, listed, target, node, pending, objects, faults>>

-----------------------------------------------------------------------------
Init ==
    /\ node \in [Nodes -> [status : Statuses, labelled : Labels]]
    /\ usage = [p \in AllPorts |-> 0]
    /\ assigned = [g \in GameServers |-> <<>>]
    /\ nodeCount = InitialNodeCount
    /\ freePorts = InitialNodeCount * PortSet
    /\ nextPort = MinPort
    /\ op = Free
    /\ listed = {}
    /\ running = FALSE
    /\ target = InitialNodeCount
    /\ nodeEvent = FALSE
    /\ pending = {}
    /\ phase = [g \in GameServers |-> "unborn"]
    /\ hostPorts = [g \in GameServers |-> <<>>]
    /\ refused = 0
    /\ relabels = 0
    /\ restarts = 0

Holding == TakePort \/ ReturnPorts \/ DeregisterPort \/ EndDeregister

Next ==
    \/ \E g \in GameServers :
          \/ BeginGet(g) \/ Create(g) \/ CreateFails(g)
          \/ Delete(g) \/ PodChanges(g) \/ BeginDeregister(g)
    \/ Holding
    \/ \E n \in Nodes : NodeChanges(n) \/ Relabel(n)
    \/ ReadNodes
    \/ OnNodeAdded
    \/ OnNodeRemoved
    \/ Restart
    \/ \E c \in listed : Register(c)
    \/ StartManager

Spec == Init /\ [][Next]_vars

(* The operator runs: its start, the holder of the mutex, and the workers  *)
(* of its controllers, which Go's mutex lets in sooner or later however    *)
(* many others want it (starvation mode).  Nothing is assumed of the       *)
(* creation and deletion of objects, of the Nodes, or of faults.           *)
Fairness ==
    /\ WF_vars(\E c \in listed : Register(c))
    /\ WF_vars(StartManager)
    /\ WF_vars(Holding)
    /\ \A g \in GameServers : SF_vars(BeginDeregister(g))
    /\ WF_vars(ReadNodes)
    /\ SF_vars(OnNodeAdded)
    /\ SF_vars(OnNodeRemoved)

FairSpec == Spec /\ Fairness

-----------------------------------------------------------------------------
(* Properties                                                              *)

(* Every variable has its type.                                            *)
TypeOK ==
    /\ usage \in [AllPorts -> Nat]
    /\ assigned \in [GameServers -> Seq(Ports)]
    /\ nodeCount \in Nat
    /\ freePorts \in Int
    /\ nextPort \in Ports
    /\ op \in {Free} \cup [kind : {"get", "deregister"}, gs : GameServers,
                           ports : Seq(Ports)]
    /\ listed \subseteq GameServers \X (Nat \ {0})
    /\ running \in BOOLEAN
    /\ target \in Nat
    /\ nodeEvent \in BOOLEAN
    /\ pending \subseteq GameServers
    /\ phase \in [GameServers -> Phases]
    /\ hostPorts \in [GameServers -> Seq(Ports)]
    /\ node \in [Nodes -> [status : Statuses, labelled : BOOLEAN]]
    /\ refused \in Nat
    /\ relabels \in Nat
    /\ restarts \in Nat

(* The uses of the ports that HostPortsUsage counts, one by one.           *)
Uses == UNION {{p} \X (1 .. usage[p]) : p \in AllPorts}

(* FreePortsCount and HostPortsUsage, which the code keeps apart, agree in *)
(* every state: one set of ports per Node, less what is in use             *)
(* (port_registry.go, 31-32).                                              *)
FreeCountAgrees == freePorts + Cardinality(Uses) = nodeCount * PortSet

(* A request that passes the check on FreePortsCount finds all its ports:  *)
(* errorNoAvailablePorts, which would lose the ports found so far, is      *)
(* never returned (port_registry.go, 169-205).                             *)
SearchSucceeds ==
    (op.kind = "get" /\ Len(op.ports) < PortsOf[op.gs]) =>
        \E p \in Ports : Available(p)

(* The places in which GameServers of some phases have a port.             *)
PlacesOf(p, servers) ==
    {c \in UNION {Claims(g) : g \in servers} : ClaimedPort(c) = p}

(* A port in the spec of a GameServer that exists is counted as used: the  *)
(* registry never lets more GameServers share a port than there are Nodes  *)
(* to place them on (port_registry.go, 163-164), also after a restart, a   *)
(* failed creation or a repeated notice of a deletion.                     *)
Holders == {g \in GameServers : phase[g] \in {"reserved", "live"}}

UsageCoversServers ==
    running => \A p \in Ports :
        Cardinality(PlacesOf(p, Holders)) <= usage[p]

(* As long as the operator has not restarted, whatever is counted as used  *)
(* belongs to a GameServer that exists, that has still to be deregistered, *)
(* or whose creation failed: "the port is returned back to the pool"       *)
(* (docs/architecture.md, 59).  A restart breaks it: see NoPortLeaks.      *)
UsageIsOwned ==
    (running /\ op = Free /\ restarts = 0) => \A p \in Ports :
        usage[p] <= Cardinality(PlacesOf(p, Holders \cup
            {g \in GameServers : \/ phase[g] = "deleted" /\ assigned[g] # <<>>
                                 \/ phase[g] = "refused"}))

(* A port that is counted as used belongs to a GameServer that exists, is  *)
(* being created or has still to be deregistered; every port returns to    *)
(* the pool when its session ends (docs/architecture.md, 59).              *)
NoPortLeaks ==
    (running /\ op = Free /\ refused = 0) => \A p \in Ports :
        usage[p] <= Cardinality(PlacesOf(p, Holders \cup
            {g \in GameServers : phase[g] = "deleted" /\ assigned[g] # <<>>}))

(* Until the ports of a deleted GameServer are returned, the controller has*)
(* been asked to do so or is about it: with notices that come several times*)
(* or in the middle of other operations, none is lost and nothing else     *)
(* would return them (gameserver_controller.go, 102-112).                  *)
ReturnIsDue ==
    \A g \in GameServers : phase[g] = "deleted" /\ assigned[g] # <<>> =>
        g \in pending \/ (op.kind = "deregister" /\ op.gs = g)

(* A registry that looks at all Nodes is on its way to their number, unless*)
(* its reconciler has been asked to count them anew: the filter hides only *)
(* changes that make no difference, also while Nodes are added one by one  *)
(* and after a start (port_registry.go, 248-279).                          *)
RecountIsDue ==
    (running /\ ~Exclusive /\ target # SchedulableCount) => nodeEvent

(* The GameServers other than g whose ports may be counted as used.  Before*)
(* the first restart a deleted one has none left when the registry has     *)
(* forgotten it; later it may have outlived a restart.                     *)
OtherOwners(g) ==
    {h \in GameServers \ {g} :
        phase[h] # "deleted" \/ assigned[h] # <<>> \/ restarts > 0}

(* The ports of a deleted GameServer return to the pool: what is counted as*)
(* used belongs to others (docs/architecture.md, 59; port_registry.go,     *)
(* 212-230).  It is about every GameServer that the registry knows when its*)
(* object is deleted, and, until the operator restarts, about all of them; *)
(* the others have outlived a restart, and theirs are lost (NoPortLeaks).  *)
PortsReturned ==
    \A g \in GameServers :
        (phase[g] = "deleted" /\ (assigned[g] # <<>> \/ restarts = 0)) ~>
            /\ running
            /\ op = Free
            /\ \A p \in Ports :
                  usage[p] <= Cardinality(PlacesOf(p, OtherOwners(g)))

(* When the number of schedulable Nodes stays the same, NodeCount becomes  *)
(* that number (port_registry.go, 29 and 47-48).  It is about a registry   *)
(* that looks at all Nodes: with a dedicated node pool the event filter    *)
(* hides changes of the label, and a Node that is counted by               *)
(* initializePortRegistry and lost before the watch starts.                *)
NodesCounted ==
    \A k \in 0 .. Cardinality(Nodes) :
        SchedulableCount = k ~> (nodeCount = k \/ SchedulableCount # k)

(* What the GameServers that exist or are being created see of the         *)
(* registry.                                                               *)
Lent == [g \in GameServers |-> IF g \in Holders THEN hostPorts[g] ELSE <<>>]

Pool == INSTANCE PortPool WITH Wanted <- PortsOf, lent <- Lent,
                               nodes <- nodeCount

(* The registry implements a pool in which every port can be lent once per *)
(* Node: a GameServer gets as many ports as it asked for, in one step, and *)
(* none that already is in use on as many Nodes as there are, although the *)
(* search takes them one by one, the limit moves with the Nodes, ports come*)
(* back late, and a restart forgets (port_registry.go, 163-209).           *)
ImplementsPool == Pool!Spec

=============================================================================
