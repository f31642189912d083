------------------------- MODULE PortRegistryProofs -------------------------
(* Theorems about PortRegistry, for every value of its constants.          *)
EXTENDS PortRegistry, FiniteSetTheorems, TLAPS

-----------------------------------------------------------------------------
(* Type correctness                                                        *)

LEMMA CountIsNat ==
    ASSUME PortsAssumption
    PROVE  /\ SchedulableCount \in Nat
           /\ InitialNodeCount \in Nat
           /\ PortSet \in Nat \ {0}
<1>1. IsFiniteSet({n \in Nodes : Schedulable(n)})
  BY FS_Subset DEF PortsAssumption
<1>2. SchedulableCount \in Nat
  BY <1>1, FS_CardinalityType DEF SchedulableCount
<1>3. InitialNodeCount \in Nat
  BY <1>2 DEF InitialNodeCount
<1>4. PortSet \in Nat \ {0}
  BY DEF PortSet, PortsAssumption
<1> QED
  BY <1>2, <1>3, <1>4

(* What the mutex protects: the counters, and the operation in progress.   *)
CountersOK ==
    /\ usage \in [AllPorts -> Nat]
    /\ nodeCount \in Nat
    /\ freePorts \in Int
    /\ nextPort \in Ports

Operation == [kind : {"get", "deregister"}, gs : GameServers,
              ports : Seq(Ports)]

OpOK ==
    /\ op \in {Free} \cup Operation
    /\ assigned \in [GameServers -> Seq(Ports)]
    /\ hostPorts \in [GameServers -> Seq(Ports)]

(* And what surrounds it.                                                  *)
StartOK ==
    /\ listed \subseteq GameServers \X (Nat \ {0})
    /\ running \in BOOLEAN

NodesOK ==
    /\ target \in Nat
    /\ nodeEvent \in BOOLEAN
    /\ node \in [Nodes -> [status : Statuses, labelled : BOOLEAN]]

ObjectsOK ==
    /\ pending \subseteq GameServers
    /\ phase \in [GameServers -> Phases]

FaultsOK ==
    /\ refused \in Nat
    /\ relabels \in Nat
    /\ restarts \in Nat

LEMMA TypeParts ==
    TypeOK <=> /\ CountersOK /\ OpOK /\ StartOK
               /\ NodesOK /\ ObjectsOK /\ FaultsOK
  BY DEF TypeOK, CountersOK, OpOK, Operation, StartOK, NodesOK, ObjectsOK,
         FaultsOK

LEMMA OpIsOperation ==
    ASSUME OpOK, op.kind \in {"get", "deregister"}
    PROVE  op \in Operation
  BY DEF OpOK, Free

LEMMA WithPorts ==
    ASSUME NEW o \in Operation, NEW s \in Seq(Ports)
    PROVE  [o EXCEPT !.ports = s] \in Operation
  BY DEF Operation

LEMMA ClaimIsPort ==
    ASSUME OpOK, StartOK, NEW c \in listed
    PROVE  ClaimedPort(c) \in AllPorts
  BY DEF OpOK, StartOK, ClaimedPort, AllPorts

LEMMA CountersStep ==
    ASSUME PortsAssumption, CountersOK, OpOK, StartOK, NodesOK, [Next]_vars
    PROVE  CountersOK'
<1>1. CASE TakePort
  <2>1. ASSUME NEW p \in Ports, usage' = [usage EXCEPT ![p] = @ + 1],
               freePorts' = freePorts - 1, nextPort' = Successor(p)
        PROVE  CountersOK'
    <3>1. nextPort' \in Ports
      BY <2>1 DEF Successor, Ports, PortsAssumption
    <3>2. p \in AllPorts
      BY DEF AllPorts
    <3> QED
      BY <1>1, <2>1, <3>1, <3>2 DEF CountersOK, TakePort
  <2>2. CASE UNCHANGED <<usage, freePorts, nextPort>>
    BY <1>1, <2>2 DEF CountersOK, TakePort
  <2> QED
    BY <1>1, <2>1, <2>2 DEF TakePort
<1>2. CASE DeregisterPort
  <2>1. op \in Operation /\ op.ports # <<>>
    BY <1>2, OpIsOperation DEF DeregisterPort
  <2>2. Head(op.ports) \in AllPorts
    BY <2>1 DEF Operation, AllPorts
  <2>3. /\ UNCHANGED <<nodeCount, nextPort>>
        /\ \/ /\ usage[Head(op.ports)] > 0
              /\ usage' = [usage EXCEPT ![Head(op.ports)] = @ - 1]
              /\ freePorts' = freePorts + 1
           \/ UNCHANGED <<usage, freePorts>>
    BY <1>2 DEF DeregisterPort
  <2> QED
    BY <2>2, <2>3 DEF CountersOK
<1>3. CASE OnNodeAdded
  BY <1>3, CountIsNat DEF CountersOK, OnNodeAdded
<1>4. CASE OnNodeRemoved
  BY <1>4, CountIsNat DEF CountersOK, NodesOK, OnNodeRemoved
<1>5. CASE Restart
  <2>1. InitialNodeCount \in Nat /\ InitialNodeCount * PortSet \in Int
    BY CountIsNat
  <2>2. MinPort \in Ports
    BY DEF Ports, PortsAssumption
  <2> QED
    BY <1>5, <2>1, <2>2 DEF CountersOK, Restart
<1>6. ASSUME NEW c \in listed, Register(c)
      PROVE  CountersOK'
  <2>1. ClaimedPort(c) \in AllPorts
    BY ClaimIsPort
  <2> QED
    BY <1>6, <2>1 DEF CountersOK, Register
<1>7. CASE UNCHANGED <<usage, nodeCount, freePorts, nextPort>>
  BY <1>7 DEF CountersOK
<1> QED
  BY <1>1, <1>2, <1>3, <1>4, <1>5, <1>6, <1>7
     DEF Next, Holding, vars, registry, BeginGet, ReturnPorts, Create,
         CreateFails, Delete, PodChanges, BeginDeregister, EndDeregister,
         NodeChanges, Relabel, ReadNodes, StartManager

LEMMA OpStep ==
    ASSUME PortsAssumption, OpOK, [Next]_vars
    PROVE  OpOK'
<1>1. ASSUME NEW g \in GameServers, BeginGet(g)
      PROVE  OpOK'
  <2>1. op' \in Operation
    BY <1>1 DEF BeginGet, Operation
  <2> QED
    BY <1>1, <2>1 DEF BeginGet, objects, OpOK
<1>2. CASE TakePort
  <2>1. op \in Operation
    BY <1>2, OpIsOperation DEF TakePort
  <2>2. ASSUME NEW p \in Ports, op' = [op EXCEPT !.ports = Append(@, p)]
        PROVE  op' \in Operation
    <3>1. Append(op.ports, p) \in Seq(Ports)
      BY <2>1 DEF Operation
    <3> QED
      BY <2>1, <2>2, <3>1, WithPorts
  <2>3. op' \in {Free} \cup Operation
    BY <1>2, <2>2 DEF TakePort
  <2> QED
    BY <1>2, <2>3 DEF TakePort, objects, OpOK
<1>3. CASE ReturnPorts
  <2>1. op \in Operation
    BY <1>3, OpIsOperation DEF ReturnPorts
  <2> QED
    BY <1>3, <2>1 DEF ReturnPorts, OpOK, Operation
<1>4. ASSUME NEW g \in GameServers, BeginDeregister(g)
      PROVE  OpOK'
  <2>1. op' \in {Free} \cup Operation
    BY <1>4 DEF BeginDeregister, Operation, OpOK
  <2> QED
    BY <1>4, <2>1 DEF BeginDeregister, objects, OpOK
<1>5. CASE DeregisterPort
  <2>1. op \in Operation
    BY <1>5, OpIsOperation DEF DeregisterPort
  <2>2. op.ports # <<>> /\ op' = [op EXCEPT !.ports = Tail(op.ports)]
    BY <1>5 DEF DeregisterPort
  <2>3. Tail(op.ports) \in Seq(Ports)
    BY <2>1, <2>2 DEF Operation
  <2>4. op' \in Operation
    BY <2>1, <2>2, <2>3, WithPorts
  <2> QED
    BY <1>5, <2>4 DEF DeregisterPort, objects, OpOK
<1>6. CASE EndDeregister
  <2>1. op \in Operation
    BY <1>6, OpIsOperation DEF EndDeregister
  <2> QED
    BY <1>6, <2>1 DEF EndDeregister, objects, OpOK, Operation
<1>7. CASE Restart
  BY <1>7 DEF Restart, OpOK
<1>8. CASE UNCHANGED <<op, assigned, hostPorts>>
  BY <1>8 DEF OpOK
<1> QED
  BY <1>1, <1>2, <1>3, <1>4, <1>5, <1>6, <1>7, <1>8
     DEF Next, Holding, vars, registry, objects, Create, CreateFails, Delete,
         PodChanges, NodeChanges, Relabel, ReadNodes, OnNodeAdded,
         OnNodeRemoved, Register, StartManager

LEMMA StartStep ==
    ASSUME PortsAssumption, StartOK, OpOK, [Next]_vars
    PROVE  StartOK'
<1>1. CASE Restart
  <2>1. \A g \in GameServers : Len(hostPorts[g]) + Unexposed[g] \in Nat
    BY DEF OpOK, PortsAssumption
  <2>2. ASSUME NEW c \in listed'
        PROVE  c \in GameServers \X (Nat \ {0})
    <3>1. PICK g \in GameServers : c \in Claims(g)
      BY <1>1 DEF Restart
    <3> QED
      BY <2>1, <3>1 DEF Claims
  <2> QED
    BY <1>1, <2>2 DEF Restart, StartOK
<1>2. ASSUME NEW c \in listed, Register(c)
      PROVE  StartOK'
  BY <1>2 DEF Register, StartOK
<1>3. CASE StartManager
  BY <1>3 DEF StartManager, StartOK
<1>4. CASE UNCHANGED start
  BY <1>4 DEF start, StartOK
<1> QED
  BY <1>1, <1>2, <1>3, <1>4
     DEF Next, Holding, vars, BeginGet, TakePort, ReturnPorts, Create,
         CreateFails, Delete, PodChanges, BeginDeregister, DeregisterPort,
         EndDeregister, NodeChanges, Relabel, ReadNodes, OnNodeAdded,
         OnNodeRemoved

LEMMA NodesStep ==
    ASSUME PortsAssumption, NodesOK, StartOK, [Next]_vars
    PROVE  NodesOK'
<1>1. ASSUME NEW n \in Nodes, NodeChanges(n)
      PROVE  NodesOK'
  <2>1. PICK s \in Statuses, l \in Labels :
               /\ node' = [node EXCEPT ![n] = [status |-> s, labelled |-> l]]
               /\ nodeEvent' = \/ nodeEvent
                               \/ running /\ Noticed(node[n].status, s, l)
    BY <1>1 DEF NodeChanges
  <2>2. l \in BOOLEAN
    BY DEF Labels
  <2>3. node' \in [Nodes -> [status : Statuses, labelled : BOOLEAN]]
    BY <2>1, <2>2 DEF NodesOK
  <2>4. nodeEvent' \in BOOLEAN
    BY <2>1
  <2> QED
    BY <1>1, <2>3, <2>4 DEF NodeChanges, NodesOK
<1>2. ASSUME NEW n \in Nodes, Relabel(n)
      PROVE  NodesOK'
  BY <1>2 DEF Relabel, NodesOK
<1>3. CASE ReadNodes
  BY <1>3, CountIsNat DEF ReadNodes, NodesOK
<1>4. CASE Restart
  BY <1>4, CountIsNat DEF Restart, NodesOK
<1>5. CASE StartManager
  BY <1>5 DEF StartManager, NodesOK
<1>6. CASE UNCHANGED nodeWork
  BY <1>6 DEF nodeWork, NodesOK
<1> QED
  BY <1>1, <1>2, <1>3, <1>4, <1>5, <1>6
     DEF Next, Holding, vars, BeginGet, TakePort, ReturnPorts, Create,
         CreateFails, Delete, PodChanges, BeginDeregister, DeregisterPort,
         EndDeregister, OnNodeAdded, OnNodeRemoved, Register

LEMMA ObjectsStep ==
    ASSUME ObjectsOK, [Next]_vars
    PROVE  ObjectsOK'
<1>1. CASE ReturnPorts
  BY <1>1 DEF ReturnPorts, ObjectsOK, Phases
<1>2. CASE Restart
  BY <1>2 DEF Restart, ObjectsOK, Phases
<1>3. CASE UNCHANGED <<pending, phase>>
  BY <1>3 DEF ObjectsOK
<1> QED
  BY <1>1, <1>2, <1>3
     DEF Next, Holding, vars, objects, ObjectsOK, Phases, BeginGet, TakePort,
         Create, CreateFails, Delete, PodChanges, BeginDeregister,
         DeregisterPort, EndDeregister, NodeChanges, Relabel, ReadNodes,
         OnNodeAdded, OnNodeRemoved, Register, StartManager

LEMMA FaultsStep ==
    ASSUME FaultsOK, [Next]_vars
    PROVE  FaultsOK'
<1>1. CASE Restart
  BY <1>1 DEF Restart, FaultsOK
<1>2. ASSUME NEW g \in GameServers, CreateFails(g)
      PROVE  FaultsOK'
  BY <1>2 DEF CreateFails, FaultsOK
<1>3. ASSUME NEW n \in Nodes, Relabel(n)
      PROVE  FaultsOK'
  BY <1>3 DEF Relabel, FaultsOK
<1>4. CASE UNCHANGED faults
  BY <1>4 DEF faults, FaultsOK
<1> QED
  BY <1>1, <1>2, <1>3, <1>4
     DEF Next, Holding, vars, BeginGet, TakePort, ReturnPorts, Create,
         Delete, PodChanges, BeginDeregister, DeregisterPort, EndDeregister,
         NodeChanges, ReadNodes, OnNodeAdded, OnNodeRemoved, Register,
         StartManager

LEMMA TypeInit == PortsAssumption /\ Init => TypeOK
<1> SUFFICES ASSUME PortsAssumption, Init
             PROVE  TypeOK
  OBVIOUS
<1>1. CountersOK
  <2>1. InitialNodeCount \in Nat /\ InitialNodeCount * PortSet \in Int
    BY CountIsNat
  <2> QED
    BY <2>1 DEF Init, CountersOK, Ports, PortsAssumption
<1>2. OpOK
  BY DEF Init, OpOK
<1>3. StartOK /\ FaultsOK
  BY DEF Init, StartOK, FaultsOK
<1>4. NodesOK
  <2>1. Labels \subseteq BOOLEAN
    BY DEF Labels
  <2>2. node \in [Nodes -> [status : Statuses, labelled : BOOLEAN]]
    BY <2>1 DEF Init
  <2> QED
    BY <2>2, CountIsNat DEF Init, NodesOK
<1>5. ObjectsOK
  BY DEF Init, ObjectsOK, Phases
<1> QED
  BY <1>1, <1>2, <1>3, <1>4, <1>5, TypeParts

LEMMA TypeStep ==
    ASSUME PortsAssumption, TypeOK, [Next]_vars
    PROVE  TypeOK'
  BY TypeParts, CountersStep, OpStep, StartStep, NodesStep, ObjectsStep,
     FaultsStep
     DEF TypeOK, CountersOK, OpOK, Operation, StartOK, NodesOK, ObjectsOK,
         FaultsOK

(* The registry and all around it keep their types.                        *)
THEOREM TypeCorrect == Spec => []TypeOK
<1>1. Init => TypeOK
  BY PortsAssumption, TypeInit
<1>2. TypeOK /\ [Next]_vars => TypeOK'
  BY PortsAssumption, TypeStep
<1> QED
  BY <1>1, <1>2, PTL DEF Spec

-----------------------------------------------------------------------------
(* The count of free ports                                                 *)

(* Counting one use more, or one less, of a port.                          *)
LEMMA UseMore ==
    ASSUME CountersOK, NEW p \in AllPorts,
           usage' = [usage EXCEPT ![p] = @ + 1],
           IsFiniteSet(Uses)
    PROVE  /\ IsFiniteSet(Uses')
           /\ Cardinality(Uses') = Cardinality(Uses) + 1
<1> DEFINE u == <<p, usage[p] + 1>>
<1>1. usage[p] \in Nat /\ usage'[p] = usage[p] + 1
  BY DEF CountersOK
<1>2. \A q \in AllPorts \ {p} : usage'[q] = usage[q]
  BY DEF CountersOK
<1>3. 1 .. usage[p] + 1 = (1 .. usage[p]) \cup {usage[p] + 1}
  BY <1>1
<1>4. u \notin Uses
  BY <1>1 DEF Uses
<1>5. Uses' = Uses \cup {u}
  <2>1. ASSUME NEW q, NEW i
        PROVE  <<q, i>> \in Uses' <=> <<q, i>> \in Uses \cup {u}
    <3>1. <<q, i>> \in Uses <=> q \in AllPorts /\ i \in 1 .. usage[q]
      BY DEF Uses
    <3>2. <<q, i>> \in Uses' <=> q \in AllPorts /\ i \in 1 .. usage'[q]
      BY DEF Uses
    <3> QED
      BY <1>1, <1>2, <1>3, <3>1, <3>2
  <2>2. \A x \in Uses : \E q, i : x = <<q, i>>
    BY DEF Uses
  <2>3. \A x \in Uses' : \E q, i : x = <<q, i>>
    BY DEF Uses
  <2> QED
    BY <2>1, <2>2, <2>3
<1> QED
  BY <1>4, <1>5, FS_AddElement

LEMMA UseLess ==
    ASSUME CountersOK, NEW p \in AllPorts, usage[p] > 0,
           usage' = [usage EXCEPT ![p] = @ - 1],
           IsFiniteSet(Uses)
    PROVE  /\ IsFiniteSet(Uses')
           /\ Cardinality(Uses') = Cardinality(Uses) - 1
<1> DEFINE u == <<p, usage[p]>>
<1>1. usage[p] \in Nat /\ usage'[p] = usage[p] - 1
  BY DEF CountersOK
<1>2. \A q \in AllPorts \ {p} : usage'[q] = usage[q]
  BY DEF CountersOK
<1>3. 1 .. usage[p] - 1 = (1 .. usage[p]) \ {usage[p]}
  BY <1>1
<1>4. u \in Uses
  BY <1>1 DEF Uses
<1>5. Uses' = Uses \ {u}
  <2>1. ASSUME NEW q, NEW i
        PROVE  <<q, i>> \in Uses' <=> <<q, i>> \in Uses \ {u}
    <3>1. <<q, i>> \in Uses <=> q \in AllPorts /\ i \in 1 .. usage[q]
      BY DEF Uses
    <3>2. <<q, i>> \in Uses' <=> q \in AllPorts /\ i \in 1 .. usage'[q]
      BY DEF Uses
    <3> QED
      BY <1>1, <1>2, <1>3, <3>1, <3>2
  <2>2. \A x \in Uses : \E q, i : x = <<q, i>>
    BY DEF Uses
  <2>3. \A x \in Uses' : \E q, i : x = <<q, i>>
    BY DEF Uses
  <2> QED
    BY <2>1, <2>2, <2>3
<1> QED
  BY <1>4, <1>5, FS_RemoveElement

CountInv == IsFiniteSet(Uses) /\ FreeCountAgrees

LEMMA NoUses ==
    ASSUME usage = [p \in AllPorts |-> 0]
    PROVE  IsFiniteSet(Uses) /\ Cardinality(Uses) = 0
<1>1. Uses = {}
  BY DEF Uses
<1> QED
  BY <1>1, FS_EmptySet

LEMMA CountStep ==
    ASSUME PortsAssumption, CountersOK, OpOK, StartOK, NodesOK, CountInv,
           [Next]_vars
    PROVE  CountInv'
<1>0. /\ PortSet \in Nat
      /\ Cardinality(Uses) \in Nat
      /\ nodeCount \in Nat
      /\ freePorts \in Int
      /\ IsFiniteSet(Uses)
      /\ freePorts + Cardinality(Uses) = nodeCount * PortSet
  BY CountIsNat, FS_CardinalityType DEF CountInv, FreeCountAgrees, CountersOK
<1>1. ASSUME NEW p \in AllPorts, usage' = [usage EXCEPT ![p] = @ + 1],
             freePorts' = freePorts - 1, nodeCount' = nodeCount
      PROVE  CountInv'
  <2>1. IsFiniteSet(Uses') /\ Cardinality(Uses') = Cardinality(Uses) + 1
    BY <1>0, <1>1, UseMore
  <2> QED
    BY <1>0, <1>1, <2>1 DEF CountInv, FreeCountAgrees, PortSet
<1>2. CASE UNCHANGED <<usage, freePorts, nodeCount>>
  BY <1>2 DEF CountInv, FreeCountAgrees, Uses
<1>3. CASE TakePort
  <2>1. Ports \subseteq AllPorts
    BY DEF AllPorts
  <2> QED
    BY <1>1, <1>2, <1>3, <2>1 DEF TakePort
<1>4. CASE DeregisterPort
  <2>1. op \in Operation /\ op.ports # <<>>
    BY <1>4, OpIsOperation DEF DeregisterPort
  <2>2. Head(op.ports) \in AllPorts
    BY <2>1 DEF Operation, AllPorts
  <2>3. CASE usage[Head(op.ports)] > 0
    <3>1. /\ usage' = [usage EXCEPT ![Head(op.ports)] = @ - 1]
          /\ freePorts' = freePorts + 1
          /\ nodeCount' = nodeCount
      BY <1>4, <2>3 DEF DeregisterPort
    <3>2. IsFiniteSet(Uses') /\ Cardinality(Uses') = Cardinality(Uses) - 1
      BY <1>0, <2>2, <2>3, <3>1, UseLess
    <3> QED
      BY <1>0, <3>1, <3>2 DEF CountInv, FreeCountAgrees, PortSet
  <2>4. CASE ~(usage[Head(op.ports)] > 0)
    BY <1>2, <1>4, <2>4 DEF DeregisterPort
  <2> QED
    BY <2>3, <2>4
<1>5. CASE OnNodeAdded \/ OnNodeRemoved
  <2>1. (nodeCount + 1) * PortSet = nodeCount * PortSet + PortSet
    BY <1>0
  <2>2. (nodeCount - 1) * PortSet = nodeCount * PortSet - PortSet
    BY <1>0
  <2>3. Uses' = Uses
    BY <1>5 DEF OnNodeAdded, OnNodeRemoved, Uses
  <2>4. PortSet' = PortSet
    BY DEF PortSet
  <2>5. \/ nodeCount' = nodeCount + 1 /\ freePorts' = freePorts + PortSet
        \/ nodeCount' = nodeCount - 1 /\ freePorts' = freePorts - PortSet
    BY <1>5 DEF OnNodeAdded, OnNodeRemoved
  <2> QED
    BY <1>0, <2>1, <2>2, <2>3, <2>4, <2>5 DEF CountInv, FreeCountAgrees
<1>6. CASE Restart
  <2>1. IsFiniteSet(Uses') /\ Cardinality(Uses') = 0
    <3>1. Uses' = {}
      BY <1>6 DEF Restart, Uses
    <3> QED
      BY <3>1, FS_EmptySet
  <2>2. freePorts' = nodeCount' * PortSet
    BY <1>6 DEF Restart
  <2>3. nodeCount' * PortSet \in Int
    BY <1>0, <1>6, CountIsNat DEF Restart
  <2> QED
    BY <2>1, <2>2, <2>3 DEF CountInv, FreeCountAgrees, PortSet
<1>7. ASSUME NEW c \in listed, Register(c)
      PROVE  CountInv'
  <2>1. ClaimedPort(c) \in AllPorts
    BY ClaimIsPort
  <2> QED
    BY <1>1, <1>7, <2>1 DEF Register
<1> QED
  BY <1>2, <1>3, <1>4, <1>5, <1>6, <1>7
     DEF Next, Holding, vars, registry, BeginGet, ReturnPorts, Create,
         CreateFails, Delete, PodChanges, BeginDeregister, EndDeregister,
         NodeChanges, Relabel, ReadNodes, StartManager

(* Both invariants, at every step.                                         *)
LEMMA Invariants == Spec => [](TypeOK /\ CountInv)
<1>1. Init => TypeOK /\ CountInv
  <2>1. Init => TypeOK
    BY PortsAssumption, TypeInit
  <2>2. ASSUME Init
        PROVE  CountInv
    <3>1. InitialNodeCount \in Nat /\ PortSet \in Nat
      BY PortsAssumption, CountIsNat
    <3>2. InitialNodeCount * PortSet \in Int
      BY <3>1
    <3>3. /\ usage = [p \in AllPorts |-> 0]
          /\ freePorts = InitialNodeCount * PortSet
          /\ nodeCount = InitialNodeCount
      BY <2>2 DEF Init
    <3> QED
      BY <3>2, <3>3, NoUses DEF CountInv, FreeCountAgrees
  <2> QED
    BY <2>1, <2>2
<1>2. TypeOK /\ CountInv /\ [Next]_vars => TypeOK' /\ CountInv'
  BY PortsAssumption, TypeStep, CountStep, TypeParts
<1> QED
  BY <1>1, <1>2, PTL DEF Spec

(* The two ways to count agree, however Nodes come and go and whatever the *)
(* registry was doing when the operator stopped.                           *)
THEOREM CountCorrect == Spec => []FreeCountAgrees
<1>1. CountInv => FreeCountAgrees
  BY DEF CountInv
<1> QED
  BY <1>1, Invariants, PTL

-----------------------------------------------------------------------------
(* The search for free ports                                               *)

(* Registering existing GameServers is over before the controllers run,    *)
(* and a search in progress is still owed no more ports than are free.     *)
SearchInv ==
    /\ running => listed = {}
    /\ op # Free => listed = {}
    /\ op.kind = "get" => PortsOf[op.gs] - Len(op.ports) <= freePorts

(* If every port were used as often as there are Nodes, none would be free.*)
LEMMA SomePortAvailable ==
    ASSUME PortsAssumption, CountersOK, CountInv, freePorts > 0
    PROVE  \E p \in Ports : Available(p)
<1> SUFFICES ASSUME \A p \in Ports : usage[p] >= nodeCount
             PROVE  FALSE
  <2>1. \A p \in Ports : usage[p] \in Int /\ nodeCount \in Int
    BY DEF CountersOK, AllPorts
  <2> QED
    BY <2>1 DEF Available
<1> DEFINE Full == Ports \X (1 .. nodeCount)
<1>1. IsFiniteSet(Ports) /\ Cardinality(Ports) = PortSet
  BY FS_Interval DEF Ports, PortSet, PortsAssumption
<1>2. IsFiniteSet(1 .. nodeCount) /\ Cardinality(1 .. nodeCount) = nodeCount
  BY FS_Interval DEF CountersOK
<1>3. Cardinality(Full) = PortSet * nodeCount
  BY <1>1, <1>2, FS_Product
<1>4. Full \subseteq Uses
  <2>1. ASSUME NEW p \in Ports, NEW i \in 1 .. nodeCount
        PROVE  <<p, i>> \in Uses
    <3>1. p \in AllPorts /\ usage[p] \in Nat /\ usage[p] >= nodeCount
      BY DEF CountersOK, AllPorts
    <3>2. i \in 1 .. usage[p]
      BY <3>1 DEF CountersOK
    <3> QED
      BY <3>1, <3>2 DEF Uses
  <2> QED
    BY <2>1
<1>5. Cardinality(Full) <= Cardinality(Uses)
  BY <1>4, FS_Subset DEF CountInv
<1>6. /\ PortSet \in Nat
      /\ nodeCount \in Nat
      /\ freePorts \in Int
      /\ Cardinality(Uses) \in Nat
      /\ freePorts + Cardinality(Uses) = nodeCount * PortSet
  BY CountIsNat, FS_CardinalityType
     DEF CountersOK, CountInv, FreeCountAgrees
<1>7. PortSet * nodeCount = nodeCount * PortSet /\ nodeCount * PortSet \in Nat
  BY <1>6
<1> HIDE DEF Full
<1> QED
  BY <1>3, <1>5, <1>6, <1>7

LEMMA SearchInvIsProperty ==
    ASSUME PortsAssumption, CountersOK, OpOK, CountInv, SearchInv
    PROVE  SearchSucceeds
<1> SUFFICES ASSUME op.kind = "get", Len(op.ports) < PortsOf[op.gs]
             PROVE  \E p \in Ports : Available(p)
  BY DEF SearchSucceeds
<1>1. op \in Operation
  BY OpIsOperation
<1>2. Len(op.ports) \in Nat /\ PortsOf[op.gs] \in Nat
  BY <1>1 DEF Operation, PortsAssumption
<1>3. freePorts > 0
  BY <1>2 DEF SearchInv, CountersOK
<1> QED
  BY <1>3, SomePortAvailable

LEMMA SearchStep ==
    ASSUME PortsAssumption, CountersOK, OpOK, SearchInv, [Next]_vars
    PROVE  SearchInv'
<1>1. ASSUME NEW g \in GameServers, BeginGet(g)
      PROVE  SearchInv'
  <2>1. /\ running /\ UNCHANGED <<running, listed, freePorts>>
        /\ op' = [kind |-> "get", gs |-> g, ports |-> <<>>]
        /\ PortsOf[g] <= freePorts
    BY <1>1 DEF BeginGet, EnoughPorts, start
  <2>2. PortsOf[g] - Len(op'.ports) <= freePorts
    BY <2>1 DEF PortsAssumption, CountersOK
  <2> QED
    BY <2>1, <2>2 DEF SearchInv
<1>2. CASE TakePort
  <2>1. op \in Operation /\ op # Free /\ UNCHANGED <<running, listed>>
    BY <1>2, OpIsOperation DEF TakePort, start, Free
  <2>2. CASE op' = Free
    BY <2>1, <2>2 DEF SearchInv, Free
  <2>3. ASSUME NEW p \in Ports, op' = [op EXCEPT !.ports = Append(@, p)],
               freePorts' = freePorts - 1
        PROVE  SearchInv'
    <3>1. /\ op'.gs = op.gs
          /\ Len(op'.ports) = Len(op.ports) + 1
          /\ Len(op.ports) \in Nat
          /\ PortsOf[op.gs] \in Nat
      BY <2>1, <2>3 DEF Operation, PortsAssumption
    <3>2. op.kind = "get"
      BY <1>2 DEF TakePort
    <3> QED
      BY <2>1, <2>3, <3>1, <3>2 DEF SearchInv, CountersOK
  <2> QED
    BY <1>2, <2>2, <2>3 DEF TakePort
<1>3. CASE ReturnPorts \/ EndDeregister
  BY <1>3 DEF ReturnPorts, EndDeregister, start, SearchInv, Free
<1>4. ASSUME NEW g \in GameServers, BeginDeregister(g)
      PROVE  SearchInv'
  <2>1. running /\ UNCHANGED <<running, listed>> /\ op'.kind # "get"
    BY <1>4 DEF BeginDeregister, start, Free
  <2> QED
    BY <2>1 DEF SearchInv
<1>5. CASE DeregisterPort
  <2>1. op \in Operation /\ op # Free /\ UNCHANGED <<running, listed>>
    BY <1>5, OpIsOperation DEF DeregisterPort, start, Free
  <2>2. op'.kind = "deregister"
    BY <1>5, <2>1 DEF DeregisterPort, Operation
  <2> QED
    BY <2>1, <2>2 DEF SearchInv
<1>6. CASE OnNodeAdded \/ OnNodeRemoved
  <2>1. op = Free /\ op' = Free /\ UNCHANGED <<running, listed>>
    BY <1>6 DEF OnNodeAdded, OnNodeRemoved, start
  <2> QED
    BY <2>1 DEF SearchInv, Free
<1>7. CASE Restart
  BY <1>7 DEF Restart, SearchInv, Free
<1>8. ASSUME NEW c \in listed, Register(c)
      PROVE  SearchInv'
  <2>1. op = Free /\ op' = Free /\ ~running /\ running' = running
    BY <1>8 DEF Register, SearchInv
  <2> QED
    BY <2>1 DEF SearchInv, Free
<1>9. CASE StartManager
  BY <1>9 DEF StartManager, registry, SearchInv
<1>10. CASE UNCHANGED <<running, listed, op, freePorts>>
  BY <1>10 DEF SearchInv
<1> QED
  BY <1>1, <1>2, <1>3, <1>4, <1>5, <1>6, <1>7, <1>8, <1>9, <1>10
     DEF Next, Holding, vars, registry, start, Create, CreateFails, Delete,
         PodChanges, NodeChanges, Relabel, ReadNodes

(* The check at the beginning of GetNewPorts is enough: the search for     *)
(* every single port succeeds, so that no ports are lost half way.         *)
THEOREM SearchCorrect == Spec => []SearchSucceeds
<1>1. Init => SearchInv
  BY DEF Init, SearchInv, Free
<1>2. TypeOK /\ SearchInv /\ [Next]_vars => SearchInv'
  BY PortsAssumption, SearchStep, TypeParts
<1>3. TypeOK /\ CountInv /\ SearchInv => SearchSucceeds
  BY PortsAssumption, SearchInvIsProperty, TypeParts
<1> QED
  BY <1>1, <1>2, <1>3, Invariants, PTL DEF Spec

-----------------------------------------------------------------------------
(* Whose the used ports are                                                *)

(* Who has ports: the GameServers that exist, and those that the registry  *)
(* remembers; the one that an operation is working on counts with the      *)
(* ports of the operation instead.                                         *)
Owners == Holders \cup {g \in GameServers : assigned[g] # <<>>}

InWork      == IF op = Free THEN {} ELSE {op.gs}
PortsInWork == IF op = Free THEN <<>> ELSE op.ports

Count(p, ports) == Cardinality({i \in 1 .. Len(ports) : ports[i] = p})

ListedAt(p) == {c \in listed : ClaimedPort(c) = p}

Idle == Owners \ InWork

Owed(p) == Cardinality(PlacesOf(p, Idle)) + Count(p, PortsInWork)

(* What an operation works on, and what the registry remembers.            *)
OwnersInv ==
    /\ \A g \in GameServers :
          /\ assigned[g] # <<>> => assigned[g] = hostPorts[g]
          /\ phase[g] = "unborn" => assigned[g] = <<>>
          /\ restarts = 0 /\ phase[g] \in {"reserved", "live", "refused"}
                => assigned[g] # <<>>
    /\ \A g \in pending : phase[g] = "deleted"
    /\ op.kind = "get" => phase[op.gs] = "unborn"
    /\ op.kind = "deregister" => phase[op.gs] = "deleted"
    /\ IsFiniteSet(listed)
    /\ restarts = 0 => listed = {}

(* Every port is counted as often as it is owed, or has still to be        *)
(* registered; and before the first restart it is counted no more often.   *)
UsageInv ==
    \A p \in Ports :
        /\ Owed(p) <= usage[p] + Cardinality(ListedAt(p))
        /\ restarts = 0 => usage[p] <= Owed(p)

-----------------------------------------------------------------------------
(* Counting places                                                         *)

LEMMA OneToOne ==
    ASSUME NEW S, NEW T, IsFiniteSet(S), NEW f \in [S -> T],
           \A x, y \in S : f[x] = f[y] => x = y,
           \A z \in T : \E x \in S : f[x] = z
    PROVE  IsFiniteSet(T) /\ Cardinality(T) = Cardinality(S)
<1>1. f \in Injection(S, T)
  BY DEF Injection, IsInjective
<1>2. f \in Surjection(S, T)
  BY DEF Surjection
<1> QED
  BY <1>1, <1>2, FS_Bijection DEF Bijection, ExistsBijection

IndexesOf(p, ports) == {i \in 1 .. Len(ports) : ports[i] = p}

LEMMA IndexesFinite ==
    ASSUME NEW p, NEW s \in Seq(Ports)
    PROVE  IsFiniteSet(IndexesOf(p, s)) /\ Count(p, s) \in Nat
<1>1. IsFiniteSet(1 .. Len(s))
  BY FS_Interval
<1>2. IsFiniteSet(IndexesOf(p, s))
  BY <1>1, FS_Subset DEF IndexesOf
<1> QED
  BY <1>2, FS_CardinalityType DEF Count, IndexesOf

LEMMA CountEmpty == \A p : Count(p, <<>>) = 0
<1>1. \A p : {i \in 1 .. Len(<<>>) : <<>>[i] = p} = {}
  OBVIOUS
<1> QED
  BY <1>1, FS_EmptySet DEF Count

LEMMA CountAppend ==
    ASSUME NEW p, NEW s \in Seq(Ports), NEW q \in Ports
    PROVE  Count(p, Append(s, q)) = Count(p, s) + (IF q = p THEN 1 ELSE 0)
<1> DEFINE t == Append(s, q)
<1>1. /\ Len(s) \in Nat
      /\ Len(t) = Len(s) + 1
      /\ t[Len(s) + 1] = q
      /\ \A i \in 1 .. Len(s) : t[i] = s[i]
  OBVIOUS
<1>2. 1 .. Len(t) = (1 .. Len(s)) \cup {Len(s) + 1}
  BY <1>1
<1>3. Len(s) + 1 \notin IndexesOf(p, s)
  BY <1>1 DEF IndexesOf
<1> HIDE DEF t
<1>4. CASE q = p
  <2>1. IndexesOf(p, t) = IndexesOf(p, s) \cup {Len(s) + 1}
    BY <1>1, <1>2, <1>4 DEF IndexesOf
  <2>2. Cardinality(IndexesOf(p, t)) = Cardinality(IndexesOf(p, s)) + 1
    BY <1>3, <2>1, IndexesFinite, FS_AddElement
  <2> QED
    BY <1>4, <2>2 DEF Count, IndexesOf, t
<1>5. CASE q # p
  <2>1. IndexesOf(p, t) = IndexesOf(p, s)
    BY <1>1, <1>2, <1>5 DEF IndexesOf
  <2>2. Count(p, t) = Count(p, s)
    BY <2>1 DEF Count, IndexesOf
  <2> QED
    BY <1>5, <2>2, IndexesFinite DEF t
<1> QED
  BY <1>4, <1>5

LEMMA CountTail ==
    ASSUME NEW p, NEW s \in Seq(Ports), s # <<>>
    PROVE  Count(p, s) = Count(p, Tail(s)) + (IF Head(s) = p THEN 1 ELSE 0)
<1> DEFINE t == Tail(s)
           J == {i \in 2 .. Len(s) : s[i] = p}
           f == [i \in IndexesOf(p, t) |-> i + 1]
<1>1. /\ t \in Seq(Ports)
      /\ Len(s) \in Nat \ {0}
      /\ Len(t) = Len(s) - 1
      /\ Head(s) = s[1]
      /\ \A i \in 1 .. Len(t) : t[i] = s[i + 1]
  OBVIOUS
<1> HIDE DEF t
<1>2. f \in [IndexesOf(p, t) -> J]
  BY <1>1 DEF IndexesOf
<1>3. \A x, y \in IndexesOf(p, t) : f[x] = f[y] => x = y
  BY <1>1 DEF IndexesOf
<1>4. ASSUME NEW z \in J
      PROVE  \E x \in IndexesOf(p, t) : f[x] = z
  <2>1. z - 1 \in IndexesOf(p, t)
    BY <1>1 DEF IndexesOf
  <2> QED
    BY <2>1
<1>5. IsFiniteSet(IndexesOf(p, t))
  BY <1>1, IndexesFinite
<1>6. IsFiniteSet(J) /\ Cardinality(J) = Count(p, t)
  <2> HIDE DEF f, J
  <2>1. IsFiniteSet(J) /\ Cardinality(J) = Cardinality(IndexesOf(p, t))
    BY <1>2, <1>3, <1>4, <1>5, OneToOne
  <2> QED
    BY <2>1 DEF Count, IndexesOf
<1>7. 1 .. Len(s) = {1} \cup (2 .. Len(s))
  BY <1>1
<1>8. Count(p, s) = Cardinality(IndexesOf(p, s)) /\ Count(p, t) \in Nat
  BY <1>1, IndexesFinite DEF Count, IndexesOf
<1>9. CASE Head(s) = p
  <2>1. IndexesOf(p, s) = J \cup {1} /\ 1 \notin J
    BY <1>1, <1>7, <1>9 DEF IndexesOf
  <2>2. Cardinality(IndexesOf(p, s)) = Cardinality(J) + 1
    BY <1>6, <2>1, FS_AddElement
  <2> QED
    BY <1>6, <1>8, <1>9, <2>2 DEF t
<1>10. CASE Head(s) # p
  <2>1. IndexesOf(p, s) = J
    BY <1>1, <1>7, <1>10 DEF IndexesOf
  <2> QED
    BY <1>6, <1>8, <1>10, <2>1 DEF t
<1> QED
  BY <1>9, <1>10

(* Where the GameServers of W have the port p, when h gives their ports.   *)
HeldBy(h, p, W) == {c \in W \X (Nat \ {0}) :
                      c[2] \in 1 .. Len(h[c[1]]) /\ h[c[1]][c[2]] = p}

LEMMA HeldAdd ==
    ASSUME NEW h \in [GameServers -> Seq(Ports)], NEW p,
           NEW W \in SUBSET GameServers, NEW g \in GameServers, g \notin W,
           IsFiniteSet(HeldBy(h, p, W))
    PROVE  /\ IsFiniteSet(HeldBy(h, p, W \cup {g}))
           /\ Cardinality(HeldBy(h, p, W \cup {g}))
                 = Cardinality(HeldBy(h, p, W)) + Count(p, h[g])
<1> DEFINE I == IndexesOf(p, h[g])
           H == HeldBy(h, p, {g})
           f == [i \in I |-> <<g, i>>]
<1>1. h[g] \in Seq(Ports) /\ Len(h[g]) \in Nat
  OBVIOUS
<1>2. f \in [I -> H]
  BY <1>1 DEF IndexesOf, HeldBy
<1>3. \A x, y \in I : f[x] = f[y] => x = y
  OBVIOUS
<1>4. ASSUME NEW z \in H
      PROVE  \E x \in I : f[x] = z
  <2>1. z = <<g, z[2]>> /\ z[2] \in I
    BY <1>1 DEF IndexesOf, HeldBy
  <2> QED
    BY <2>1
<1>5. IsFiniteSet(H) /\ Cardinality(H) = Count(p, h[g])
  <2>1. IsFiniteSet(I) /\ Cardinality(I) = Count(p, h[g])
    BY <1>1, IndexesFinite DEF Count, IndexesOf
  <2> HIDE DEF I, H, f
  <2> QED
    BY <1>2, <1>3, <1>4, <2>1, OneToOne
<1>6. HeldBy(h, p, W \cup {g}) = HeldBy(h, p, W) \cup H
  BY DEF HeldBy
<1>7. HeldBy(h, p, W) \cap H = {}
  BY DEF HeldBy
<1> HIDE DEF H
<1>8. /\ Cardinality(HeldBy(h, p, W)) \in Nat
      /\ Cardinality(H) \in Nat
      /\ Cardinality({}) = 0
  BY <1>5, FS_CardinalityType, FS_EmptySet
<1>9. /\ IsFiniteSet(HeldBy(h, p, W) \cup H)
      /\ Cardinality(HeldBy(h, p, W) \cup H)
            = Cardinality(HeldBy(h, p, W)) + Cardinality(H)
                 - Cardinality(HeldBy(h, p, W) \cap H)
  BY <1>5, FS_Union
<1>10. Cardinality(HeldBy(h, p, W) \cap H) = 0
  BY <1>7, <1>8
<1>11. Cardinality(HeldBy(h, p, W) \cup H)
          = Cardinality(HeldBy(h, p, W)) + Cardinality(H)
  BY <1>8, <1>9, <1>10
<1> QED
  BY <1>5, <1>6, <1>9, <1>11, Zenon

LEMMA HeldFinite ==
    ASSUME NEW h \in [GameServers -> Seq(Ports)], NEW p,
           NEW W \in SUBSET GameServers, PortsAssumption
    PROVE  /\ IsFiniteSet(HeldBy(h, p, W))
           /\ Cardinality(HeldBy(h, p, W)) \in Nat
<1> DEFINE At(g) == HeldBy(h, p, {g})
           S == {At(g) : g \in W}
           f == [g \in W |-> At(g)]
<1>1. IsFiniteSet(W)
  BY FS_Subset DEF PortsAssumption
<1>2. f \in Surjection(W, S)
  BY DEF Surjection
<1>3. IsFiniteSet(S)
  <2> HIDE DEF S, f
  <2> QED
    BY <1>1, <1>2, FS_Surjection
<1>4. ASSUME NEW g \in W
      PROVE  IsFiniteSet(At(g))
  <2>1. HeldBy(h, p, {}) = {}
    BY DEF HeldBy
  <2>2. IsFiniteSet(HeldBy(h, p, {}))
    BY <2>1, FS_EmptySet
  <2>3. {} \cup {g} = {g}
    OBVIOUS
  <2>4. {} \in SUBSET GameServers /\ g \in GameServers /\ g \notin {}
    OBVIOUS
  <2>5. IsFiniteSet(HeldBy(h, p, {} \cup {g}))
    BY <2>2, <2>4, HeldAdd
  <2> QED
    BY <2>3, <2>5
<1>5. IsFiniteSet(UNION S)
  BY <1>3, <1>4, FS_UNION
<1>6. HeldBy(h, p, W) \subseteq UNION S
  BY DEF HeldBy
<1> QED
  BY <1>5, <1>6, FS_Subset, FS_CardinalityType

LEMMA HeldFewer ==
    ASSUME NEW h \in [GameServers -> Seq(Ports)], NEW p,
           NEW W \in SUBSET GameServers, NEW V \in SUBSET W, PortsAssumption
    PROVE  Cardinality(HeldBy(h, p, V)) <= Cardinality(HeldBy(h, p, W))
<1>1. HeldBy(h, p, V) \subseteq HeldBy(h, p, W)
  BY DEF HeldBy
<1> QED
  BY <1>1, HeldFinite, FS_Subset

-----------------------------------------------------------------------------
(* What is owed                                                            *)

LEMMA PlacesAreHeld ==
    ASSUME OpOK, NEW p \in Ports, NEW W \in SUBSET GameServers,
           PortsAssumption
    PROVE  PlacesOf(p, W) = HeldBy(hostPorts, p, W)
<1>1. p \in Nat \ {0}
  BY DEF Ports, PortsAssumption
<1>2. \A g \in W : Len(hostPorts[g]) \in Nat /\ Unexposed[g] \in Nat
  BY DEF OpOK, PortsAssumption
<1>3. ASSUME NEW g \in W, NEW i
      PROVE  <<g, i>> \in PlacesOf(p, W)
                <=> <<g, i>> \in HeldBy(hostPorts, p, W)
  BY <1>1, <1>2 DEF PlacesOf, Claims, ClaimedPort, HeldBy
<1> DEFINE P == PlacesOf(p, W)
           H == HeldBy(hostPorts, p, W)
<1>4. \A c \in P : \E g \in W : \E i : c = <<g, i>>
  BY DEF PlacesOf, Claims
<1>5. \A c \in H : \E g \in W : \E i : c = <<g, i>>
  BY DEF HeldBy
<1>6. \A g \in W : \A i : <<g, i>> \in P <=> <<g, i>> \in H
  BY <1>3
<1> HIDE DEF P, H
<1>7. \A c \in P : c \in H
  BY <1>4, <1>6
<1>8. \A c \in H : c \in P
  BY <1>5, <1>6
<1>9. P = H
  BY <1>7, <1>8
<1> QED
  BY <1>9 DEF P, H

(* The same in the next state.                                             *)
LEMMA PlacesAreHeldNext ==
    ASSUME OpOK', NEW p \in Ports, NEW W \in SUBSET GameServers,
           PortsAssumption
    PROVE  PlacesOf(p, W)' = HeldBy(hostPorts', p, W)
<1> DEFINE P == PlacesOf(p, W)'
           H == HeldBy(hostPorts', p, W)
<1>1. p \in Nat \ {0}
  BY DEF Ports, PortsAssumption
<1>2. \A g \in W : Len(hostPorts'[g]) \in Nat /\ Unexposed[g] \in Nat
  BY DEF OpOK, PortsAssumption
<1>3. ASSUME NEW g \in W, NEW i
      PROVE  <<g, i>> \in P <=> <<g, i>> \in H
  BY <1>1, <1>2 DEF PlacesOf, Claims, ClaimedPort, HeldBy
<1>4. \A c \in P : \E g \in W : \E i : c = <<g, i>>
  BY DEF PlacesOf, Claims
<1>5. \A c \in H : \E g \in W : \E i : c = <<g, i>>
  BY DEF HeldBy
<1>6. \A g \in W : \A i : <<g, i>> \in P <=> <<g, i>> \in H
  BY <1>3
<1> HIDE DEF P, H
<1>7. \A c \in P : c \in H
  BY <1>4, <1>6
<1>8. \A c \in H : c \in P
  BY <1>5, <1>6
<1>9. P = H
  BY <1>7, <1>8
<1> QED
  BY <1>9 DEF P, H

LEMMA OwedIs ==
    ASSUME PortsAssumption, OpOK, NEW p \in Ports
    PROVE  Owed(p) = Cardinality(HeldBy(hostPorts, p, Idle))
                        + Count(p, PortsInWork)
<1>1. Idle \in SUBSET GameServers
  BY DEF Idle, Owners, Holders
<1>2. PlacesOf(p, Idle) = HeldBy(hostPorts, p, Idle)
  BY <1>1, PlacesAreHeld
<1> QED
  BY <1>2 DEF Owed

LEMMA OwedIsNext ==
    ASSUME PortsAssumption, OpOK', NEW p \in Ports
    PROVE  Owed(p)' = Cardinality(HeldBy(hostPorts', p, Idle'))
                        + Count(p, PortsInWork')
<1>1. Idle' \in SUBSET GameServers
  BY DEF Idle, Owners, Holders
<1>2. \A W \in SUBSET GameServers :
         PlacesOf(p, W)' = HeldBy(hostPorts', p, W)
  BY PlacesAreHeldNext
<1>3. PlacesOf(p, Idle)' = HeldBy(hostPorts', p, Idle')
  BY <1>1, <1>2 DEF PlacesOf
<1> QED
  BY <1>3 DEF Owed, Count

(* The numbers that the invariant compares.                                *)
LEMMA Numbers ==
    ASSUME PortsAssumption, CountersOK, OpOK, OwnersInv, NEW p \in Ports
    PROVE  /\ usage[p] \in Nat
           /\ Cardinality(HeldBy(hostPorts, p, Idle)) \in Nat
           /\ PortsInWork \in Seq(Ports)
           /\ Count(p, PortsInWork) \in Nat
           /\ IsFiniteSet(ListedAt(p))
           /\ Cardinality(ListedAt(p)) \in Nat
<1>1. usage[p] \in Nat
  BY DEF CountersOK, AllPorts
<1>2. Cardinality(HeldBy(hostPorts, p, Idle)) \in Nat
  <2>1. Idle \in SUBSET GameServers
    BY DEF Idle, Owners, Holders
  <2> QED
    BY <2>1, HeldFinite DEF OpOK
<1>3. PortsInWork \in Seq(Ports)
  BY DEF PortsInWork, OpOK, Operation
<1>4. IsFiniteSet(ListedAt(p))
  BY FS_Subset DEF OwnersInv, ListedAt
<1> QED
  BY <1>1, <1>2, <1>3, <1>4, IndexesFinite, FS_CardinalityType

LEMMA ClaimsFinite ==
    ASSUME PortsAssumption, OpOK, NEW W \in SUBSET GameServers
    PROVE  IsFiniteSet(UNION {Claims(g) : g \in W})
<1> DEFINE S == {Claims(g) : g \in W}
           f == [g \in W |-> Claims(g)]
<1>1. IsFiniteSet(W)
  BY FS_Subset DEF PortsAssumption
<1>2. f \in Surjection(W, S)
  BY DEF Surjection
<1>3. IsFiniteSet(S)
  <2> HIDE DEF S, f
  <2> QED
    BY <1>1, <1>2, FS_Surjection
<1>4. ASSUME NEW g \in W
      PROVE  IsFiniteSet(Claims(g))
  <2> DEFINE n == Len(hostPorts[g]) + Unexposed[g]
  <2>1. n \in Nat
    BY DEF OpOK, PortsAssumption
  <2> HIDE DEF n
  <2>2. IsFiniteSet(1 .. n)
    BY <2>1, FS_Interval
  <2>3. IsFiniteSet({g})
    BY FS_Singleton
  <2>4. IsFiniteSet({g} \X (1 .. n))
    BY <2>2, <2>3, FS_Product
  <2> QED
    BY <2>4 DEF Claims, n
<1> QED
  BY <1>3, <1>4, FS_UNION

LEMMA OwnersStep ==
    ASSUME PortsAssumption, TypeOK, SearchInv, OwnersInv, [Next]_vars
    PROVE  OwnersInv'
<1> USE TypeParts
<1>1. ASSUME NEW g \in GameServers, BeginGet(g)
      PROVE  OwnersInv'
  BY <1>1 DEF BeginGet, OwnersInv, start, objects, faults
<1>2. CASE TakePort
  <2>1. op \in Operation /\ op.kind = "get"
    BY <1>2, OpIsOperation DEF TakePort
  <2>2. \/ op' = Free
        \/ op'.kind = "get" /\ op'.gs = op.gs
    BY <1>2, <2>1 DEF TakePort, Operation
  <2> QED
    BY <1>2, <2>1, <2>2
       DEF TakePort, OwnersInv, Free, start, objects, faults
<1>3. CASE ReturnPorts
  <2> DEFINE g == op.gs
  <2>1. op \in Operation /\ op.kind = "get" /\ g \in GameServers
    BY <1>3, OpIsOperation DEF ReturnPorts, Operation
  <2>2. op.ports # <<>>
    BY <1>3, <2>1 DEF ReturnPorts, PortsAssumption, Operation
  <2>3. /\ assigned'[g] = op.ports
        /\ hostPorts'[g] = op.ports
        /\ phase'[g] = "reserved"
        /\ \A h \in GameServers \ {g} :
              /\ assigned'[h] = assigned[h]
              /\ hostPorts'[h] = hostPorts[h]
              /\ phase'[h] = phase[h]
    BY <1>3, <2>1 DEF ReturnPorts, OpOK, ObjectsOK
  <2>4. /\ pending' = pending /\ listed' = listed /\ restarts' = restarts
        /\ op' = Free
    BY <1>3 DEF ReturnPorts, start, faults
  <2>5. g \notin pending
    BY <2>1 DEF OwnersInv
  <2> HIDE DEF g
  <2>6. ASSUME NEW h \in GameServers
        PROVE  /\ assigned'[h] # <<>> => assigned'[h] = hostPorts'[h]
               /\ phase'[h] = "unborn" => assigned'[h] = <<>>
               /\ /\ restarts' = 0
                  /\ phase'[h] \in {"reserved", "live", "refused"}
                  => assigned'[h] # <<>>
    <3>1. CASE h = g
      BY <2>2, <2>3, <3>1
    <3>2. CASE h # g
      BY <2>3, <2>4, <3>2 DEF OwnersInv
    <3> QED
      BY <3>1, <3>2
  <2>7. \A h \in pending' : phase'[h] = "deleted"
    BY <2>3, <2>4, <2>5 DEF OwnersInv, ObjectsOK
  <2> QED
    BY <2>4, <2>6, <2>7 DEF OwnersInv, Free
<1>4. ASSUME NEW g \in GameServers, BeginDeregister(g)
      PROVE  OwnersInv'
  BY <1>4 DEF BeginDeregister, OwnersInv, start, objects, faults, Free
<1>5. CASE DeregisterPort
  <2>1. op \in Operation /\ op.kind = "deregister"
    BY <1>5, OpIsOperation DEF DeregisterPort
  <2>2. op'.kind = "deregister" /\ op'.gs = op.gs
    BY <1>5, <2>1 DEF DeregisterPort, Operation
  <2> QED
    BY <1>5, <2>1, <2>2 DEF DeregisterPort, OwnersInv, start, objects, faults
<1>6. CASE EndDeregister
  <2>1. op.kind = "deregister" /\ op.gs \in GameServers
    BY <1>6, OpIsOperation DEF EndDeregister, Operation
  <2> QED
    BY <1>6, <2>1
       DEF EndDeregister, OwnersInv, OpOK, start, objects, faults, Free
<1>7. CASE Restart
  <2>1. IsFiniteSet(listed')
    <3>1. {h \in GameServers : phase[h] = "live"} \in SUBSET GameServers
      OBVIOUS
    <3> QED
      BY <1>7, <3>1, ClaimsFinite DEF Restart
  <2>2. restarts' # 0
    BY <1>7 DEF Restart, FaultsOK
  <2> QED
    BY <1>7, <2>1, <2>2 DEF Restart, OwnersInv, Free, ObjectsOK
<1>8. ASSUME NEW c \in listed, Register(c)
      PROVE  OwnersInv'
  <2>1. IsFiniteSet(listed')
    BY <1>8, FS_RemoveElement DEF Register, OwnersInv
  <2> QED
    BY <1>8, <2>1 DEF Register, OwnersInv, objects, faults
<1>9. ASSUME NEW g \in GameServers, Create(g) \/ CreateFails(g) \/ Delete(g)
      PROVE  OwnersInv'
  <2>1. /\ assigned' = assigned /\ hostPorts' = hostPorts /\ op' = op
        /\ listed' = listed /\ restarts' = restarts
        /\ phase[g] \in {"reserved", "live"}
        /\ pending' = pending \cup (IF phase'[g] = "deleted" THEN {g} ELSE {})
        /\ phase'[g] \in {"live", "refused", "deleted"}
        /\ \A h \in GameServers \ {g} : phase'[h] = phase[h]
    BY <1>9 DEF Create, CreateFails, Delete, registry, start, faults,
                ObjectsOK
  <2>2. op.kind \in {"get", "deregister"} => op.gs \in GameServers \ {g}
    BY <2>1, OpIsOperation DEF OwnersInv, Operation
  <2> QED
    BY <2>1, <2>2 DEF OwnersInv, ObjectsOK
<1>10. ASSUME NEW g \in GameServers, PodChanges(g)
       PROVE  OwnersInv'
  BY <1>10 DEF PodChanges, OwnersInv, registry, start, objects, faults
<1>11. CASE UNCHANGED <<assigned, op, listed, pending, objects, restarts>>
  BY <1>11 DEF OwnersInv, objects
<1> QED
  BY <1>1, <1>2, <1>3, <1>4, <1>5, <1>6, <1>7, <1>8, <1>9, <1>10, <1>11
     DEF Next, Holding, vars, registry, start, faults, NodeChanges, Relabel,
         ReadNodes, OnNodeAdded, OnNodeRemoved, StartManager

(* Most steps touch none of the ports in use.  Some of the owners may be   *)
(* gone, but not before the first restart.                                 *)
LEMMA UsageKept ==
    ASSUME PortsAssumption, CountersOK, OpOK, OpOK', OwnersInv, UsageInv,
           UNCHANGED <<usage, listed, hostPorts, restarts>>,
           PortsInWork' = PortsInWork,
           Idle' \subseteq Idle,
           restarts = 0 => Idle' = Idle
    PROVE  UsageInv'
<1> SUFFICES ASSUME NEW p \in Ports
             PROVE  /\ Owed(p)' <= usage'[p] + Cardinality(ListedAt(p)')
                    /\ restarts' = 0 => usage'[p] <= Owed(p)'
  BY DEF UsageInv
<1>1. /\ Idle \in SUBSET GameServers
      /\ hostPorts \in [GameServers -> Seq(Ports)]
  BY DEF Idle, Owners, Holders, OpOK
<1>2. Cardinality(HeldBy(hostPorts, p, Idle'))
         <= Cardinality(HeldBy(hostPorts, p, Idle))
  BY <1>1, HeldFewer
<1>3. Cardinality(HeldBy(hostPorts, p, Idle')) \in Nat
  BY <1>1, HeldFinite
<1>4. ListedAt(p)' = ListedAt(p)
  BY DEF ListedAt, ClaimedPort
<1>5. /\ Owed(p) = Cardinality(HeldBy(hostPorts, p, Idle))
                      + Count(p, PortsInWork)
      /\ Owed(p)' = Cardinality(HeldBy(hostPorts, p, Idle'))
                      + Count(p, PortsInWork)
  BY OwedIs, OwedIsNext
<1>6. /\ Owed(p) <= usage[p] + Cardinality(ListedAt(p))
      /\ restarts = 0 => usage[p] <= Owed(p)
  BY DEF UsageInv
<1> HIDE DEF ListedAt
<1> QED
  BY <1>2, <1>3, <1>4, <1>5, <1>6, Numbers

(* What an operation takes or gives back is counted at once.               *)
LEMMA UsageCounted ==
    ASSUME PortsAssumption, CountersOK, OpOK, OpOK', OwnersInv, UsageInv,
           UNCHANGED <<listed, hostPorts, restarts, Idle>>,
           \A p \in Ports :
              Count(p, PortsInWork') - Count(p, PortsInWork)
                 = usage'[p] - usage[p],
           usage' \in [AllPorts -> Nat]
    PROVE  UsageInv'
<1> SUFFICES ASSUME NEW p \in Ports
             PROVE  /\ Owed(p)' <= usage'[p] + Cardinality(ListedAt(p)')
                    /\ restarts' = 0 => usage'[p] <= Owed(p)'
  BY DEF UsageInv
<1>1. ListedAt(p)' = ListedAt(p)
  BY DEF ListedAt, ClaimedPort
<1>2. PortsInWork' \in Seq(Ports)
  BY DEF PortsInWork, OpOK, Operation
<1>3. Count(p, PortsInWork') \in Nat /\ usage'[p] \in Nat
  BY <1>2, IndexesFinite DEF AllPorts
<1>4. /\ Owed(p) = Cardinality(HeldBy(hostPorts, p, Idle))
                      + Count(p, PortsInWork)
      /\ Owed(p)' = Cardinality(HeldBy(hostPorts, p, Idle))
                      + Count(p, PortsInWork')
  BY OwedIs, OwedIsNext
<1>5. /\ Owed(p) <= usage[p] + Cardinality(ListedAt(p))
      /\ restarts = 0 => usage[p] <= Owed(p)
  BY DEF UsageInv
<1>6. Count(p, PortsInWork') - Count(p, PortsInWork) = usage'[p] - usage[p]
  OBVIOUS
<1> HIDE DEF ListedAt
<1> QED
  BY <1>1, <1>3, <1>4, <1>5, <1>6, Numbers

(* Ports change hands between an operation and a GameServer.               *)
LEMMA UsageMoved ==
    ASSUME PortsAssumption, CountersOK, OpOK, OpOK', OwnersInv, UsageInv,
           UNCHANGED <<usage, listed, restarts>>, listed = {},
           \A p \in Ports : Owed(p)' = Owed(p)
    PROVE  UsageInv'
<1> SUFFICES ASSUME NEW p \in Ports
             PROVE  /\ Owed(p)' <= usage'[p] + Cardinality(ListedAt(p)')
                    /\ restarts' = 0 => usage'[p] <= Owed(p)'
  BY DEF UsageInv
<1>1. ListedAt(p)' = {} /\ ListedAt(p) = {}
  BY DEF ListedAt
<1>2. /\ Owed(p) <= usage[p] + Cardinality(ListedAt(p))
      /\ restarts = 0 => usage[p] <= Owed(p)
  BY DEF UsageInv
<1> HIDE DEF ListedAt
<1> QED
  BY <1>1, <1>2

LEMMA UsageReturned ==
    ASSUME PortsAssumption, TypeOK, OpOK', SearchInv, OwnersInv, UsageInv,
           ReturnPorts
    PROVE  UsageInv'
<1> USE TypeParts
<1> DEFINE g == op.gs
<1>1. op \in Operation /\ op.kind = "get" /\ g \in GameServers /\ op # Free
  BY OpIsOperation DEF ReturnPorts, Operation, Free
<1>2. op.ports \in Seq(Ports) /\ op.ports # <<>>
  BY <1>1 DEF ReturnPorts, PortsAssumption, Operation
<1>3. g \notin Owners
  BY <1>1 DEF OwnersInv, Owners, Holders
<1>4. Idle = Owners /\ PortsInWork = op.ports
  BY <1>1, <1>3 DEF Idle, InWork, PortsInWork
<1>5. Idle' = Owners \cup {g} /\ PortsInWork' = <<>>
  <2>1. op' = Free
    BY DEF ReturnPorts
  <2>2. Owners' = Owners \cup {g}
    BY <1>1, <1>2 DEF ReturnPorts, Owners, Holders, OpOK, ObjectsOK
  <2> QED
    BY <2>1, <2>2 DEF Idle, InWork, PortsInWork
<1>6. Owners \in SUBSET GameServers
  BY DEF Owners, Holders
<1>7. /\ hostPorts' \in [GameServers -> Seq(Ports)]
      /\ hostPorts'[g] = op.ports
      /\ \A h \in Owners : hostPorts'[h] = hostPorts[h]
  BY <1>1, <1>3, <1>6 DEF ReturnPorts, OpOK
<1> HIDE DEF g
<1>8. ASSUME NEW p \in Ports
      PROVE  Owed(p)' = Owed(p)
  <2>1. HeldBy(hostPorts', p, Owners) = HeldBy(hostPorts, p, Owners)
    BY <1>7 DEF HeldBy
  <2>2. IsFiniteSet(HeldBy(hostPorts', p, Owners))
    BY <1>6, <1>7, HeldFinite
  <2>3. Cardinality(HeldBy(hostPorts', p, Owners \cup {g}))
           = Cardinality(HeldBy(hostPorts, p, Owners)) + Count(p, op.ports)
    <3>1. Cardinality(HeldBy(hostPorts', p, Owners \cup {g}))
             = Cardinality(HeldBy(hostPorts', p, Owners))
                  + Count(p, hostPorts'[g])
      <4> DEFINE h == hostPorts'
                 W == Owners
      <4>1. /\ h \in [GameServers -> Seq(Ports)]
            /\ W \in SUBSET GameServers
            /\ g \in GameServers /\ g \notin W
            /\ IsFiniteSet(HeldBy(h, p, W))
        BY <1>1, <1>3, <1>6, <1>7, <2>2
      <4> HIDE DEF h, W
      <4>2. Cardinality(HeldBy(h, p, W \cup {g}))
               = Cardinality(HeldBy(h, p, W)) + Count(p, h[g])
        BY <4>1, HeldAdd
      <4> QED
        BY <4>2 DEF h, W
    <3> QED
      BY <1>7, <2>1, <3>1
  <2>4. Count(p, <<>>) = 0
    BY CountEmpty
  <2>5. /\ Owed(p) = Cardinality(HeldBy(hostPorts, p, Owners))
                        + Count(p, op.ports)
        /\ Owed(p)' = Cardinality(HeldBy(hostPorts', p, Owners \cup {g}))
                        + Count(p, <<>>)
    BY <1>4, <1>5, OwedIs, OwedIsNext
  <2>6. Count(p, op.ports) \in Nat
    BY <1>2, IndexesFinite
  <2>7. Cardinality(HeldBy(hostPorts, p, Owners)) \in Nat
    BY <1>6, HeldFinite DEF OpOK
  <2> QED
    BY <2>3, <2>4, <2>5, <2>6, <2>7
<1>9. listed = {}
  BY <1>1 DEF SearchInv
<1>10. UNCHANGED <<usage, listed, restarts>>
  BY DEF ReturnPorts, start, faults
<1> QED
  BY <1>8, <1>9, <1>10, UsageMoved

LEMMA UsageClaimed ==
    ASSUME PortsAssumption, TypeOK, OpOK', SearchInv, OwnersInv, UsageInv,
           NEW g \in GameServers, BeginDeregister(g), assigned[g] # <<>>
    PROVE  UsageInv'
<1> USE TypeParts
<1>1. op = Free /\ running
  BY DEF BeginDeregister
<1>2. /\ op' = [kind |-> "deregister", gs |-> g, ports |-> assigned[g]]
      /\ op' # Free
      /\ assigned[g] = hostPorts[g]
  BY DEF BeginDeregister, OwnersInv, Free
<1>3. UNCHANGED <<usage, assigned, phase, hostPorts, listed, restarts>>
  BY DEF BeginDeregister, objects, start, faults
<1>4. Idle = Owners /\ PortsInWork = <<>>
  BY <1>1 DEF Idle, InWork, PortsInWork
<1>5. Idle' = Owners \ {g} /\ PortsInWork' = hostPorts[g]
  BY <1>2, <1>3 DEF Idle, InWork, PortsInWork, Owners, Holders
<1>6. Owners \ {g} \in SUBSET GameServers /\ g \in Owners
  BY DEF Owners, Holders
<1>7. ASSUME NEW p \in Ports
      PROVE  Owed(p)' = Owed(p)
  <2> DEFINE W == Owners \ {g}
  <2>1. Owners = W \cup {g} /\ W \in SUBSET GameServers /\ g \notin W
    BY <1>6
  <2> HIDE DEF W
  <2>2. hostPorts \in [GameServers -> Seq(Ports)]
    BY DEF OpOK
  <2>3. IsFiniteSet(HeldBy(hostPorts, p, W))
    BY <2>1, <2>2, HeldFinite
  <2>4. Cardinality(HeldBy(hostPorts, p, W \cup {g}))
           = Cardinality(HeldBy(hostPorts, p, W)) + Count(p, hostPorts[g])
    BY <2>1, <2>2, <2>3, HeldAdd
  <2>5. Count(p, <<>>) = 0
    BY CountEmpty
  <2>6. /\ Owed(p) = Cardinality(HeldBy(hostPorts, p, W \cup {g}))
                        + Count(p, <<>>)
        /\ Owed(p)' = Cardinality(HeldBy(hostPorts, p, W))
                        + Count(p, hostPorts[g])
    <3>1. Idle = W \cup {g} /\ Idle' = W
      BY <1>4, <1>5, <2>1 DEF W
    <3> QED
      BY <1>3, <1>4, <1>5, <3>1, OwedIs, OwedIsNext
  <2>7. Cardinality(HeldBy(hostPorts, p, W \cup {g})) \in Nat
    BY <1>6, <2>1, <2>2, HeldFinite
  <2> QED
    BY <2>4, <2>5, <2>6, <2>7
<1>8. listed = {}
  BY <1>1 DEF SearchInv
<1> QED
  BY <1>3, <1>7, <1>8, UsageMoved

LEMMA TypePartsNext ==
    ASSUME TypeOK'
    PROVE  CountersOK' /\ OpOK'
  BY DEF TypeOK, CountersOK, OpOK, Operation

LEMMA UsageTaken ==
    ASSUME PortsAssumption, TypeOK, TypeOK', CountInv, SearchInv, OwnersInv,
           UsageInv, TakePort
    PROVE  UsageInv'
<1> USE TypeParts, TypePartsNext
<1>1. op \in Operation /\ op.kind = "get" /\ op # Free
  BY OpIsOperation DEF TakePort, Free
<1>2. Len(op.ports) < PortsOf[op.gs]
  BY DEF TakePort
<1>3. \E p \in Ports : Available(p)
  BY <1>1, <1>2, SearchInvIsProperty DEF SearchSucceeds
<1>4. PICK q \in Ports : /\ usage' = [usage EXCEPT ![q] = @ + 1]
                         /\ op' = [op EXCEPT !.ports = Append(@, q)]
  BY <1>3 DEF TakePort
<1>5. op' # Free /\ op'.gs = op.gs /\ op'.ports = Append(op.ports, q)
  BY <1>1, <1>4 DEF Operation, Free
<1>6. UNCHANGED <<assigned, phase, listed, hostPorts, restarts>>
  BY DEF TakePort, start, objects, faults
<1>7. Idle' = Idle
  BY <1>1, <1>5, <1>6 DEF Idle, InWork, Owners, Holders
<1>8. PortsInWork = op.ports /\ PortsInWork' = Append(op.ports, q)
  BY <1>1, <1>5 DEF PortsInWork
<1>9. ASSUME NEW p \in Ports
      PROVE  Count(p, PortsInWork') - Count(p, PortsInWork)
                = usage'[p] - usage[p]
  <2>1. op.ports \in Seq(Ports)
    BY <1>1 DEF Operation
  <2>2. Count(p, Append(op.ports, q))
           = Count(p, op.ports) + (IF q = p THEN 1 ELSE 0)
    BY <2>1, CountAppend
  <2>3. Count(p, op.ports) \in Nat
    BY <2>1, IndexesFinite
  <2>4. usage[p] \in Nat
        /\ usage'[p] = usage[p] + (IF q = p THEN 1 ELSE 0)
    BY <1>4 DEF CountersOK, AllPorts
  <2> QED
    BY <1>8, <2>2, <2>3, <2>4
<1>10. usage' \in [AllPorts -> Nat]
  BY DEF CountersOK
<1> QED
  BY <1>6, <1>7, <1>9, <1>10, UsageCounted

LEMMA UsageGivenBack ==
    ASSUME PortsAssumption, TypeOK, TypeOK', SearchInv, OwnersInv, UsageInv,
           DeregisterPort
    PROVE  UsageInv'
<1> USE TypeParts, TypePartsNext
<1> DEFINE q == Head(op.ports)
<1>1. op \in Operation /\ op.kind = "deregister" /\ op # Free
  BY OpIsOperation DEF DeregisterPort, Free
<1>2. op.ports \in Seq(Ports) /\ op.ports # <<>> /\ q \in Ports
  BY <1>1 DEF DeregisterPort, Operation
<1>3. op' # Free /\ op'.gs = op.gs /\ op'.ports = Tail(op.ports)
  BY <1>1 DEF DeregisterPort, Operation, Free
<1>4. UNCHANGED <<assigned, phase, listed, hostPorts, restarts>>
  BY DEF DeregisterPort, start, objects, faults
<1>5. Idle' = Idle
  BY <1>1, <1>3, <1>4 DEF Idle, InWork, Owners, Holders
<1>6. PortsInWork = op.ports /\ PortsInWork' = Tail(op.ports)
  BY <1>1, <1>3 DEF PortsInWork
<1>7. ASSUME NEW p \in Ports
      PROVE  /\ Count(p, Tail(op.ports)) \in Nat
             /\ Count(p, op.ports)
                   = Count(p, Tail(op.ports)) + (IF q = p THEN 1 ELSE 0)
  <2>1. Tail(op.ports) \in Seq(Ports)
    BY <1>2
  <2> QED
    BY <1>2, <2>1, CountTail, IndexesFinite
<1>8. usage[q] > 0
  <2>1. ListedAt(q) = {} /\ Cardinality({}) = 0
    BY <1>1, FS_EmptySet DEF SearchInv, ListedAt
  <2>2. Owed(q) <= usage[q] + Cardinality(ListedAt(q))
    BY <1>2 DEF UsageInv
  <2>3. Owed(q) = Cardinality(HeldBy(hostPorts, q, Idle)) + Count(q, op.ports)
    BY <1>2, <1>6, OwedIs
  <2>4. Count(q, op.ports) = Count(q, Tail(op.ports)) + 1
        /\ Count(q, Tail(op.ports)) \in Nat
    BY <1>2, <1>7
  <2>5. usage[q] \in Nat /\ Cardinality(HeldBy(hostPorts, q, Idle)) \in Nat
    BY <1>2, Numbers
  <2> QED
    BY <2>1, <2>2, <2>3, <2>4, <2>5
<1>9. usage' = [usage EXCEPT ![q] = @ - 1]
  BY <1>8 DEF DeregisterPort
<1>10. ASSUME NEW p \in Ports
       PROVE  Count(p, PortsInWork') - Count(p, PortsInWork)
                 = usage'[p] - usage[p]
  <2>1. usage[p] \in Nat
        /\ usage'[p] = usage[p] - (IF q = p THEN 1 ELSE 0)
    BY <1>9 DEF CountersOK, AllPorts
  <2> QED
    BY <1>6, <1>7, <2>1
<1>11. usage' \in [AllPorts -> Nat]
  BY DEF CountersOK
<1> QED
  BY <1>4, <1>5, <1>10, <1>11, UsageCounted

LEMMA UsageRestarted ==
    ASSUME PortsAssumption, TypeOK, TypeOK', Restart
    PROVE  UsageInv'
<1> USE TypeParts, TypePartsNext
<1> DEFINE Live == {h \in GameServers : phase[h] = "live"}
<1> SUFFICES ASSUME NEW p \in Ports
             PROVE  /\ Owed(p)' <= usage'[p] + Cardinality(ListedAt(p)')
                    /\ restarts' = 0 => usage'[p] <= Owed(p)'
  BY DEF UsageInv
<1>1. restarts' # 0
  BY DEF Restart, FaultsOK
<1>2. Idle' = Live /\ PortsInWork' = <<>>
  BY DEF Restart, Idle, Owners, Holders, InWork, PortsInWork, ObjectsOK
<1>3. hostPorts' = hostPorts
      /\ listed' = UNION {Claims(g) : g \in Live}
  BY DEF Restart
<1>4. ListedAt(p)' = PlacesOf(p, Live)
  BY <1>3 DEF ListedAt, PlacesOf, ClaimedPort
<1>5. Live \in SUBSET GameServers
  OBVIOUS
<1> HIDE DEF Live
<1>6. PlacesOf(p, Live) = HeldBy(hostPorts, p, Live)
  BY <1>5, PlacesAreHeld
<1>7. Owed(p)' = Cardinality(HeldBy(hostPorts, p, Live)) + Count(p, <<>>)
  BY <1>2, <1>3, OwedIsNext
<1>8. /\ Count(p, <<>>) = 0
      /\ Cardinality(HeldBy(hostPorts, p, Live)) \in Nat
  BY <1>5, CountEmpty, HeldFinite DEF OpOK
<1>9. usage'[p] = 0
  BY DEF Restart, AllPorts
<1> HIDE DEF ListedAt
<1> QED
  BY <1>1, <1>4, <1>6, <1>7, <1>8, <1>9

LEMMA UsageRegistered ==
    ASSUME PortsAssumption, TypeOK, TypeOK', OwnersInv, UsageInv,
           NEW c \in listed, Register(c)
    PROVE  UsageInv'
<1> USE TypeParts, TypePartsNext
<1> SUFFICES ASSUME NEW p \in Ports
             PROVE  /\ Owed(p)' <= usage'[p] + Cardinality(ListedAt(p)')
                    /\ restarts' = 0 => usage'[p] <= Owed(p)'
  BY DEF UsageInv
<1> DEFINE one == IF ClaimedPort(c) = p THEN 1 ELSE 0
<1>1. /\ UNCHANGED <<assigned, op, phase, hostPorts, restarts>>
      /\ listed' = listed \ {c}
      /\ usage' = [usage EXCEPT ![ClaimedPort(c)] = @ + 1]
  BY DEF Register, objects, faults
<1>2. restarts' # 0
  BY <1>1 DEF OwnersInv
<1>3. Owed(p)' = Owed(p)
  <2>1. Idle' = Idle /\ PortsInWork' = PortsInWork
    BY <1>1 DEF Idle, InWork, Owners, Holders, PortsInWork
  <2> QED
    BY <1>1, <2>1, OwedIs, OwedIsNext
<1>4. usage'[p] = usage[p] + one
  BY <1>1 DEF CountersOK, AllPorts
<1>5. Cardinality(ListedAt(p)') = Cardinality(ListedAt(p)) - one
  <2>1. ListedAt(p)' = ListedAt(p) \ {c}
    BY <1>1 DEF ListedAt, ClaimedPort
  <2>2. c \in ListedAt(p) <=> ClaimedPort(c) = p
    BY DEF ListedAt
  <2>3. IsFiniteSet(ListedAt(p)) /\ Cardinality(ListedAt(p)) \in Nat
    BY Numbers
  <2> HIDE DEF ListedAt
  <2> QED
    <3>1. Cardinality(ListedAt(p) \ {c})
             = IF c \in ListedAt(p) THEN Cardinality(ListedAt(p)) - 1
                                    ELSE Cardinality(ListedAt(p))
      BY <2>3, FS_RemoveElement
    <3> QED
      BY <2>1, <2>2, <2>3, <3>1
<1>6. Owed(p) <= usage[p] + Cardinality(ListedAt(p))
  BY DEF UsageInv
<1>7. usage[p] \in Nat /\ Cardinality(ListedAt(p)) \in Nat /\ one \in {0, 1}
  BY Numbers
<1> HIDE DEF ListedAt, one
<1> QED
  BY <1>2, <1>3, <1>4, <1>5, <1>6, <1>7

LEMMA UsageStep ==
    ASSUME PortsAssumption, TypeOK, CountInv, SearchInv, OwnersInv, UsageInv,
           [Next]_vars
    PROVE  UsageInv'
<1> USE TypeParts, TypePartsNext
<1>0. TypeOK'
  BY TypeStep
<1>1. ASSUME NEW g \in GameServers, BeginGet(g)
      PROVE  UsageInv'
  <2>1. UNCHANGED <<usage, assigned, phase, listed, hostPorts, restarts>>
    BY <1>1 DEF BeginGet, start, objects, faults
  <2>2. /\ op = Free
        /\ op' = [kind |-> "get", gs |-> g, ports |-> <<>>]
        /\ op' # Free
    BY <1>1 DEF BeginGet, Free
  <2>3. g \notin Owners
    BY <1>1 DEF BeginGet, OwnersInv, Owners, Holders
  <2>4. PortsInWork' = PortsInWork /\ Idle' = Idle
    BY <2>1, <2>2, <2>3
       DEF PortsInWork, Idle, InWork, Owners, Holders
  <2> QED
    BY <1>0, <2>1, <2>4, UsageKept
<1>2. CASE TakePort
  BY <1>0, <1>2, UsageTaken
<1>3. CASE ReturnPorts
  BY <1>0, <1>3, UsageReturned
<1>4. ASSUME NEW g \in GameServers,
             Create(g) \/ CreateFails(g) \/ Delete(g) \/ PodChanges(g)
      PROVE  UsageInv'
  <2>1. UNCHANGED <<usage, assigned, op, listed, hostPorts, restarts>>
    BY <1>4 DEF Create, CreateFails, Delete, PodChanges, registry, start,
                objects, faults
  <2>2. Owners' \subseteq Owners
    BY <1>4, <2>1 DEF Create, CreateFails, Delete, PodChanges, objects,
                      Owners, Holders, ObjectsOK
  <2>3. ASSUME restarts = 0
        PROVE  Owners' = Owners
    <3>1. \A h \in GameServers : phase[h] \in {"reserved", "live"}
                                    => assigned[h] # <<>>
      BY <2>3 DEF OwnersInv
    <3> QED
      BY <2>1, <2>2, <3>1 DEF Owners, Holders
  <2>4. /\ PortsInWork' = PortsInWork
        /\ Idle' \subseteq Idle
        /\ restarts = 0 => Idle' = Idle
    BY <2>1, <2>2, <2>3 DEF PortsInWork, Idle, InWork
  <2> QED
    BY <1>0, <2>1, <2>4, UsageKept
<1>5. ASSUME NEW g \in GameServers, BeginDeregister(g)
      PROVE  UsageInv'
  <2>1. CASE assigned[g] # <<>>
    BY <1>0, <1>5, <2>1, UsageClaimed
  <2>2. CASE assigned[g] = <<>>
    <3>1. UNCHANGED <<usage, assigned, op, phase, listed, hostPorts, restarts>>
      BY <1>5, <2>2 DEF BeginDeregister, start, objects, faults
    <3>2. PortsInWork' = PortsInWork /\ Idle' = Idle
      BY <3>1 DEF PortsInWork, Idle, InWork, Owners, Holders
    <3> QED
      BY <1>0, <3>1, <3>2, UsageKept
  <2> QED
    BY <2>1, <2>2
<1>6. CASE DeregisterPort
  BY <1>0, <1>6, UsageGivenBack
<1>7. CASE EndDeregister
  <2>1. UNCHANGED <<usage, phase, listed, hostPorts, restarts>>
    BY <1>7 DEF EndDeregister, start, objects, faults
  <2>2. /\ op # Free
        /\ op.gs \in GameServers
        /\ op.ports = <<>>
        /\ phase[op.gs] = "deleted"
    BY <1>7, OpIsOperation DEF EndDeregister, Operation, OwnersInv, Free
  <2>3. op' = Free /\ assigned' = [assigned EXCEPT ![op.gs] = <<>>]
    BY <1>7 DEF EndDeregister
  <2>4. Owners' = Owners \ {op.gs}
    BY <2>1, <2>2, <2>3 DEF Owners, Holders, OpOK
  <2>5. PortsInWork' = PortsInWork /\ Idle' = Idle
    BY <2>2, <2>3, <2>4 DEF PortsInWork, Idle, InWork
  <2> QED
    BY <1>0, <2>1, <2>5, UsageKept
<1>8. CASE Restart
  BY <1>0, <1>8, UsageRestarted
<1>9. ASSUME NEW c \in listed, Register(c)
      PROVE  UsageInv'
  BY <1>0, <1>9, UsageRegistered
<1>10. CASE UNCHANGED <<usage, assigned, op, listed, objects, restarts>>
  <2>1. UNCHANGED <<usage, listed, hostPorts, restarts>>
    BY <1>10 DEF objects
  <2>2. PortsInWork' = PortsInWork /\ Idle' = Idle
    BY <1>10 DEF objects, PortsInWork, Idle, InWork, Owners, Holders
  <2> QED
    BY <1>0, <2>1, <2>2, UsageKept
<1> QED
  BY <1>1, <1>2, <1>3, <1>4, <1>5, <1>6, <1>7, <1>8, <1>9, <1>10
     DEF Next, Holding, vars, registry, start, faults, NodeChanges, Relabel,
         ReadNodes, OnNodeAdded, OnNodeRemoved, StartManager

LEMMA UsageInit ==
    ASSUME PortsAssumption, Init
    PROVE  SearchInv /\ OwnersInv /\ UsageInv
<1>1. SearchInv
  BY DEF Init, SearchInv, Free
<1>2. OwnersInv
  BY FS_EmptySet DEF Init, OwnersInv, Free
<1>3. ASSUME NEW p \in Ports
      PROVE  /\ Owed(p) <= usage[p] + Cardinality(ListedAt(p))
             /\ usage[p] <= Owed(p)
  <2>1. PlacesOf(p, Idle) = {}
    BY DEF Init, PlacesOf, Idle, Owners, Holders
  <2>2. PortsInWork = <<>>
    BY DEF Init, PortsInWork
  <2>3. Cardinality({}) = 0 /\ Count(p, <<>>) = 0
    BY FS_EmptySet, CountEmpty
  <2>4. Owed(p) = 0
    <3>1. Owed(p) = Cardinality({}) + Count(p, <<>>)
      BY <2>1, <2>2 DEF Owed
    <3> QED
      BY <2>3, <3>1
  <2>5. ListedAt(p) = {}
    BY DEF Init, ListedAt
  <2>6. usage[p] = 0
    BY DEF Init, AllPorts
  <2> HIDE DEF ListedAt
  <2> QED
    BY <2>3, <2>4, <2>5, <2>6
<1> QED
  BY <1>1, <1>2, <1>3 DEF UsageInv

LEMMA UsageInvariants ==
    Spec => [](TypeOK /\ SearchInv /\ OwnersInv /\ UsageInv)
<1>1. Init => SearchInv /\ OwnersInv /\ UsageInv
  BY PortsAssumption, UsageInit
<1>2. /\ TypeOK /\ CountInv /\ SearchInv /\ OwnersInv /\ UsageInv
      /\ [Next]_vars
      => SearchInv' /\ OwnersInv' /\ UsageInv'
  BY PortsAssumption, TypeParts, SearchStep, OwnersStep, UsageStep
<1> QED
  BY <1>1, <1>2, Invariants, PTL DEF Spec

(* UsageCoversServers, as soon as the ports of the listed GameServers are  *)
(* registered.                                                             *)
Covered ==
    listed = {} =>
        \A p \in Ports : Cardinality(PlacesOf(p, Holders)) <= usage[p]

LEMMA CoveredFollows ==
    ASSUME PortsAssumption, TypeOK, OwnersInv, UsageInv
    PROVE  Covered
<1> USE TypeParts
<1> SUFFICES ASSUME listed = {}, NEW p \in Ports
             PROVE  Cardinality(PlacesOf(p, Holders)) <= usage[p]
  BY DEF Covered
<1>1. Holders \subseteq Idle
  <2>1. op \in {Free} \cup Operation
    BY DEF OpOK
  <2>2. op # Free => op.gs \notin Holders
    BY <2>1 DEF Operation, OwnersInv, Holders
  <2> QED
    BY <2>2 DEF Idle, InWork, Owners
<1>2. Idle \in SUBSET GameServers /\ Holders \in SUBSET GameServers
  BY DEF Idle, Owners, Holders
<1>3. PlacesOf(p, Holders) = HeldBy(hostPorts, p, Holders)
  BY <1>2, PlacesAreHeld
<1>4. Cardinality(HeldBy(hostPorts, p, Holders))
         <= Cardinality(HeldBy(hostPorts, p, Idle))
  BY <1>1, <1>2, HeldFewer DEF OpOK
<1>5. Cardinality(HeldBy(hostPorts, p, Holders)) \in Nat
  BY <1>2, HeldFinite DEF OpOK
<1>6. ListedAt(p) = {} /\ Cardinality({}) = 0
  BY FS_EmptySet DEF ListedAt
<1>7. Owed(p) <= usage[p] + Cardinality(ListedAt(p))
  BY DEF UsageInv
<1> HIDE DEF ListedAt
<1> QED
  BY <1>3, <1>4, <1>5, <1>6, <1>7, OwedIs, Numbers

(* The ports of the GameServers that exist are counted as used: nobody     *)
(* gives back a port that another GameServer still has, in whatever order  *)
(* servers are created and deleted, creations fail and the operator stops. *)
THEOREM CoverCorrect == Spec => []UsageCoversServers
<1>1. TypeOK /\ SearchInv /\ OwnersInv /\ UsageInv => UsageCoversServers
  BY PortsAssumption, CoveredFollows DEF Covered, SearchInv, UsageCoversServers
<1> QED
  BY <1>1, UsageInvariants, PTL

LEMMA OwnedFollows ==
    ASSUME PortsAssumption, TypeOK, OwnersInv, UsageInv
    PROVE  UsageIsOwned
<1> USE TypeParts
<1> DEFINE Known == Holders \cup
              {g \in GameServers : \/ phase[g] = "deleted"
                                      /\ assigned[g] # <<>>
                                   \/ phase[g] = "refused"}
<1> SUFFICES ASSUME op = Free, restarts = 0, NEW p \in Ports
             PROVE  usage[p] <= Cardinality(PlacesOf(p, Known))
  BY DEF UsageIsOwned
<1>1. Idle = Owners /\ PortsInWork = <<>>
  BY DEF Idle, InWork, PortsInWork
<1>2. Owners \subseteq Known
  BY DEF Owners, Holders, OwnersInv, ObjectsOK, Phases
<1>3. Known \in SUBSET GameServers
  BY DEF Holders
<1> HIDE DEF Known
<1>4. PlacesOf(p, Known) = HeldBy(hostPorts, p, Known)
  BY <1>3, PlacesAreHeld
<1>5. Cardinality(HeldBy(hostPorts, p, Owners))
         <= Cardinality(HeldBy(hostPorts, p, Known))
  BY <1>2, <1>3, HeldFewer DEF OpOK
<1>6. Cardinality(HeldBy(hostPorts, p, Known)) \in Nat
  BY <1>3, HeldFinite DEF OpOK
<1>7. usage[p] <= Owed(p)
  BY DEF UsageInv
<1>8. Count(p, <<>>) = 0
  BY CountEmpty
<1> QED
  BY <1>1, <1>4, <1>5, <1>6, <1>7, <1>8, OwedIs, Numbers

(* Until the operator restarts, no port is counted as used without an      *)
(* owner, but for those of a creation that failed.                         *)
THEOREM OwnedCorrect == Spec => []UsageIsOwned
<1>1. TypeOK /\ OwnersInv /\ UsageInv => UsageIsOwned
  BY PortsAssumption, OwnedFollows
<1> QED
  BY <1>1, UsageInvariants, PTL

-----------------------------------------------------------------------------
(* The pool that the registry implements                                   *)

(* The ports that a search has taken are within the limit until they are   *)
(* returned: the mutex keeps the count of Nodes from moving meanwhile.     *)
TakenInv ==
    op.kind = "get" =>
        \A i \in 1 .. Len(op.ports) : usage[op.ports[i]] <= nodeCount

LEMMA TakenStep ==
    ASSUME PortsAssumption, CountersOK, OpOK, SearchInv, TakenInv, [Next]_vars
    PROVE  TakenInv'
<1>1. ASSUME NEW g \in GameServers, BeginGet(g)
      PROVE  TakenInv'
  BY <1>1 DEF BeginGet, TakenInv
<1>2. CASE TakePort
  <2>1. /\ op \in Operation /\ op.kind = "get"
        /\ op.ports \in Seq(Ports) /\ nodeCount' = nodeCount
    BY <1>2, OpIsOperation DEF TakePort, Operation
  <2>2. CASE op' = Free
    BY <2>2 DEF TakenInv, Free
  <2>3. ASSUME NEW p \in Ports, Available(p),
               usage' = [usage EXCEPT ![p] = @ + 1],
               op' = [op EXCEPT !.ports = Append(@, p)]
        PROVE  TakenInv'
    <3> DEFINE s == op.ports
               t == op'.ports
    <3>1. /\ s \in Seq(Ports) /\ t = Append(s, p)
      BY <2>1, <2>3 DEF Operation
    <3>2. /\ \A i \in 1 .. Len(s) : t[i] = s[i] /\ s[i] \in Ports
          /\ t[Len(s) + 1] = p
          /\ Len(t) = Len(s) + 1 /\ Len(s) \in Nat
      <4> HIDE DEF s, t
      <4> QED
        BY <3>1
    <3>3. \A q \in Ports : /\ usage[q] \in Nat
                           /\ usage'[q] = usage[q] + (IF q = p THEN 1 ELSE 0)
      BY <2>3 DEF CountersOK, AllPorts
    <3>4. usage[p] < nodeCount /\ nodeCount \in Nat
      BY <2>3 DEF Available, CountersOK
    <3>5. \A i \in 1 .. Len(s) : usage[s[i]] <= nodeCount
      BY <2>1 DEF TakenInv
    <3> HIDE DEF s, t
    <3>6. ASSUME NEW i \in 1 .. Len(t)
          PROVE  usage'[t[i]] <= nodeCount
      <4>1. CASE i \in 1 .. Len(s)
        <5> DEFINE q == s[i]
        <5>1. q \in Ports /\ usage[q] <= nodeCount /\ t[i] = q
          BY <3>2, <3>5, <4>1
        <5> HIDE DEF q
        <5>2. usage'[q] <= nodeCount
          BY <3>3, <3>4, <5>1
        <5> QED
          BY <5>1, <5>2
      <4>2. CASE i = Len(s) + 1
        BY <3>2, <3>3, <3>4, <4>2
      <4> QED
        BY <3>2, <4>1, <4>2
    <3> QED
      BY <2>1, <3>6 DEF TakenInv, t
  <2> QED
    BY <1>2, <2>2, <2>3 DEF TakePort
<1>3. CASE ReturnPorts \/ EndDeregister \/ Restart
  BY <1>3 DEF ReturnPorts, EndDeregister, Restart, TakenInv, Free
<1>4. ASSUME NEW g \in GameServers, BeginDeregister(g)
      PROVE  TakenInv'
  <2>1. op'.kind # "get"
    BY <1>4 DEF BeginDeregister, Free
  <2> QED
    BY <2>1 DEF TakenInv
<1>5. CASE DeregisterPort
  <2>1. op'.kind = "deregister"
    BY <1>5, OpIsOperation DEF DeregisterPort, Operation
  <2> QED
    BY <2>1 DEF TakenInv
<1>6. CASE OnNodeAdded \/ OnNodeRemoved
  BY <1>6 DEF OnNodeAdded, OnNodeRemoved, TakenInv, Free
<1>7. ASSUME NEW c \in listed, Register(c)
      PROVE  TakenInv'
  <2>1. op' = Free
    BY <1>7 DEF Register, SearchInv
  <2> QED
    BY <2>1 DEF TakenInv, Free
<1>8. CASE UNCHANGED <<op, usage, nodeCount>>
  BY <1>8 DEF TakenInv
<1> QED
  BY <1>1, <1>2, <1>3, <1>4, <1>5, <1>6, <1>7, <1>8
     DEF Next, Holding, vars, registry, Create, CreateFails, Delete,
         PodChanges, NodeChanges, Relabel, ReadNodes, StartManager

(* Where the pool lends a port is where the GameServers have it in their   *)
(* specs.                                                                  *)
LEMMA PlacesAreLent ==
    ASSUME PortsAssumption, OpOK', NEW p \in Ports
    PROVE  Pool!Places(p)' = PlacesOf(p, Holders)'
<1> DEFINE P == Pool!Places(p)'
           H == HeldBy(hostPorts', p, Holders')
<1>1. /\ Holders' \in SUBSET GameServers
      /\ hostPorts' \in [GameServers -> Seq(Ports)]
  BY DEF Holders, OpOK
<1>2. \A g \in GameServers :
         /\ g \in Holders' => Lent'[g] = hostPorts'[g]
         /\ g \notin Holders' => Lent'[g] = <<>>
  BY DEF Lent
<1>3. \A g \in GameServers :
         DOMAIN Lent'[g] = IF g \in Holders' THEN 1 .. Len(hostPorts'[g]) ELSE {}
  BY <1>1, <1>2
<1>4. \A g \in GameServers : Len(hostPorts'[g]) \in Nat
  BY <1>1
<1>5. ASSUME NEW g \in GameServers, NEW i
      PROVE  <<g, i>> \in P <=> <<g, i>> \in H
  BY <1>1, <1>2, <1>3, <1>4, <1>5 DEF Pool!Places, HeldBy
<1>6. \A c \in P : \E g \in GameServers : \E i : c = <<g, i>>
  BY DEF Pool!Places
<1>7. \A c \in H : \E g \in GameServers : \E i : c = <<g, i>>
  BY <1>1 DEF HeldBy
<1>8. P = H
  <2> HIDE DEF P, H
  <2> QED
    BY <1>5, <1>6, <1>7
<1>9. PlacesOf(p, Holders)' = H
  <2>1. \A W \in SUBSET GameServers :
           PlacesOf(p, W)' = HeldBy(hostPorts', p, W)
    BY PlacesAreHeldNext
  <2> QED
    BY <1>1, <2>1 DEF PlacesOf
<1> QED
  BY <1>8, <1>9

PoolStep == [Pool!Next]_<<Lent, nodeCount>>

LEMMA QuietPool ==
    ASSUME UNCHANGED <<phase, hostPorts, nodeCount>>
    PROVE  PoolStep
<1>1. UNCHANGED <<Lent, nodeCount>>
  BY DEF Lent, Holders
<1> QED
  BY <1>1 DEF PoolStep

(* All ports of a search are lent at once when it ends.                    *)
LEMMA ReturnLends ==
    ASSUME PortsAssumption, TypeOK, OpOK', SearchInv, OwnersInv, TakenInv,
           Covered', ReturnPorts
    PROVE  PoolStep
<1> USE TypeParts
<1>1. op \in Operation /\ op # Free /\ op.kind = "get"
  BY OpIsOperation DEF ReturnPorts, Free
<1>2. PICK g \in GameServers : op.gs = g
  BY <1>1 DEF Operation
<1>3. PICK ports \in Seq(Ports) : op.ports = ports
  BY <1>1 DEF Operation
<1>4. Len(ports) = PortsOf[g] /\ ports \in [1 .. PortsOf[g] -> Ports]
  BY <1>2, <1>3 DEF ReturnPorts
<1>5. Lent[g] = <<>>
  BY <1>1, <1>2 DEF OwnersInv, Lent, Holders
<1>6. /\ phase' = [phase EXCEPT ![g] = "reserved"]
      /\ hostPorts' = [hostPorts EXCEPT ![g] = ports]
      /\ UNCHANGED <<usage, nodeCount, listed>>
  BY <1>2, <1>3 DEF ReturnPorts, start
<1>7. Lent' = [Lent EXCEPT ![g] = ports]
  BY <1>6 DEF Lent, Holders, OpOK, ObjectsOK
<1>8. ASSUME NEW p \in Ports, usage[p] <= nodeCount
      PROVE  Cardinality(Pool!Places(p)') <= nodeCount
  <2>1. listed' = {}
    BY <1>1, <1>6 DEF SearchInv
  <2>2. Cardinality(PlacesOf(p, Holders)') <= usage[p]
    BY <1>6, <2>1 DEF Covered
  <2>3. Pool!Places(p)' = PlacesOf(p, Holders)'
    BY PlacesAreLent
  <2>4. Cardinality(PlacesOf(p, Holders)') \in Nat
    <3>1. \A W \in SUBSET GameServers :
             PlacesOf(p, W)' = HeldBy(hostPorts', p, W)
      BY PlacesAreHeldNext
    <3>2. Holders' \in SUBSET GameServers
      BY DEF Holders
    <3>3. PlacesOf(p, Holders)' = HeldBy(hostPorts', p, Holders')
      BY <3>1, <3>2 DEF PlacesOf
    <3> QED
      BY <3>2, <3>3, HeldFinite DEF OpOK
  <2>5. usage[p] \in Nat /\ nodeCount \in Nat
    BY DEF CountersOK, AllPorts
  <2> QED
    BY <1>8, <2>2, <2>3, <2>4, <2>5
<1>9. \A i \in 1 .. PortsOf[g] :
         ports[i] \in Ports /\ usage[ports[i]] <= nodeCount
  BY <1>1, <1>3, <1>4 DEF TakenInv
<1>10. \A i \in 1 .. PortsOf[g] :
          Cardinality(Pool!Places(ports[i])') <= nodeCount
  BY <1>8, <1>9
<1>11. Pool!Lend(g)
  BY <1>4, <1>5, <1>6, <1>7, <1>10
     DEF Pool!Lend, Pool!Cardinality, Cardinality
<1> QED
  BY <1>11 DEF PoolStep, Pool!Next

(* A GameServer that is deleted or refused is lent nothing any more.       *)
LEMMA EndReturns ==
    ASSUME TypeOK, NEW g \in GameServers, phase[g] \in {"reserved", "live"},
           NEW ph \in {"deleted", "refused"},
           phase' = [phase EXCEPT ![g] = ph],
           UNCHANGED <<hostPorts, nodeCount>>
    PROVE  PoolStep
<1> USE TypeParts
<1>1. Lent' = [Lent EXCEPT ![g] = <<>>]
  BY DEF Lent, Holders, ObjectsOK
<1>2. CASE Lent[g] = <<>>
  <2>1. Lent' = Lent
    BY <1>1, <1>2 DEF Lent
  <2> QED
    BY <2>1 DEF PoolStep
<1>3. CASE Lent[g] # <<>>
  <2>1. Pool!Return(g)
    BY <1>1, <1>3 DEF Pool!Return
  <2> QED
    BY <2>1 DEF PoolStep, Pool!Next
<1> QED
  BY <1>2, <1>3

LEMMA RestartForgets ==
    ASSUME PortsAssumption, TypeOK, Restart
    PROVE  PoolStep
<1> USE TypeParts
<1> DEFINE lost == {g \in GameServers : phase[g] = "reserved"}
<1>1. nodeCount' \in Nat
  BY CountIsNat DEF Restart
<1>2. Lent' = [g \in GameServers |-> IF g \in lost THEN <<>> ELSE Lent[g]]
  BY DEF Restart, Lent, Holders, ObjectsOK
<1>3. Pool!Restart
  BY <1>1, <1>2 DEF Pool!Restart
<1> QED
  BY <1>3 DEF PoolStep, Pool!Next

LEMMA NodesResize ==
    ASSUME PortsAssumption, TypeOK, OnNodeAdded \/ OnNodeRemoved
    PROVE  PoolStep
<1> USE TypeParts
<1>1. nodeCount' \in {nodeCount + 1, nodeCount - 1} \cap Nat
  BY DEF OnNodeAdded, OnNodeRemoved, CountersOK, NodesOK
<1>2. Lent' = Lent
  BY DEF OnNodeAdded, OnNodeRemoved, objects, Lent, Holders
<1>3. Pool!Resize
  BY <1>1, <1>2 DEF Pool!Resize
<1> QED
  BY <1>3 DEF PoolStep, Pool!Next

LEMMA PoolStepTaken ==
    ASSUME PortsAssumption, TypeOK, OpOK', SearchInv, OwnersInv, TakenInv,
           Covered', [Next]_vars
    PROVE  PoolStep
<1>1. CASE ReturnPorts
  BY <1>1, ReturnLends
<1>2. ASSUME NEW g \in GameServers, Delete(g) \/ CreateFails(g)
      PROVE  PoolStep
  BY <1>2, EndReturns DEF Delete, CreateFails, registry
<1>3. ASSUME NEW g \in GameServers, Create(g)
      PROVE  PoolStep
  <2>1. UNCHANGED <<hostPorts, nodeCount>>
    BY <1>3 DEF Create, registry
  <2>2. Holders' = Holders
    BY <1>3, TypeParts DEF Create, Holders, ObjectsOK
  <2> QED
    BY <2>1, <2>2 DEF PoolStep, Lent
<1>4. CASE Restart
  BY <1>4, RestartForgets
<1>5. CASE OnNodeAdded \/ OnNodeRemoved
  BY <1>5, NodesResize
<1>6. CASE UNCHANGED <<phase, hostPorts, nodeCount>>
  BY <1>6, QuietPool
<1> QED
  BY <1>1, <1>2, <1>3, <1>4, <1>5, <1>6
     DEF Next, Holding, vars, registry, objects, BeginGet, TakePort,
         PodChanges, BeginDeregister, DeregisterPort, EndDeregister,
         NodeChanges, Relabel, ReadNodes, Register, StartManager

LEMMA PoolInit ==
    ASSUME PortsAssumption, Init
    PROVE  Pool!Init
<1>1. Holders = {}
  BY DEF Init, Holders
<1>2. Lent = [g \in GameServers |-> <<>>]
  BY <1>1 DEF Lent
<1>3. nodeCount \in Nat
  BY CountIsNat DEF Init
<1> QED
  BY <1>2, <1>3 DEF Pool!Init

(* The mutex, the search port by port, the counters, the Node reconciler,  *)
(* late deregistration and the start of the operator implement the pool,   *)
(* for any number of ports, Nodes, GameServers and faults.                 *)
THEOREM PoolCorrect == Spec => ImplementsPool
<1>1. Init => TakenInv /\ Pool!Init
  <2>1. Init => TakenInv
    BY DEF Init, TakenInv, Free
  <2> QED
    BY <2>1, PortsAssumption, PoolInit
<1>2. TypeOK /\ SearchInv /\ TakenInv /\ [Next]_vars => TakenInv'
  BY PortsAssumption, TakenStep, TypeParts
<1>3. TypeOK /\ SearchInv /\ OwnersInv /\ UsageInv => Covered
  BY PortsAssumption, CoveredFollows
<1>4. /\ TypeOK /\ TypeOK' /\ SearchInv /\ OwnersInv /\ TakenInv
      /\ Covered' /\ [Next]_vars
      => [Pool!Next]_<<Lent, nodeCount>>
  <2>1. TypeOK' => OpOK'
    BY DEF TypeOK, OpOK, Operation
  <2> QED
    BY <2>1, PortsAssumption, PoolStepTaken DEF PoolStep
<1>5. Pool!vars = <<Lent, nodeCount>>
  BY DEF Pool!vars
<1> QED
  BY <1>1, <1>2, <1>3, <1>4, UsageInvariants, PTL
     DEF Spec, ImplementsPool, Pool!Spec, Pool!vars

-----------------------------------------------------------------------------
(* What is due is asked for                                                *)

LEMMA ReturnStep ==
    ASSUME TypeOK, ReturnIsDue, [Next]_vars
    PROVE  ReturnIsDue'
<1> USE TypeParts
<1>1. ASSUME NEW g \in GameServers, BeginGet(g)
      PROVE  ReturnIsDue'
  BY <1>1 DEF BeginGet, objects, ReturnIsDue, Free
<1>2. CASE TakePort
  <2>1. op \in Operation /\ op.kind = "get"
    BY <1>2, OpIsOperation DEF TakePort
  <2> QED
    BY <1>2, <2>1 DEF TakePort, objects, ReturnIsDue
<1>3. CASE ReturnPorts
  <2>1. op \in Operation /\ op.kind = "get" /\ op.gs \in GameServers
    BY <1>3, OpIsOperation DEF ReturnPorts, Operation
  <2> QED
    BY <1>3, <2>1 DEF ReturnPorts, ReturnIsDue, OpOK, ObjectsOK
<1>4. CASE DeregisterPort
  <2>1. op \in Operation /\ op'.kind = op.kind /\ op'.gs = op.gs
    BY <1>4, OpIsOperation DEF DeregisterPort, Operation
  <2> QED
    BY <1>4, <2>1 DEF DeregisterPort, objects, ReturnIsDue
<1>5. CASE EndDeregister
  <2>1. op \in Operation /\ op.gs \in GameServers
    BY <1>5, OpIsOperation DEF EndDeregister, Operation
  <2> QED
    BY <1>5, <2>1 DEF EndDeregister, objects, ReturnIsDue, OpOK
<1>6. ASSUME NEW g \in GameServers, BeginDeregister(g)
      PROVE  ReturnIsDue'
  BY <1>6 DEF BeginDeregister, objects, ReturnIsDue, Free
<1>7. ASSUME NEW g \in GameServers,
             Create(g) \/ CreateFails(g) \/ Delete(g) \/ PodChanges(g)
      PROVE  ReturnIsDue'
  BY <1>7 DEF Create, CreateFails, Delete, PodChanges, registry, objects,
              ReturnIsDue, ObjectsOK
<1>8. CASE Restart
  BY <1>8 DEF Restart, ReturnIsDue
<1>9. CASE UNCHANGED <<phase, assigned, op, pending>>
  BY <1>9 DEF ReturnIsDue
<1> QED
  BY <1>1, <1>2, <1>3, <1>4, <1>5, <1>6, <1>7, <1>8, <1>9
     DEF Next, Holding, vars, registry, objects, NodeChanges, Relabel,
         ReadNodes, OnNodeAdded, OnNodeRemoved, Register, StartManager

(* No notice of a deletion is lost between the events, the workers and the *)
(* mutex: as long as the registry remembers a deleted GameServer, somebody *)
(* is going to return its ports.                                           *)
THEOREM ReturnCorrect == Spec => []ReturnIsDue
<1>1. Init => ReturnIsDue
  BY DEF Init, ReturnIsDue
<1>2. TypeOK /\ ReturnIsDue /\ [Next]_vars => ReturnIsDue'
  BY ReturnStep
<1> QED
  BY <1>1, <1>2, TypeCorrect, PTL DEF Spec

(* With RecountIsDue alone a start could begin with any number.            *)
RecountInv ==
    /\ RecountIsDue
    /\ ~running /\ ~Exclusive => target = 0

LEMMA RecountStep ==
    ASSUME TypeOK, RecountInv, [Next]_vars
    PROVE  RecountInv'
<1> USE TypeParts
<1> SUFFICES ASSUME ~Exclusive PROVE RecountInv'
  BY DEF RecountInv, RecountIsDue
<1>1. ASSUME NEW n \in Nodes, NodeChanges(n)
      PROVE  RecountInv'
  <2>1. UNCHANGED <<running, target>>
    BY <1>1 DEF NodeChanges, start
  <2>2. CASE ~running
    BY <2>1, <2>2 DEF RecountInv, RecountIsDue
  <2>3. CASE running /\ ~nodeEvent'
    <3>1. PICK s \in Statuses, l \in Labels :
             /\ node' = [node EXCEPT ![n] = [status |-> s, labelled |-> l]]
             /\ nodeEvent' = \/ nodeEvent
                             \/ running /\ Noticed(node[n].status, s, l)
      BY <1>1 DEF NodeChanges
    <3>2. ~nodeEvent /\ ~Noticed(node[n].status, s, l)
      BY <2>3, <3>1
    <3>3. node[n].status = "absent" /\ s # "ready"
      BY <3>2 DEF Noticed
    <3>4. \A m \in Nodes : Schedulable(m)' <=> Schedulable(m)
      BY <3>1, <3>3 DEF Schedulable, NodesOK
    <3>5. SchedulableCount' = SchedulableCount
      BY <3>4 DEF SchedulableCount
    <3> QED
      BY <2>1, <2>3, <3>2, <3>5 DEF RecountInv, RecountIsDue
  <2>4. CASE running /\ nodeEvent'
    BY <2>1, <2>4 DEF RecountInv, RecountIsDue
  <2> QED
    BY <2>2, <2>3, <2>4
<1>2. ASSUME NEW n \in Nodes, Relabel(n)
      PROVE  RecountInv'
  <2>1. \A m \in Nodes : Schedulable(m)' <=> Schedulable(m)
    BY <1>2 DEF Relabel, Schedulable, NodesOK
  <2>2. SchedulableCount' = SchedulableCount
    BY <2>1 DEF SchedulableCount
  <2> QED
    BY <1>2, <2>2 DEF Relabel, start, RecountInv, RecountIsDue
<1>3. CASE ReadNodes
  <2>1. SchedulableCount' = SchedulableCount
    BY <1>3 DEF ReadNodes, SchedulableCount, Schedulable
  <2> QED
    BY <1>3, <2>1 DEF ReadNodes, start, RecountInv, RecountIsDue
<1>4. CASE StartManager
  <2>1. CASE nodeEvent'
    BY <1>4, <2>1 DEF StartManager, RecountInv, RecountIsDue
  <2>2. CASE ~nodeEvent'
    <3>1. {n \in Nodes : Schedulable(n)} = {}
      BY <1>4, <2>2 DEF StartManager
    <3>2. SchedulableCount = 0
      BY <3>1, FS_EmptySet DEF SchedulableCount
    <3>3. SchedulableCount' = SchedulableCount
      BY <1>4 DEF StartManager, SchedulableCount, Schedulable
    <3> QED
      BY <1>4, <3>2, <3>3 DEF StartManager, RecountInv, RecountIsDue
  <2> QED
    BY <2>1, <2>2
<1>5. CASE Restart
  BY <1>5 DEF Restart, InitialNodeCount, RecountInv, RecountIsDue
<1>6. CASE UNCHANGED <<running, target, nodeEvent, node>>
  <2>1. SchedulableCount' = SchedulableCount
    BY <1>6 DEF SchedulableCount, Schedulable
  <2> QED
    BY <1>6, <2>1 DEF RecountInv, RecountIsDue
<1> QED
  BY <1>1, <1>2, <1>3, <1>4, <1>5, <1>6
     DEF Next, Holding, vars, start, nodeWork, BeginGet, TakePort,
         ReturnPorts, Create, CreateFails, Delete, PodChanges,
         BeginDeregister, DeregisterPort, EndDeregister, OnNodeAdded,
         OnNodeRemoved, Register

(* The event filter hides no change of the number of Nodes from a registry *)
(* that looks at all of them.                                              *)
THEOREM RecountCorrect == Spec => []RecountIsDue
<1>1. Init => RecountInv
  BY DEF Init, InitialNodeCount, RecountInv, RecountIsDue
<1>2. TypeOK /\ RecountInv /\ [Next]_vars => RecountInv'
  BY RecountStep
<1>3. RecountInv => RecountIsDue
  BY DEF RecountInv
<1> QED
  BY <1>1, <1>2, <1>3, TypeCorrect, PTL DEF Spec

=============================================================================
