-------------------------- MODULE GameServerController -----------------------
(***************************************************************************)
(* The GameServerReconciler (pkg/operator/controllers/                     *)
(* gameserver_controller.go) for one GameServer: it creates the Pod,       *)
(* records the exit of its process, tells the cluster autoscaler whether   *)
(* the Pod may be evicted, writes the address of the Pod's Node into the   *)
(* GameServer and labels it, so that the NodeAgent of that Node looks      *)
(* after it.                                                               *)
(*                                                                         *)
(* The reconciler reads its caches, which lag behind the API server, and   *)
(* writes with patches that carry no precondition.  Reconciliations of the *)
(* same name never overlap.                                                *)
(***************************************************************************)
EXTENDS Integers, FiniteSets

CONSTANTS
    Nodes,          \* where the Pod may be scheduled
    NoNode,         \* the empty name, also the empty PublicIP
    MaxLateReports, \* bound: heartbeats that arrive after the exit
    MaxEvictions,   \* bound: Pods that are deleted, the GameServer is not
    MaxRefused,     \* bound: requests that the API server refuses
    MaxLost,        \* bound: requests carried out, the reply lost
    MaxRestarts     \* bound: restarts of the operator

ASSUME ControllerAssumption ==
    /\ IsFiniteSet(Nodes) /\ Nodes # {} /\ NoNode \notin Nodes
    /\ \A bound \in {MaxLateReports, MaxEvictions, MaxRefused, MaxLost,
                     MaxRestarts} : bound \in Nat

VARIABLES
    gs, pod,                \* the objects in the API server
    cachedGs, cachedPod,    \* what the caches of the operator show
    unseen,                 \* objects with changes not delivered to them
    podUnderCreation,       \* whether podsUnderCreation has the name
    ports,                  \* what the PortRegistry has for the name
    queued,                 \* whether the name waits to be reconciled
    pc,                     \* what the reconciliation does next
    myGs, myPod,            \* the objects it has read
    faults                  \* how often the bounded events have happened

objects == <<gs, pod>>
caches  == <<cachedGs, cachedPod>>
mine    == <<myGs, myPod>>
vars    == <<objects, caches, unseen, podUnderCreation, ports, queued, pc, mine,
             faults>>

Finished == {"GameCompleted", "Crashed"}

(* address stands for PublicIP, Ports, NodeAge and NodeName of the status; *)
(* label has the value of the label NodeName once there is one.            *)
NewGs  == [state |-> "", address |-> NoNode, label |-> {}]
NoGs   == [NewGs EXCEPT !.state = "none"]

(* exit is how the process ended; safe the annotation safe-to-evict.       *)
NewPod == [node |-> NoNode, exit |-> "running", safe |-> "unset"]
NoPod  == [NewPod EXCEPT !.exit = "none"]

Init ==
    /\ gs = NewGs
    /\ pod = NoPod
    /\ cachedGs = NewGs
    /\ cachedPod = NoPod
    /\ unseen = {}
    /\ podUnderCreation = FALSE
    /\ ports = "registered"
    /\ queued = TRUE
    /\ pc = "idle"
    /\ myGs = NoGs
    /\ myPod = NoPod
    /\ faults = [late |-> 0, evictions |-> 0, refused |-> 0, lost |-> 0,
                 restarts |-> 0]

Happens(kind, bound) ==
    /\ faults[kind] < bound
    /\ faults' = [faults EXCEPT ![kind] = @ + 1]

(* The API server notifies the caches of every change, even of one that    *)
(* another one undoes.                                                     *)
Notify == unseen' = unseen \cup {o \in {"gs", "pod"} : \/ o = "gs" /\ gs' # gs
                                                       \/ o = "pod" /\ pod' # pod}

-----------------------------------------------------------------------------
(* Reconcile                                                               *)

Done == pc' = "idle" /\ UNCHANGED queued

(* An error: the name is put into the queue again.                         *)
Failed == pc' = "idle" /\ queued' = TRUE

(* Variant of Annotation: whatever is not Active may be evicted.           *)
AnnotationUnlessActive(g, p) ==
    CASE g.state # "Active" /\ p.safe # "true"  -> "true"
      [] g.state = "Active" /\ p.safe # "false" -> "false"
      [] OTHER                                  -> "keep"

(* Variant of Annotation: what has been written stays.                     *)
AnnotationOnce(g, p) ==
    CASE g.state \in {"Initializing", "StandingBy"} /\ p.safe = "unset" -> "true"
      [] g.state = "Active" /\ p.safe = "unset"                        -> "false"
      [] OTHER                                                         -> "keep"

(* What addSafeToEvictAnnotationIfNecessary writes, if anything.           *)
Annotation(g, p) ==
    CASE g.state \in {"Initializing", "StandingBy"} /\ p.safe = "unset" -> "true"
      [] g.state = "Active" /\ p.safe # "false"                        -> "false"
      [] OTHER                                                         -> "keep"

(* Where a reconciliation goes after the annotation has been looked at.    *)
AfterAnnotation(g, p) ==
    CASE g.address = NoNode /\ p.node = NoNode -> "idle"
      [] g.address = NoNode /\ p.node # NoNode -> "address"
      [] g.address # NoNode /\ g.label = {}    -> "label"
      [] OTHER                                 -> "idle"

NextStep(g, p) ==
    IF p.exit # "running" THEN "exit"
    ELSE IF Annotation(g, p) # "keep" THEN "annotate" ELSE AfterAnnotation(g, p)

(* The Pod has been created, and the cache does not show it yet.           *)
Awaited == cachedPod = NoPod /\ podUnderCreation

(* DeregisterPorts; it does not find ports that a restart has only counted.*)
Deregistered == IF ports = "registered" THEN "none" ELSE ports

(* The objects are read.  Without the GameServer its ports are returned.   *)
Begin ==
    /\ pc = "idle"
    /\ queued
    /\ queued' = FALSE
    /\ myGs' = cachedGs
    /\ myPod' = cachedPod
    /\ \/ /\ cachedGs = NoGs
          /\ ports' = Deregistered
          /\ UNCHANGED <<pc, podUnderCreation>>
       \/ /\ cachedGs # NoGs
          /\ Awaited
          /\ UNCHANGED <<pc, podUnderCreation, ports>>
       \/ /\ cachedGs # NoGs
          /\ cachedPod = NoPod
          /\ ~ Awaited
          /\ pc' = "create"
          /\ UNCHANGED <<podUnderCreation, ports>>
       \/ /\ cachedGs # NoGs
          /\ cachedPod # NoPod
          /\ podUnderCreation' = FALSE
          /\ pc' = NextStep(cachedGs, cachedPod)
          /\ UNCHANGED ports
    /\ UNCHANGED <<objects, caches, faults>>
    /\ Notify

(* The Pod has the name of the GameServer: there is never a second one.    *)
CreatePod ==
    /\ pc = "create"
    /\ pod = NoPod
    /\ pod' = NewPod
    /\ podUnderCreation' = TRUE
    /\ Done
    /\ UNCHANGED <<gs, caches, ports, mine, faults>>
    /\ Notify

(* Variant of CreatePodFails: the Pod counts as under creation.            *)
CreatePodFailsAwaited ==
    /\ pc = "create"
    /\ Happens("refused", MaxRefused)
    /\ podUnderCreation' = TRUE
    /\ Failed
    /\ UNCHANGED <<objects, caches, ports, mine>>
    /\ Notify

CreatePodFails ==
    /\ pc = "create"
    /\ \/ pod # NoPod /\ UNCHANGED <<pod, faults>>
       \/ pod = NoPod /\ Happens("lost", MaxLost) /\ pod' = NewPod
       \/ Happens("refused", MaxRefused) /\ UNCHANGED pod
    /\ Failed
    /\ UNCHANGED <<gs, caches, podUnderCreation, ports, mine>>
    /\ Notify

ExitState == IF myPod.exit = "success" THEN "GameCompleted" ELSE "Crashed"

(* A patch has only what differs from the object that has been read.       *)
PatchedState == IF gs = NoGs \/ myGs.state = ExitState
                THEN gs ELSE [gs EXCEPT !.state = ExitState]

(* That the GameServer has been deleted is no error.                       *)
RecordExit ==
    /\ pc = "exit"
    /\ gs' = PatchedState
    /\ Done
    /\ UNCHANGED <<pod, caches, podUnderCreation, ports, mine, faults>>
    /\ Notify

(* Variant of RecordExitFails: the error is dropped.                       *)
RecordExitFailsQuietly ==
    /\ pc = "exit"
    /\ Happens("refused", MaxRefused)
    /\ Done
    /\ UNCHANGED <<objects, caches, podUnderCreation, ports, mine>>
    /\ Notify

RecordExitFails ==
    /\ pc = "exit"
    /\ \/ Happens("refused", MaxRefused) /\ UNCHANGED gs
       \/ Happens("lost", MaxLost) /\ gs' = PatchedState
    /\ Failed
    /\ UNCHANGED <<pod, caches, podUnderCreation, ports, mine>>
    /\ Notify

AnnotatedPod == [pod EXCEPT !.safe = Annotation(myGs, myPod)]

Annotate ==
    /\ pc = "annotate"
    /\ pod # NoPod
    /\ pod' = AnnotatedPod
    /\ pc' = AfterAnnotation(myGs, myPod)
    /\ UNCHANGED <<gs, caches, podUnderCreation, ports, queued, mine, faults>>
    /\ Notify

AnnotateFails ==
    /\ pc = "annotate"
    /\ \/ pod = NoPod /\ UNCHANGED <<pod, faults>>
       \/ Happens("refused", MaxRefused) /\ UNCHANGED pod
       \/ pod # NoPod /\ Happens("lost", MaxLost) /\ pod' = AnnotatedPod
    /\ Failed
    /\ UNCHANGED <<gs, caches, podUnderCreation, ports, mine>>
    /\ Notify

(* The details of the Node; the reply to the patch is the new object.      *)
Addressed == [gs EXCEPT !.address = myPod.node]

(* Variant of SetAddress: the label is written without the address.        *)
SetAddressLater ==
    /\ pc = "address"
    /\ pc' = "label"
    /\ UNCHANGED <<objects, caches, podUnderCreation, ports, queued, mine, faults>>
    /\ Notify

SetAddress ==
    /\ pc = "address"
    /\ gs # NoGs
    /\ gs' = Addressed
    /\ myGs' = Addressed
    /\ pc' = IF gs.label = {} THEN "label" ELSE "idle"
    /\ UNCHANGED <<pod, caches, podUnderCreation, ports, queued, myPod, faults>>
    /\ Notify

SetAddressFails ==
    /\ pc = "address"
    /\ \/ gs = NoGs /\ UNCHANGED <<gs, faults>>
       \/ Happens("refused", MaxRefused) /\ UNCHANGED gs
       \/ gs # NoGs /\ Happens("lost", MaxLost) /\ gs' = Addressed
    /\ Failed
    /\ UNCHANGED <<pod, caches, podUnderCreation, ports, mine>>
    /\ Notify

Labelled == [gs EXCEPT !.label = {myPod.node}]

SetLabel ==
    /\ pc = "label"
    /\ gs' = IF gs = NoGs THEN NoGs ELSE Labelled
    /\ Done
    /\ UNCHANGED <<pod, caches, podUnderCreation, ports, mine, faults>>
    /\ Notify

SetLabelFails ==
    /\ pc = "label"
    /\ \/ Happens("refused", MaxRefused) /\ UNCHANGED gs
       \/ gs # NoGs /\ Happens("lost", MaxLost) /\ gs' = Labelled
    /\ Failed
    /\ UNCHANGED <<pod, caches, podUnderCreation, ports, mine>>
    /\ Notify

-----------------------------------------------------------------------------
(* SetupWithManager: a change of either object queues the name.            *)

(* Variant of DeliverGs: a deleted GameServer is not reconciled.           *)
DeliverGsThatExists ==
    /\ "gs" \in unseen
    /\ unseen' = unseen \ {"gs"}
    /\ cachedGs' = gs
    /\ queued' = (queued \/ gs # NoGs)
    /\ UNCHANGED <<objects, cachedPod, podUnderCreation, ports, pc, mine, faults>>

DeliverGs ==
    /\ "gs" \in unseen
    /\ unseen' = unseen \ {"gs"}
    /\ cachedGs' = gs
    /\ queued' = TRUE
    /\ UNCHANGED <<objects, cachedPod, podUnderCreation, ports, pc, mine, faults>>

DeliverPod ==
    /\ "pod" \in unseen
    /\ unseen' = unseen \ {"pod"}
    /\ cachedPod' = pod
    /\ queued' = TRUE
    /\ UNCHANGED <<objects, cachedGs, podUnderCreation, ports, pc, mine, faults>>

(* Everything in memory is lost; the caches are filled and every GameServer*)
(* that exists is reconciled.  NewPortRegistry counts its ports.           *)
Restart ==
    /\ Happens("restarts", MaxRestarts)
    /\ cachedGs' = gs
    /\ cachedPod' = pod
    /\ podUnderCreation' = FALSE
    /\ ports' = IF gs = NoGs THEN "none" ELSE "counted"
    /\ queued' = TRUE
    /\ pc' = "idle"
    /\ UNCHANGED <<objects, mine>>
    /\ Notify

-----------------------------------------------------------------------------
(* The cluster                                                             *)

Operator == <<caches, podUnderCreation, ports, queued, pc, mine>>

Schedule ==
    /\ pod # NoPod
    /\ pod.node = NoNode
    /\ \E n \in Nodes : pod' = [pod EXCEPT !.node = n]
    /\ UNCHANGED <<gs, Operator, faults>>
    /\ Notify

(* The init container and then the process end, one way or the other.      *)
Exit ==
    /\ pod.exit = "running"
    /\ pod.node # NoNode
    /\ \E how \in {"success", "failure"} : pod' = [pod EXCEPT !.exit = how]
    /\ UNCHANGED <<gs, Operator, faults>>
    /\ Notify

(* The GameServer is deleted, by the controller of its build or a user;    *)
(* then its Pod is collected.                                              *)
Delete ==
    /\ gs # NoGs
    /\ gs' = NoGs
    /\ UNCHANGED <<pod, Operator, faults>>
    /\ Notify

Collect ==
    /\ gs = NoGs
    /\ pod # NoPod
    /\ pod' = NoPod
    /\ UNCHANGED <<gs, Operator, faults>>
    /\ Notify

(* The Pod is evicted from its Node.                                       *)
Evict ==
    /\ gs # NoGs
    /\ pod # NoPod
    /\ Happens("evictions", MaxEvictions)
    /\ pod' = NoPod
    /\ UNCHANGED <<gs, Operator>>
    /\ Notify

(* The NodeAgent that the label names writes what the process tells it.    *)
Report ==
    /\ pod.exit = "running"
    /\ pod.node # NoNode
    /\ gs.label = {pod.node}
    /\ \E state \in {"Initializing", "StandingBy"} :
          /\ gs.state = "" \/ (gs.state = "Initializing" /\ state = "StandingBy")
          /\ gs' = [gs EXCEPT !.state = state]
    /\ UNCHANGED <<pod, Operator, faults>>
    /\ Notify

(* The patch of the last heartbeat overtakes the one of the exit.          *)
LateReport ==
    /\ gs.state \in Finished
    /\ gs.label # {}
    /\ Happens("late", MaxLateReports)
    /\ gs' = [gs EXCEPT !.state = "StandingBy"]
    /\ UNCHANGED <<pod, Operator>>
    /\ Notify

(* The allocation API books the server.                                    *)
Allocate ==
    /\ gs.state = "StandingBy"
    /\ gs' = [gs EXCEPT !.state = "Active"]
    /\ UNCHANGED <<pod, Operator, faults>>
    /\ Notify

-----------------------------------------------------------------------------
Reconcile ==
    \/ Begin
    \/ CreatePod \/ CreatePodFails
    \/ RecordExit \/ RecordExitFails
    \/ Annotate \/ AnnotateFails
    \/ SetAddress \/ SetAddressFails
    \/ SetLabel \/ SetLabelFails

Cluster ==
    \/ Schedule \/ Exit
    \/ Delete \/ Collect \/ Evict
    \/ Report \/ LateReport
    \/ Allocate

Next ==
    \/ Reconcile
    \/ DeliverGs \/ DeliverPod
    \/ Restart
    \/ Cluster

Spec == Init /\ [][Next]_vars

(* The workers and the informers go on, and the cluster places and         *)
(* collects Pods.                                                          *)
FairSpec ==
    /\ Spec
    /\ WF_vars(Reconcile)
    /\ WF_vars(DeliverGs)
    /\ WF_vars(DeliverPod)
    /\ WF_vars(Schedule)
    /\ WF_vars(Collect)

-----------------------------------------------------------------------------
(* Properties                                                              *)

Places == Nodes \cup {NoNode}

GsTyped(g) ==
    g \in [state : {"none", "", "Initializing", "StandingBy", "Active"} \cup Finished,
           address : Places, label : {{}} \cup {{n} : n \in Places}]

PodTyped(p) ==
    p \in [node : Places, exit : {"none", "running", "success", "failure"},
           safe : {"unset", "true", "false"}]

(* The type of every variable; a reconciliation that is going to write an  *)
(* address or an annotation has one to write.                              *)
TypeOK ==
    /\ GsTyped(gs) /\ GsTyped(cachedGs) /\ GsTyped(myGs)
    /\ PodTyped(pod) /\ PodTyped(cachedPod) /\ PodTyped(myPod)
    /\ podUnderCreation \in BOOLEAN /\ queued \in BOOLEAN
    /\ ports \in {"none", "registered", "counted"}
    /\ pc \in {"idle", "create", "exit", "annotate", "address", "label"}
    /\ pc = "address" => myPod.node # NoNode
    /\ pc = "annotate" => Annotation(myGs, myPod) # "keep"
    /\ unseen \subseteq {"gs", "pod"}
    /\ faults \in [{"late", "evictions", "refused", "lost", "restarts"} -> Nat]

(* A server that can be booked has an address to answer with: the NodeAgent*)
(* learns of it by the label, which follows the address.                   *)
BookableHasAddress ==
    gs.state \in {"StandingBy", "Active"} => gs.address # NoNode

(* A Pod that may not be evicted is not declared evictable again, however  *)
(* old the caches are, as long as no late heartbeat overwrites the state   *)
(* of a server that has ended.                                             *)
StaysProtected ==
    [][pod.safe = "false" /\ faults.late = 0 => pod'.safe # "true"]_vars

(* When no change waits to be delivered, no reconciliation is queued and   *)
(* none is under way, then one that read the objects as they are would have*)
(* nothing to do: DeregisterPorts has run, a Pod is there (or awaited if it*)
(* was evicted), the exit is in the status, and otherwise annotation,      *)
(* address and label are written.  What is left undone by a failure, a     *)
(* stale read or a restart would stay so, since nothing else triggers a    *)
(* reconciliation (gameserver_controller.go, 94-230 and 232-260).          *)
NothingIsMissed ==
    (unseen = {} /\ ~ queued /\ pc = "idle") =>
        /\ gs = NoGs => ports # "registered"
        /\ gs # NoGs /\ pod = NoPod => podUnderCreation /\ faults.evictions > 0
        /\ gs # NoGs /\ pod # NoPod =>
              CASE pod.exit = "running" -> NextStep(gs, pod) = "idle"
                [] pod.exit = "success" -> gs.state = "GameCompleted"
                [] pod.exit = "failure" -> gs.state = "Crashed"

(* The Pod of an allocated server becomes protected from eviction.         *)
ActiveGetsProtected ==
    gs.state = "Active" ~> (gs.state # "Active" \/ pod.exit # "running"
                                                \/ pod.safe = "false")

(* Every GameServer gets a Pod, as long as no Pod is deleted alone: one    *)
(* that goes before the cache has shown it is awaited for ever.            *)
PodIsMade ==
    gs # NoGs /\ pod = NoPod ~> (gs = NoGs \/ pod # NoPod \/ faults.evictions > 0)

(* The end of the process is in the status in the end, whatever heartbeats *)
(* come late.                                                              *)
ExitIsRecorded ==
    <>[](gs = NoGs \/ pod.exit \notin {"success", "failure"} \/ gs.state \in Finished)

=============================================================================
