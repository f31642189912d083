---------------------- MODULE GameServerControllerProofs ----------------------
(***************************************************************************)
(* Theorems about GameServerController: its types, that a server that can  *)
(* be booked has an address, that a protected Pod stays protected, and that*)
(* the operator comes to rest only where nothing is left to be done.       *)
(***************************************************************************)
EXTENDS GameServerController, TLAPS

(* Where a reconciliation may go on, given what it has read.               *)
LEMMA AfterAnnotationTyped ==
    ASSUME NEW g, NEW p
    PROVE  /\ AfterAnnotation(g, p) \in {"idle", "address", "label"}
           /\ AfterAnnotation(g, p) = "address" => p.node # NoNode
           /\ AfterAnnotation(g, p) = "label" => g.address # NoNode
BY DEF AfterAnnotation

LEMMA NextStepTyped ==
    ASSUME NEW g, NEW p
    PROVE  /\ NextStep(g, p) \in {"idle", "exit", "annotate", "address", "label"}
           /\ NextStep(g, p) = "address" => p.node # NoNode
           /\ NextStep(g, p) = "label" => g.address # NoNode
           /\ NextStep(g, p) = "annotate" => Annotation(g, p) # "keep"
BY AfterAnnotationTyped DEF NextStep

LEMMA AnnotationTyped ==
    ASSUME NEW g, NEW p
    PROVE  Annotation(g, p) \in {"true", "false", "keep"}
BY DEF Annotation

-----------------------------------------------------------------------------
(* Types                                                                   *)

FaultKinds == {"late", "evictions", "refused", "lost", "restarts"}

LEMMA HappensTyped ==
    ASSUME TypeOK, NEW kind \in FaultKinds, NEW bound, Happens(kind, bound)
    PROVE  faults' \in [FaultKinds -> Nat]
BY DEF TypeOK, Happens, FaultKinds

LEMMA InitTypes == Init => TypeOK
<1>. SUFFICES ASSUME Init PROVE TypeOK
  OBVIOUS
<1>1. GsTyped(NewGs) /\ GsTyped(NoGs)
  BY DEF NewGs, NoGs, GsTyped, Places, Finished
<1>2. PodTyped(NoPod)
  BY DEF NewPod, NoPod, PodTyped, Places
<1>3. faults \in [{"late", "evictions", "refused", "lost", "restarts"} -> Nat]
  BY DEF Init
<1>. QED  BY <1>1, <1>2, <1>3 DEF Init, TypeOK

LEMMA NewPodTyped == PodTyped(NewPod) /\ PodTyped(NoPod)
BY DEF NewPod, NoPod, PodTyped, Places

LEMMA NotifyTyped ==
    ASSUME unseen \subseteq {"gs", "pod"}, Notify
    PROVE  unseen' \subseteq {"gs", "pod"}
BY DEF Notify

LEMMA ReconcileTypes ==
    ASSUME TypeOK, Reconcile
    PROVE  TypeOK'
<1>. USE DEF objects, caches, mine, FaultKinds
<1>1. CASE Begin
  BY <1>1, NextStepTyped, NotifyTyped DEF Begin, TypeOK, Deregistered
<1>2. CASE CreatePod
  BY <1>2, NewPodTyped, NotifyTyped DEF CreatePod, TypeOK, Done
<1>3. CASE CreatePodFails
  <2>1. faults' \in [FaultKinds -> Nat]
    BY <1>3, HappensTyped DEF CreatePodFails, TypeOK
  <2>. QED  BY <1>3, <2>1, NewPodTyped, NotifyTyped DEF CreatePodFails, TypeOK, Failed
<1>4. CASE RecordExit
  <2>1. GsTyped(PatchedState)
    BY DEF TypeOK, GsTyped, PatchedState, ExitState, Finished
  <2>. QED  BY <1>4, <2>1, NotifyTyped DEF RecordExit, TypeOK, Done
<1>5. CASE RecordExitFails
  <2>1. faults' \in [FaultKinds -> Nat]
    BY <1>5, HappensTyped DEF RecordExitFails, TypeOK
  <2>2. GsTyped(PatchedState)
    BY DEF TypeOK, GsTyped, PatchedState, ExitState, Finished
  <2>. QED  BY <1>5, <2>1, <2>2, NotifyTyped DEF RecordExitFails, TypeOK, Failed
<1>6. CASE Annotate
  <2>1. PodTyped(AnnotatedPod)
    BY <1>6, AnnotationTyped DEF Annotate, AnnotatedPod, TypeOK, PodTyped
  <2>. QED  BY <1>6, <2>1, AfterAnnotationTyped, NotifyTyped DEF Annotate, TypeOK
<1>7. CASE AnnotateFails
  <2>1. PodTyped(AnnotatedPod)
    BY <1>7, AnnotationTyped DEF AnnotateFails, AnnotatedPod, TypeOK, PodTyped
  <2>2. faults' \in [FaultKinds -> Nat]
    BY <1>7, HappensTyped DEF AnnotateFails, TypeOK
  <2>. QED  BY <1>7, <2>1, <2>2, NotifyTyped DEF AnnotateFails, TypeOK, Failed
<1>8. CASE SetAddress
  <2>1. GsTyped(Addressed)
    BY <1>8 DEF SetAddress, Addressed, TypeOK, GsTyped, PodTyped
  <2>. QED  BY <1>8, <2>1, NotifyTyped DEF SetAddress, TypeOK
<1>9. CASE SetAddressFails
  <2>1. GsTyped(Addressed)
    BY <1>9 DEF SetAddressFails, Addressed, TypeOK, GsTyped, PodTyped
  <2>2. faults' \in [FaultKinds -> Nat]
    BY <1>9, HappensTyped DEF SetAddressFails, TypeOK
  <2>. QED  BY <1>9, <2>1, <2>2, NotifyTyped DEF SetAddressFails, TypeOK, Failed
<1>10. CASE SetLabel
  <2>1. GsTyped(Labelled)
    BY <1>10 DEF SetLabel, Labelled, TypeOK, GsTyped, PodTyped
  <2>. QED  BY <1>10, <2>1, NotifyTyped DEF SetLabel, TypeOK, Done
<1>11. CASE SetLabelFails
  <2>1. GsTyped(Labelled)
    BY <1>11 DEF SetLabelFails, Labelled, TypeOK, GsTyped, PodTyped
  <2>2. faults' \in [FaultKinds -> Nat]
    BY <1>11, HappensTyped DEF SetLabelFails, TypeOK
  <2>. QED  BY <1>11, <2>1, <2>2, NotifyTyped DEF SetLabelFails, TypeOK, Failed
<1>. QED  BY <1>1, <1>2, <1>3, <1>4, <1>5, <1>6, <1>7, <1>8, <1>9, <1>10, <1>11
             DEF Reconcile

LEMMA ClusterTypes ==
    ASSUME TypeOK, Cluster
    PROVE  TypeOK'
<1>. USE DEF objects, caches, mine, Operator, FaultKinds
<1>1. CASE Schedule
  <2>1. PodTyped(pod')
    BY <1>1 DEF Schedule, TypeOK, PodTyped, Places
  <2>. QED  BY <1>1, <2>1, NotifyTyped DEF Schedule, TypeOK
<1>2. CASE Exit
  <2>1. PodTyped(pod')
    BY <1>2 DEF Exit, TypeOK, PodTyped
  <2>. QED  BY <1>2, <2>1, NotifyTyped DEF Exit, TypeOK
<1>3. CASE Delete
  <2>1. GsTyped(NoGs)
    BY DEF NewGs, NoGs, GsTyped, Places
  <2>. QED  BY <1>3, <2>1, NotifyTyped DEF Delete, TypeOK
<1>4. CASE Collect
  BY <1>4, NewPodTyped, NotifyTyped DEF Collect, TypeOK
<1>5. CASE Evict
  <2>1. faults' \in [FaultKinds -> Nat]
    BY <1>5, HappensTyped DEF Evict
  <2>. QED  BY <1>5, <2>1, NewPodTyped, NotifyTyped DEF Evict, TypeOK
<1>6. CASE Report
  <2>1. GsTyped(gs')
    BY <1>6 DEF Report, TypeOK, GsTyped
  <2>. QED  BY <1>6, <2>1, NotifyTyped DEF Report, TypeOK
<1>7. CASE LateReport
  <2>1. faults' \in [FaultKinds -> Nat]
    BY <1>7, HappensTyped DEF LateReport
  <2>2. GsTyped(gs')
    BY <1>7 DEF LateReport, TypeOK, GsTyped
  <2>. QED  BY <1>7, <2>1, <2>2, NotifyTyped DEF LateReport, TypeOK
<1>8. CASE Allocate
  <2>1. GsTyped(gs')
    BY <1>8 DEF Allocate, TypeOK, GsTyped
  <2>. QED  BY <1>8, <2>1, NotifyTyped DEF Allocate, TypeOK
<1>. QED  BY <1>1, <1>2, <1>3, <1>4, <1>5, <1>6, <1>7, <1>8 DEF Cluster

LEMMA TypesKept ==
    ASSUME TypeOK, [Next]_vars
    PROVE  TypeOK'
<1>. USE DEF objects, caches, mine, FaultKinds
<1>1. CASE Reconcile
  BY <1>1, ReconcileTypes
<1>2. CASE DeliverGs
  BY <1>2 DEF DeliverGs, TypeOK
<1>3. CASE DeliverPod
  BY <1>3 DEF DeliverPod, TypeOK
<1>4. CASE Restart
  <2>1. faults' \in [FaultKinds -> Nat]
    BY <1>4, HappensTyped DEF Restart
  <2>. QED  BY <1>4, <2>1, NotifyTyped DEF Restart, TypeOK
<1>5. CASE Cluster
  BY <1>5, ClusterTypes
<1>6. CASE UNCHANGED vars
  BY <1>6 DEF vars, TypeOK
<1>. QED  BY <1>1, <1>2, <1>3, <1>4, <1>5, <1>6 DEF Next

(* All variables keep their types, for any Nodes and any number of faults. *)
THEOREM TypeCorrect == Spec => []TypeOK
<1>1. Init => TypeOK
  BY InitTypes
<1>2. TypeOK /\ [Next]_vars => TypeOK'
  BY TypesKept
<1>. QED  BY <1>1, <1>2, PTL DEF Spec

-----------------------------------------------------------------------------
(* Addresses: a label is only written behind an address, and no copy of    *)
(* the GameServer knows an address that the GameServer has not.            *)

HasAddress(g) == g.address # NoNode

AddressInv ==
    /\ gs.label # {} => HasAddress(gs)
    /\ HasAddress(cachedGs) => gs = NoGs \/ HasAddress(gs)
    /\ HasAddress(myGs) => gs = NoGs \/ HasAddress(gs)
    /\ pc = "label" => gs = NoGs \/ HasAddress(gs)
    /\ BookableHasAddress

(* What a request of the reconciliation may have done to the GameServer.   *)
LEMMA GsWritten ==
    ASSUME TypeOK, AddressInv, Reconcile
    PROVE  /\ gs.state \in {"StandingBy", "Active"} \/ gs'.state \notin {"StandingBy", "Active"}
           /\ HasAddress(gs) => HasAddress(gs')
           /\ gs = NoGs => gs' = NoGs
           /\ gs'.label # gs.label => HasAddress(gs')
<1>. USE DEF objects, TypeOK, GsTyped, PodTyped, AddressInv, HasAddress
<1>1. CASE gs' = gs
  BY <1>1
<1>2. CASE gs' = PatchedState
  BY <1>2 DEF PatchedState, ExitState
<1>3. CASE gs' = Addressed /\ gs # NoGs /\ pc = "address"
  BY <1>3 DEF Addressed
<1>4. CASE gs' = Labelled /\ gs # NoGs /\ pc = "label"
  BY <1>4 DEF Labelled
<1>5. \/ gs' = gs
      \/ gs' = PatchedState
      \/ gs' = Addressed /\ gs # NoGs /\ pc = "address"
      \/ gs' = Labelled /\ gs # NoGs /\ pc = "label"
  BY DEF Reconcile, Begin, CreatePod, CreatePodFails, RecordExit, RecordExitFails,
         Annotate, AnnotateFails, SetAddress, SetAddressFails, SetLabel, SetLabelFails
<1>. QED  BY <1>1, <1>2, <1>3, <1>4, <1>5

LEMMA NoGsFields == NoGs.state = "none" /\ NoGs.address = NoNode /\ NoGs.label = {}
BY DEF NoGs, NewGs

LEMMA AddressKeptByReconcile ==
    ASSUME TypeOK, AddressInv, Reconcile
    PROVE  AddressInv'
<1>1. /\ gs'.label # {} => HasAddress(gs')
      /\ gs = NoGs \/ HasAddress(gs) => gs' = NoGs \/ HasAddress(gs')
      /\ BookableHasAddress'
  BY GsWritten DEF AddressInv, BookableHasAddress, HasAddress
<1>2. cachedGs' = cachedGs
  BY DEF Reconcile, caches, Begin, CreatePod, CreatePodFails, RecordExit, RecordExitFails,
         Annotate, AnnotateFails, SetAddress, SetAddressFails, SetLabel, SetLabelFails
<1>3. myGs' \in {myGs, cachedGs, gs'}
  BY DEF Reconcile, mine, Begin, CreatePod, CreatePodFails, RecordExit, RecordExitFails,
         Annotate, AnnotateFails, SetAddress, SetAddressFails, SetLabel, SetLabelFails
<1>4. pc' = "label" => \/ gs = NoGs \/ HasAddress(gs)
                       \/ HasAddress(gs')
  <2>1. CASE Begin
    BY <2>1, NextStepTyped DEF Begin, AddressInv, HasAddress
  <2>2. CASE Annotate
    BY <2>2, AfterAnnotationTyped DEF Annotate, AddressInv, HasAddress
  <2>3. CASE SetAddress
    BY <2>3 DEF SetAddress, Addressed, HasAddress, TypeOK, GsTyped
  <2>4. CASE ~(Begin \/ Annotate \/ SetAddress)
    BY <2>4 DEF Reconcile, Done, Failed, CreatePod, CreatePodFails, RecordExit,
                RecordExitFails, AnnotateFails, SetAddressFails, SetLabel, SetLabelFails
  <2>. QED  BY <2>1, <2>2, <2>3, <2>4
<1>. QED  BY <1>1, <1>2, <1>3, <1>4 DEF AddressInv, HasAddress

LEMMA AddressKeptByCluster ==
    ASSUME TypeOK, AddressInv, Cluster
    PROVE  AddressInv'
<1>1. cachedGs' = cachedGs /\ myGs' = myGs /\ pc' = pc
  BY DEF Cluster, Operator, caches, mine, Schedule, Exit, Delete, Collect, Evict,
         Report, LateReport, Allocate
<1>2. CASE gs' = gs
  BY <1>1, <1>2 DEF AddressInv, HasAddress, BookableHasAddress
<1>3. CASE gs' = NoGs
  BY <1>1, <1>3, NoGsFields DEF AddressInv, HasAddress, BookableHasAddress
<1>4. CASE /\ \E state : gs' = [gs EXCEPT !.state = state]
           /\ gs.label # {} \/ gs.state = "StandingBy"
           /\ gs # NoGs
  BY <1>1, <1>4 DEF AddressInv, HasAddress, BookableHasAddress, TypeOK, GsTyped
<1>5. CASE Report
  BY <1>4, <1>5, NoGsFields DEF Report
<1>6. CASE LateReport
  BY <1>4, <1>6, NoGsFields DEF LateReport, Finished
<1>7. CASE Allocate
  BY <1>4, <1>7, NoGsFields DEF Allocate
<1>. QED  BY <1>2, <1>3, <1>5, <1>6, <1>7
             DEF Cluster, Schedule, Exit, Delete, Collect, Evict

LEMMA AddressKept ==
    ASSUME TypeOK, AddressInv, [Next]_vars
    PROVE  AddressInv'
<1>1. CASE Reconcile
  BY <1>1, AddressKeptByReconcile
<1>2. CASE DeliverGs \/ DeliverPod \/ Restart \/ UNCHANGED vars
  <2>1. gs' = gs /\ myGs' = myGs /\ cachedGs' \in {cachedGs, gs} /\ pc' \in {pc, "idle"}
    BY <1>2 DEF DeliverGs, DeliverPod, Restart, vars, objects, caches, mine
  <2>. QED  BY <2>1 DEF AddressInv, HasAddress, BookableHasAddress
<1>3. CASE Cluster
  BY <1>3, AddressKeptByCluster
<1>. QED  BY <1>1, <1>2, <1>3 DEF Next

(* A server that can be booked has an address, whatever requests fail and  *)
(* however old the caches are.                                             *)
THEOREM BookableCorrect == Spec => []BookableHasAddress
<1>1. Init => AddressInv
  <2>1. NewGs.state = "" /\ NewGs.address = NoNode /\ NewGs.label = {}
    BY DEF NewGs
  <2>. QED  BY <2>1, NoGsFields DEF Init, AddressInv, HasAddress, BookableHasAddress
<1>2. TypeOK /\ AddressInv /\ [Next]_vars => AddressInv'
  BY AddressKept
<1>3. AddressInv => BookableHasAddress
  BY DEF AddressInv
<1>. QED  BY <1>1, <1>2, <1>3, TypeCorrect, PTL DEF Spec

-----------------------------------------------------------------------------
(* Protection: without late heartbeats the state of a GameServer does not  *)
(* go back, so what a cache has shown as Active or later is so for good,   *)
(* and only a reconciliation that has seen it protects the Pod.            *)

Past(g) == g.state \in {"Active", "none"} \cup Finished

ProtectionInv ==
    faults.late = 0 =>
        /\ Past(cachedGs) => Past(gs)
        /\ pc = "annotate" /\ Past(myGs) => Past(cachedGs)
        /\ pod.safe = "false" => Past(cachedGs) /\ Past(myGs)

(* Time does not take late heartbeats back.                                *)
LEMMA LateCounted ==
    ASSUME TypeOK, NEW kind, NEW bound, Happens(kind, bound)
    PROVE  /\ faults'.late = 0 => faults.late = 0
           /\ kind = "late" => faults'.late # 0
BY DEF TypeOK, Happens

LEMMA ReconcileWrites ==
    ASSUME TypeOK, Reconcile
    PROVE  /\ cachedGs' = cachedGs
           /\ faults'.late = 0 => faults.late = 0
           /\ Past(gs) => Past(gs')
           /\ \/ pod'.safe = pod.safe
              \/ pod' = NewPod
              \/ pc = "annotate" /\ pod'.safe = Annotation(myGs, myPod)
           /\ myGs' = myGs \/ myGs' = cachedGs \/ (myGs'.state = gs.state /\ gs # NoGs)
           /\ pc' = "annotate" => myGs' = cachedGs
<1>. USE DEF objects, caches, mine
<1>1. CASE Begin
  BY <1>1 DEF Begin, TypeOK
<1>2. CASE CreatePod \/ CreatePodFails
  BY <1>2, LateCounted DEF CreatePod, CreatePodFails, Done, Failed
<1>3. CASE RecordExit \/ RecordExitFails
  <2>1. Past(gs) => Past(PatchedState)
    BY DEF Past, PatchedState, ExitState, Finished, TypeOK, GsTyped
  <2>. QED  BY <1>3, <2>1, LateCounted DEF RecordExit, RecordExitFails, Done, Failed
<1>4. CASE Annotate \/ AnnotateFails
  <2>1. AnnotatedPod.safe = Annotation(myGs, myPod)
    BY DEF AnnotatedPod, TypeOK, PodTyped
  <2>2. pc = "annotate" /\ pod' \in {pod, AnnotatedPod} /\ UNCHANGED <<gs, caches, mine>>
    BY <1>4 DEF Annotate, AnnotateFails
  <2>3. pc' # "annotate" /\ (faults'.late = 0 => faults.late = 0)
    BY <1>4, AfterAnnotationTyped, LateCounted DEF Annotate, AnnotateFails, Failed
  <2>. QED  BY <2>1, <2>2, <2>3
<1>5. CASE SetAddress \/ SetAddressFails
  <2>1. Addressed.state = gs.state
    BY DEF Addressed, TypeOK, GsTyped
  <2>2. CASE SetAddress
    BY <2>1, <2>2 DEF SetAddress, Past
  <2>3. CASE SetAddressFails
    BY <2>1, <2>3, LateCounted DEF SetAddressFails, Failed, Past
  <2>. QED  BY <1>5, <2>2, <2>3
<1>6. CASE SetLabel \/ SetLabelFails
  <2>1. Labelled.state = gs.state
    BY DEF Labelled, TypeOK, GsTyped
  <2>. QED  BY <1>6, <2>1, LateCounted DEF SetLabel, SetLabelFails, Done, Failed, Past
<1>. QED  BY <1>1, <1>2, <1>3, <1>4, <1>5, <1>6 DEF Reconcile

LEMMA ClusterWrites ==
    ASSUME TypeOK, Cluster
    PROVE  /\ UNCHANGED <<cachedGs, myGs, pc>>
           /\ faults'.late = 0 => faults.late = 0
           /\ faults'.late = 0 /\ Past(gs) => Past(gs')
           /\ pod'.safe = pod.safe \/ pod' = NoPod
<1>. USE DEF Operator, caches, mine, Past
<1>1. CASE Schedule \/ Exit
  BY <1>1 DEF Schedule, Exit, TypeOK, PodTyped
<1>2. CASE Delete \/ Collect
  BY <1>2, NoGsFields DEF Delete, Collect
<1>3. CASE Evict
  BY <1>3, LateCounted DEF Evict
<1>4. CASE Report
  BY <1>4 DEF Report, TypeOK, GsTyped, Finished
<1>5. CASE LateReport
  BY <1>5, LateCounted DEF LateReport
<1>6. CASE Allocate
  BY <1>6 DEF Allocate, TypeOK, GsTyped
<1>. QED  BY <1>1, <1>2, <1>3, <1>4, <1>5, <1>6 DEF Cluster

LEMMA PodFields == NewPod.safe = "unset" /\ NoPod.safe = "unset"
BY DEF NewPod, NoPod

(* Only a server that is Active is protected, and only one that is not yet *)
(* is declared evictable.                                                  *)
LEMMA AnnotationMeans ==
    ASSUME NEW g, NEW p
    PROVE  /\ Annotation(g, p) = "false" => Past(g)
           /\ Annotation(g, p) = "true" => ~Past(g)
BY DEF Annotation, Past, Finished

LEMMA ProtectionKept ==
    ASSUME TypeOK, ProtectionInv, [Next]_vars
    PROVE  ProtectionInv'
<1>. SUFFICES ASSUME faults'.late = 0
              PROVE  /\ Past(cachedGs') => Past(gs')
                     /\ pc' = "annotate" /\ Past(myGs') => Past(cachedGs')
                     /\ pod'.safe = "false" => Past(cachedGs') /\ Past(myGs')
  BY DEF ProtectionInv, Past
<1>1. CASE Reconcile
  <2>1. myGs' = myGs \/ myGs' = cachedGs \/ (Past(gs) => Past(myGs'))
    BY <1>1, ReconcileWrites DEF Past
  <2>2. pod'.safe = "false" => \/ pod.safe = "false"
                               \/ pc = "annotate" /\ Past(myGs)
    BY <1>1, ReconcileWrites, PodFields, AnnotationMeans
  <2>. QED  BY <1>1, <2>1, <2>2, ReconcileWrites DEF ProtectionInv
<1>2. CASE Cluster
  BY <1>2, ClusterWrites, PodFields DEF ProtectionInv
<1>3. CASE DeliverGs \/ DeliverPod \/ UNCHANGED vars
  BY <1>3 DEF ProtectionInv, DeliverGs, DeliverPod, vars, objects, caches, mine
<1>4. CASE Restart
  BY <1>4, LateCounted DEF ProtectionInv, Restart, objects, mine
<1>. QED  BY <1>1, <1>2, <1>3, <1>4 DEF Next

(* A Pod that may not be evicted is not declared evictable again.          *)
THEOREM ProtectionCorrect == Spec => StaysProtected
<1>1. Init => ProtectionInv
  BY PodFields DEF Init, ProtectionInv, Past, NewGs, Finished
<1>2. TypeOK /\ ProtectionInv /\ [Next]_vars => ProtectionInv'
  BY ProtectionKept
<1>3. TypeOK /\ ProtectionInv /\ [Next]_vars
        => [pod.safe = "false" /\ faults.late = 0 => pod'.safe # "true"]_vars
  <2>. SUFFICES ASSUME TypeOK, ProtectionInv, [Next]_vars,
                       pod.safe = "false", faults.late = 0
                PROVE  pod'.safe # "true"
    OBVIOUS
  <2>1. CASE Reconcile
    BY <2>1, ReconcileWrites, PodFields, AnnotationMeans DEF ProtectionInv
  <2>2. CASE Cluster
    BY <2>2, ClusterWrites, PodFields
  <2>3. CASE DeliverGs \/ DeliverPod \/ Restart \/ UNCHANGED vars
    BY <2>3 DEF DeliverGs, DeliverPod, Restart, vars, objects
  <2>. QED  BY <2>1, <2>2, <2>3 DEF Next
<1>. QED  BY <1>1, <1>2, <1>3, TypeCorrect, PTL DEF Spec, StaysProtected

-----------------------------------------------------------------------------
(* Rest: a reconciliation that has read the objects as they are ends with  *)
(* a write that changes one of them, or has nothing to write.              *)

Quiet == unseen = {} /\ ~queued

UpToDate == myGs = gs /\ myPod = pod

(* What the caches and podsUnderCreation say of the objects.               *)
CopiesInv ==
    /\ "gs" \notin unseen => cachedGs = gs
    /\ "pod" \notin unseen => cachedPod = pod
    /\ pod # NoPod => pod.exit # "none"
    /\ podUnderCreation /\ pod = NoPod => gs = NoGs \/ faults.evictions > 0

(* What a reconciliation that is under way may rely on.                    *)
UnderWay ==
    /\ UpToDate
    /\ gs # NoGs
    /\ pod = NoPod => pc = "create"
    /\ pod # NoPod => pc = NextStep(gs, pod)

(* What is left to do where nothing waits and nothing is under way.        *)
NothingLeft ==
    /\ gs = NoGs => ports # "registered"
    /\ gs # NoGs /\ pod = NoPod => podUnderCreation /\ faults.evictions > 0
    /\ gs # NoGs /\ pod # NoPod =>
          CASE pod.exit = "running" -> NextStep(gs, pod) = "idle"
            [] pod.exit = "success" -> gs.state = "GameCompleted"
            [] pod.exit = "failure" -> gs.state = "Crashed"

MissedInv ==
    /\ CopiesInv
    /\ Quiet /\ pc # "idle" => UnderWay
    /\ Quiet /\ pc = "idle" => NothingLeft

LEMMA EvictionsCounted ==
    ASSUME TypeOK, NEW kind \in FaultKinds, NEW bound, Happens(kind, bound)
    PROVE  /\ faults.evictions > 0 => faults'.evictions > 0
           /\ kind = "evictions" => faults'.evictions > 0
BY DEF TypeOK, Happens, FaultKinds

LEMMA NotifyMeans ==
    ASSUME Notify
    PROVE  /\ unseen \subseteq unseen'
           /\ gs' # gs => "gs" \in unseen'
           /\ pod' # pod => "pod" \in unseen'
BY DEF Notify

LEMMA ExitFields == NewPod.exit = "running" /\ NoPod.exit = "none"
BY DEF NewPod, NoPod

(* What every step of a reconciliation does to the objects.                *)
LEMMA ReconcileChanges ==
    ASSUME TypeOK, MissedInv, Reconcile
    PROVE  /\ Notify
           /\ UNCHANGED caches
           /\ gs = NoGs => gs' = NoGs
           /\ pod' = pod \/ (pod' # NoPod /\ pod'.exit # "none")
           /\ faults.evictions > 0 => faults'.evictions > 0
           /\ podUnderCreation' => podUnderCreation \/ pod' # NoPod
<1>. USE DEF objects, caches, mine
<1>1. CASE Begin
  BY <1>1 DEF Begin
<1>2. CASE CreatePod
  BY <1>2, ExitFields DEF CreatePod
<1>3. CASE CreatePodFails
  BY <1>3, ExitFields, EvictionsCounted DEF CreatePodFails, FaultKinds
<1>4. CASE RecordExit \/ RecordExitFails
  BY <1>4, EvictionsCounted DEF RecordExit, RecordExitFails, PatchedState, FaultKinds
<1>5. CASE Annotate \/ AnnotateFails
  <2>1. AnnotatedPod.exit = pod.exit /\ (pod # NoPod => AnnotatedPod # NoPod)
    BY ExitFields DEF AnnotatedPod, TypeOK, PodTyped, MissedInv, CopiesInv
  <2>2. CASE Annotate
    BY <2>1, <2>2 DEF Annotate, MissedInv, CopiesInv
  <2>3. CASE AnnotateFails
    BY <2>1, <2>3, EvictionsCounted DEF AnnotateFails, MissedInv, CopiesInv, FaultKinds
  <2>. QED  BY <1>5, <2>2, <2>3
<1>6. CASE SetAddress \/ SetAddressFails
  BY <1>6, EvictionsCounted DEF SetAddress, SetAddressFails, FaultKinds
<1>7. CASE SetLabel \/ SetLabelFails
  BY <1>7, EvictionsCounted DEF SetLabel, SetLabelFails, FaultKinds
<1>. QED  BY <1>1, <1>2, <1>3, <1>4, <1>5, <1>6, <1>7 DEF Reconcile

(* What every step of the cluster changes: an object, and nothing of what  *)
(* the operator has.                                                       *)
LEMMA ClusterChanges ==
    ASSUME TypeOK, MissedInv, Cluster
    PROVE  /\ Notify
           /\ UNCHANGED Operator
           /\ gs' # gs \/ pod' # pod
           /\ gs = NoGs => gs' = NoGs
           /\ pod' # NoPod => pod # NoPod /\ pod'.exit # "none"
           /\ pod' = NoPod => pod = NoPod \/ gs' = NoGs \/ faults'.evictions > 0
           /\ faults.evictions > 0 => faults'.evictions > 0
<1>1. CASE Schedule
  <2>1. PICK n \in Nodes : pod' = [pod EXCEPT !.node = n]
    BY <1>1 DEF Schedule
  <2>2. pod'.exit = pod.exit /\ pod'.node # pod.node
    BY <1>1, <2>1, ControllerAssumption DEF Schedule, TypeOK, PodTyped
  <2>. QED  BY <1>1, <2>2, ExitFields DEF Schedule, MissedInv, CopiesInv
<1>2. CASE Exit
  <2>1. pod.exit = "running" /\ pod'.exit \in {"success", "failure"}
    BY <1>2 DEF Exit, TypeOK, PodTyped
  <2>. QED  BY <1>2, <2>1, ExitFields DEF Exit
<1>3. CASE Delete \/ Collect
  BY <1>3 DEF Delete, Collect, MissedInv, CopiesInv
<1>4. CASE Evict
  BY <1>4, EvictionsCounted DEF Evict, FaultKinds
<1>5. CASE Report
  <2>1. gs'.state # gs.state /\ gs # NoGs
    BY <1>5, NoGsFields DEF Report, TypeOK, GsTyped
  <2>. QED  BY <1>5, <2>1 DEF Report, MissedInv, CopiesInv
<1>6. CASE LateReport
  <2>1. gs'.state # gs.state /\ gs # NoGs
    BY <1>6, NoGsFields DEF LateReport, TypeOK, GsTyped, Finished
  <2>. QED  BY <1>6, <2>1, EvictionsCounted DEF LateReport, MissedInv, CopiesInv, FaultKinds
<1>7. CASE Allocate
  <2>1. gs'.state # gs.state /\ gs # NoGs
    BY <1>7, NoGsFields DEF Allocate, TypeOK, GsTyped
  <2>. QED  BY <1>7, <2>1 DEF Allocate, MissedInv, CopiesInv
<1>. QED  BY <1>1, <1>2, <1>3, <1>4, <1>5, <1>6, <1>7 DEF Cluster

LEMMA CopiesKept ==
    ASSUME TypeOK, MissedInv, [Next]_vars
    PROVE  CopiesInv'
<1>1. CASE Reconcile
  BY <1>1, ReconcileChanges, NotifyMeans DEF MissedInv, CopiesInv, caches
<1>2. CASE Cluster
  BY <1>2, ClusterChanges, NotifyMeans DEF MissedInv, CopiesInv, Operator, caches
<1>3. CASE DeliverGs \/ DeliverPod
  BY <1>3 DEF MissedInv, CopiesInv, DeliverGs, DeliverPod, objects
<1>4. CASE Restart
  <2>1. faults.evictions > 0 => faults'.evictions > 0
    BY <1>4, EvictionsCounted DEF Restart, FaultKinds
  <2>. QED  BY <1>4, <2>1, NotifyMeans DEF MissedInv, CopiesInv, Restart, objects
<1>5. CASE UNCHANGED vars
  BY <1>5 DEF MissedInv, CopiesInv, vars, objects, caches
<1>. QED  BY <1>1, <1>2, <1>3, <1>4, <1>5 DEF Next

(* A reconciliation begins with what there is, when nothing is unseen.     *)
LEMMA BeginMissesNothing ==
    ASSUME TypeOK, MissedInv, Begin, Quiet'
    PROVE  IF pc' = "idle" THEN NothingLeft' ELSE UnderWay'
<1>1. UNCHANGED objects /\ unseen = {} /\ UNCHANGED faults
  BY NotifyMeans DEF Begin, Quiet
<1>2. cachedGs = gs /\ cachedPod = pod
  BY <1>1 DEF MissedInv, CopiesInv
<1>3. UpToDate'
  BY <1>1, <1>2 DEF Begin, UpToDate, objects
<1>4. CASE gs = NoGs
  BY <1>1, <1>2, <1>4 DEF Begin, Deregistered, NothingLeft, objects
<1>5. CASE gs # NoGs /\ pod = NoPod
  BY <1>1, <1>2, <1>3, <1>5 DEF Begin, Awaited, NothingLeft, UnderWay, objects,
                                MissedInv, CopiesInv
<1>6. CASE gs # NoGs /\ pod # NoPod
  <2>1. pc' = NextStep(gs, pod) /\ gs' = gs /\ pod' = pod
    BY <1>1, <1>2, <1>6 DEF Begin, Awaited, objects
  <2>2. pc' = "idle" => pod.exit = "running"
    BY <2>1 DEF NextStep
  <2>3. NextStep(gs, pod)' = NextStep(gs, pod)
    BY <2>1 DEF NextStep, Annotation, AfterAnnotation
  <2>. QED  BY <1>3, <1>6, <2>1, <2>2, <2>3 DEF NothingLeft, UnderWay
<1>. QED  BY <1>4, <1>5, <1>6

(* The exit is in the status, when the patch had nothing to change.        *)
LEMMA RecordExitMissesNothing ==
    ASSUME TypeOK, MissedInv, RecordExit, Quiet'
    PROVE  pc' = "idle" /\ NothingLeft'
<1>1. unseen = {} /\ gs' = gs /\ pod' = pod /\ ~queued /\ pc = "exit"
  BY NotifyMeans DEF RecordExit, Quiet, Done
<1>2. myGs = gs /\ myPod = pod /\ gs # NoGs /\ pod # NoPod /\ NextStep(gs, pod) = "exit"
  BY <1>1 DEF MissedInv, Quiet, UnderWay, UpToDate
<1>3. gs.state = ExitState
  BY <1>1, <1>2 DEF RecordExit, PatchedState, TypeOK, GsTyped
<1>4. pod.exit \in {"success", "failure"}
  BY <1>2, NextStepTyped DEF NextStep, AfterAnnotation, MissedInv, CopiesInv, TypeOK, PodTyped
<1>. QED  BY <1>1, <1>2, <1>3, <1>4 DEF NothingLeft, ExitState, RecordExit, Done

(* The other steps change an object or put the name into the queue.        *)
LEMMA OthersNotify ==
    ASSUME TypeOK, MissedInv, Reconcile, ~Begin, ~RecordExit
    PROVE  ~Quiet'
<1>. SUFFICES ASSUME Quiet' PROVE FALSE
  OBVIOUS
<1>1. unseen = {} /\ gs' = gs /\ pod' = pod
  BY ReconcileChanges, NotifyMeans DEF Quiet
<1>2. ~(CreatePodFails \/ RecordExitFails \/ AnnotateFails \/ SetAddressFails \/ SetLabelFails)
  BY DEF CreatePodFails, RecordExitFails, AnnotateFails, SetAddressFails, SetLabelFails,
         Failed, Quiet
<1>3. CASE CreatePod
  BY <1>1, <1>3, ExitFields DEF CreatePod
<1>4. pc \in {"annotate", "address", "label"} => ~queued
  BY <1>2, <1>3 DEF Reconcile, CreatePod, Annotate, SetAddress, SetLabel, Done, Quiet
<1>5. pc \in {"annotate", "address", "label"}
         => myGs = gs /\ myPod = pod /\ gs # NoGs /\ pod # NoPod /\ pc = NextStep(gs, pod)
  BY <1>1, <1>4 DEF MissedInv, Quiet, UnderWay, UpToDate
<1>6. CASE Annotate
  <2>1. pod.safe = Annotation(gs, pod)
    BY <1>1, <1>5, <1>6 DEF Annotate, AnnotatedPod, TypeOK, PodTyped
  <2>2. Annotation(gs, pod) # "keep"
    BY <1>5, <1>6 DEF Annotate, TypeOK
  <2>. QED  BY <2>1, <2>2 DEF Annotation
<1>7. CASE SetAddress
  <2>1. gs.address = pod.node /\ pod.node # NoNode
    BY <1>1, <1>5, <1>7 DEF SetAddress, Addressed, TypeOK, GsTyped
  <2>2. gs.address = NoNode
    BY <1>5, <1>7 DEF SetAddress, NextStep, AfterAnnotation
  <2>. QED  BY <2>1, <2>2
<1>8. CASE SetLabel
  <2>1. gs.label # {}
    <3>1. gs = [gs EXCEPT !.label = {myPod.node}]
      BY <1>1, <1>5, <1>8 DEF SetLabel, Labelled
    <3>2. gs.label = {myPod.node}
      BY <3>1 DEF TypeOK, GsTyped
    <3>. QED  BY <3>2
  <2>2. gs.label = {}
    BY <1>5, <1>8 DEF SetLabel, NextStep, AfterAnnotation
  <2>. QED  BY <2>1, <2>2
<1>. QED  BY <1>2, <1>3, <1>6, <1>7, <1>8 DEF Reconcile

LEMMA MissedKept ==
    ASSUME TypeOK, MissedInv, [Next]_vars
    PROVE  MissedInv'
<1>1. Quiet' => IF pc' = "idle" THEN NothingLeft' ELSE UnderWay'
  <2>. SUFFICES ASSUME Quiet'
                PROVE  IF pc' = "idle" THEN NothingLeft' ELSE UnderWay'
    OBVIOUS
  <2>1. CASE Begin
    BY <2>1, BeginMissesNothing
  <2>2. CASE RecordExit
    BY <2>2, RecordExitMissesNothing
  <2>3. CASE Reconcile /\ ~Begin /\ ~RecordExit
    BY <2>3, OthersNotify
  <2>4. CASE Cluster
    BY <2>4, ClusterChanges, NotifyMeans DEF Quiet
  <2>5. CASE DeliverGs \/ DeliverPod \/ Restart
    BY <2>5 DEF DeliverGs, DeliverPod, Restart, Quiet
  <2>6. CASE UNCHANGED vars
    <3>1. (NothingLeft <=> NothingLeft') /\ (UnderWay <=> UnderWay') /\ (Quiet <=> Quiet')
      BY <2>6 DEF vars, objects, mine, NothingLeft, UnderWay, UpToDate, Quiet, NextStep,
                  Annotation, AfterAnnotation
    <3>. QED  BY <2>6, <3>1 DEF vars, MissedInv
  <2>. QED  BY <2>1, <2>2, <2>3, <2>4, <2>5, <2>6 DEF Next
<1>2. CopiesInv'
  BY CopiesKept
<1>. QED  BY <1>1, <1>2 DEF MissedInv

(* Where nothing waits and nothing is under way, nothing is left undone:   *)
(* no failure, stale read or restart loses the work of a reconciliation.   *)
THEOREM MissedCorrect == Spec => []NothingIsMissed
<1>1. Init => MissedInv
  BY DEF Init, MissedInv, CopiesInv, Quiet
<1>2. TypeOK /\ MissedInv /\ [Next]_vars => MissedInv'
  BY MissedKept
<1>3. MissedInv => NothingIsMissed
  BY DEF MissedInv, Quiet, NothingLeft, NothingIsMissed
<1>. QED  BY <1>1, <1>2, <1>3, TypeCorrect, PTL DEF Spec

=============================================================================
