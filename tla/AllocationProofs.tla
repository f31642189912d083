-------------------------- MODULE AllocationProofs --------------------------
(* Theorems about Allocation, for every value of its constants: its        *)
(* invariants, its action properties, and that it implements               *)
(* AllocationService.                                                      *)
EXTENDS Allocation, TLAPS

-----------------------------------------------------------------------------
(* Type correctness, in four parts that different actions disturb.         *)

StoreOK ==
    /\ history \in [GameServers -> Seq(Version)]
    /\ cached \in [GameServers -> Nat]
    /\ \A g \in GameServers : cached[g] <= Len(history[g])

QueueOK ==
    /\ pending \subseteq GameServers
    /\ worker \in Entry \cup {NoEntry}
    /\ queue \in [Builds -> SUBSET Entry]
    /\ indexed \subseteq GameServers
    /\ events \in Seq(GameServers)

(* A handler in the loop has a request, and one that popped has an entry.  *)
HandlersOK ==
    /\ pc \in [Handlers -> {"idle", "pop", "patch", "signal"}]
    /\ args \in [Handlers -> Request \cup {NoRequest}]
    /\ held \in [Handlers -> Entry \cup {NoEntry}]
    /\ tries \in [Handlers -> 0 .. AllocationTries - 1]
    /\ answer \in [Handlers -> Answer \cup {NoAnswer}]
    /\ \A h \in Handlers :
          /\ pc[h] # "idle" => args[h] \in Request
          /\ pc[h] \in {"patch", "signal"} => held[h] \in Entry

CountersOK ==
    /\ serving \in BOOLEAN
    /\ lateHeartbeats \in Nat
    /\ patchFaults \in Nat
    /\ restarts \in Nat

TypeInv == StoreOK /\ QueueOK /\ HandlersOK /\ CountersOK

LEMMA TypeInvIsTypeOK == TypeInv => TypeOK
  BY DEF TypeInv, StoreOK, QueueOK, HandlersOK, CountersOK, TypeOK

(* The current version of an object that exists is a version.              *)
LEMMA CurrentIsVersion ==
    ASSUME history \in [GameServers -> Seq(Version)], NEW g \in GameServers,
           Exists(g)
    PROVE  /\ Current(g) \in Version
           /\ Len(history[g]) \in Nat \ {0}
  BY DEF Exists, Current

LEMMA EntryIsNotNoEntry ==
    ASSUME AllocationAssumption, NEW e \in Entry
    PROVE  e # NoEntry
  BY DEF AllocationAssumption, Entry, NoEntry

(* A write adds one version to one object and leaves the others alone.     *)
LEMMA WriteAppends ==
    ASSUME history \in [GameServers -> Seq(Version)], NEW g \in GameServers,
           NEW v \in Version, Write(g, v)
    PROVE  /\ history' \in [GameServers -> Seq(Version)]
           /\ Len(history'[g]) = Len(history[g]) + 1
           /\ history'[g][Len(history[g]) + 1] = v
           /\ \A k \in GameServers :
                 /\ k # g => history'[k] = history[k]
                 /\ Len(history[k]) \in Nat
                 /\ Len(history[k]) <= Len(history'[k])
                 /\ \A i \in 1 .. Len(history[k]) : history'[k][i] = history[k][i]
  BY DEF Write

(* What a step may do to the store: nothing, or write one version.         *)
StoreStep ==
    \/ UNCHANGED history
    \/ \E g \in GameServers, v \in Version : Write(g, v)

LEMMA BookingIsWrite ==
    ASSUME StoreOK, HandlersOK, NEW h \in Handlers, pc[h] = "patch",
           Locked(held[h]), Activate(held[h], args[h].session)
    PROVE  \E v \in Version : Write(held[h].gs, v)
<1>1. held[h].gs \in GameServers /\ args[h].session \in Sessions
  BY DEF HandlersOK, Entry, Request
<1>2. [Current(held[h].gs) EXCEPT !.state = "Active",
                                  !.session = args[h].session] \in Version
  BY <1>1, CurrentIsVersion DEF StoreOK, Locked, Version, States
<1> QED
  BY <1>2 DEF Activate

LEMMA EnvironmentIsWrite ==
    ASSUME StoreOK, NEW g \in GameServers, Environment(g)
    PROVE  \E v \in Version : Write(g, v)
<1>1. CASE CreateGameServer(g)
  BY <1>1 DEF CreateGameServer, Version, States, Healths
<1>2. CASE ~CreateGameServer(g)
  BY <1>2, CurrentIsVersion
     DEF StoreOK, Environment, Heartbeat, MarkUnhealthy, ProcessExit,
         DeleteFinished, ScaleDown, Version, States, Healths
<1> QED
  BY <1>1, <1>2

LEMMA NextIsStoreStep ==
    ASSUME StoreOK, HandlersOK, [Next]_vars
    PROVE  StoreStep
<1>1. CASE \E g \in GameServers : Environment(g)
  BY <1>1, EnvironmentIsWrite DEF StoreStep
<1>2. ASSUME NEW h \in Handlers, Patch(h) \/ PatchFails(h)
      PROVE  StoreStep
  <2>1. held[h].gs \in GameServers
    BY <1>2 DEF HandlersOK, Patch, PatchFails, Entry
  <2> QED
    BY <1>2, <2>1, BookingIsWrite DEF StoreStep, Patch, PatchFails
<1>3. CASE UNCHANGED history
  BY <1>3 DEF StoreStep
<1> QED
  BY <1>1, <1>2, <1>3
     DEF Next, vars, server, Deliver, ReconcileRead, ReconcilePush,
         ReconcilePanics, Start, ForwardEvent, Restart, Receive, Handle, Pop,
         Signal

(* The other writers touch nothing but the store.                          *)
LEMMA EnvironmentLeaves ==
    ASSUME NEW g, Environment(g)
    PROVE  UNCHANGED <<cached, operator, handler, patchFaults, service>>
  BY DEF Environment, CreateGameServer, Heartbeat, MarkUnhealthy, ProcessExit,
         DeleteFinished, ScaleDown

LEMMA StoreOKStep ==
    ASSUME StoreOK, HandlersOK, [Next]_vars
    PROVE  StoreOK'
<1> DEFINE Grows == /\ history' \in [GameServers -> Seq(Version)]
                    /\ \A k \in GameServers :
                          /\ Len(history[k]) \in Nat
                          /\ Len(history'[k]) \in Nat
                          /\ Len(history[k]) <= Len(history'[k])
<1>1. Grows
  <2>1. CASE UNCHANGED history
    BY <2>1 DEF StoreOK
  <2>2. ASSUME NEW g \in GameServers, NEW v \in Version, Write(g, v)
        PROVE  Grows
    BY <2>2, WriteAppends DEF StoreOK
  <2> HIDE DEF Grows
  <2> QED
    BY <2>1, <2>2, NextIsStoreStep DEF StoreStep
<1>2. CASE UNCHANGED cached
  BY <1>1, <1>2 DEF StoreOK
<1>3. ASSUME NEW g \in GameServers, Deliver(g)
      PROVE  StoreOK'
  <2>1. PICK v \in (cached[g] + 1) .. Len(history[g]) :
            cached' = [cached EXCEPT ![g] = v]
    BY <1>3 DEF Deliver
  <2>2. history' = history
    BY <1>3 DEF Deliver, server
  <2> QED
    BY <1>1, <2>1, <2>2 DEF StoreOK
<1>4. CASE Restart
  BY <1>1, <1>4 DEF Restart, server, StoreOK
<1>5. ASSUME NEW g \in GameServers, ReconcileRead(g) \/ Environment(g)
      PROVE  UNCHANGED cached
  BY <1>5, EnvironmentLeaves DEF ReconcileRead
<1>6. ASSUME ReconcilePush \/ ReconcilePanics \/ Start \/ ForwardEvent
      PROVE  UNCHANGED cached
  BY <1>6 DEF ReconcilePush, ReconcilePanics, Start, ForwardEvent, Signal
<1>7. ASSUME NEW h \in Handlers, NEW s \in Sessions \cup {MalformedSession},
             NEW b \in Builds \cup {UnknownBuild}, Receive(h, s, b)
      PROVE  UNCHANGED cached
  BY <1>7 DEF Receive
<1>8. ASSUME NEW h \in Handlers, Handle(h)
      PROVE  UNCHANGED cached
  <2>1. CASE Pop(h) \/ Signal(h)
    BY <2>1 DEF Pop, Signal
  <2>2. CASE Patch(h)
    BY <2>2 DEF Patch
  <2>3. CASE PatchFails(h)
    BY <2>3 DEF PatchFails
  <2> QED
    BY <1>8, <2>1, <2>2, <2>3 DEF Handle
<1>9. ASSUME UNCHANGED vars
      PROVE  UNCHANGED cached
  BY <1>9 DEF vars
<1> HIDE DEF Grows
<1>10. \/ UNCHANGED cached
       \/ \E g \in GameServers : Deliver(g)
       \/ Restart
  BY <1>5, <1>6, <1>7, <1>8, <1>9 DEF Next
<1> QED
  BY <1>2, <1>3, <1>4, <1>10

LEMMA QueueOKStep ==
    ASSUME AllocationAssumption, StoreOK, QueueOK, HandlersOK, [Next]_vars
    PROVE  QueueOK'
<1>1. CASE UNCHANGED operator
  BY <1>1 DEF operator, QueueOK
<1>2. ASSUME NEW g \in GameServers, Deliver(g)
      PROVE  QueueOK'
  BY <1>2 DEF Deliver, QueueOK
<1>3. ASSUME NEW g \in GameServers, ReconcileRead(g)
      PROVE  QueueOK'
  <2>1. worker' \in Entry \cup {NoEntry}
    BY <1>3 DEF ReconcileRead, InCache, Entry, StoreOK, QueueOK
  <2>2. queue' \in [Builds -> SUBSET Entry] /\ indexed' \subseteq GameServers
    BY <1>3 DEF ReconcileRead, RemoveFromQueue, QueueOK
  <2> QED
    BY <1>3, <2>1, <2>2 DEF ReconcileRead, QueueOK
<1>4. CASE ReconcilePush
  <2>1. worker \in Entry /\ worker.gs \in GameServers
    BY <1>4 DEF ReconcilePush, QueueOK, Entry
  <2>2. queue' \in [Builds -> SUBSET Entry] /\ indexed' \subseteq GameServers
    BY <1>4, <2>1 DEF ReconcilePush, PushToQueue, QueueOK
  <2> QED
    BY <1>4, <2>2 DEF ReconcilePush, QueueOK
<1>5. CASE ReconcilePanics
  BY <1>5 DEF ReconcilePanics, QueueOK, Entry
<1>6. CASE Start
  BY <1>6 DEF Start, QueueOK
<1>7. CASE ForwardEvent
  BY <1>7 DEF ForwardEvent, QueueOK
<1>8. CASE Restart
  BY <1>8 DEF Restart, QueueOK
<1>9. ASSUME NEW h \in Handlers, Pop(h)
      PROVE  QueueOK'
  BY <1>9 DEF Pop, QueueOK
<1>10. ASSUME NEW h \in Handlers, Signal(h)
       PROVE  QueueOK'
  <2>1. held[h].gs \in GameServers
    BY <1>10 DEF Signal, HandlersOK, Entry
  <2> QED
    BY <1>10, <2>1 DEF Signal, QueueOK
<1> QED
  BY <1>1, <1>2, <1>3, <1>4, <1>5, <1>6, <1>7, <1>8, <1>9, <1>10
     DEF Next, vars, operator, Receive, Handle, Patch, PatchFails,
         Environment, CreateGameServer, Heartbeat, MarkUnhealthy,
         ProcessExit, DeleteFinished, ScaleDown

LEMMA ReplyKeepsHandlersOK ==
    ASSUME AllocationAssumption, HandlersOK, NEW h \in Handlers,
           NEW ans \in Answer \cup {NoAnswer}, Reply(h, ans)
    PROVE  HandlersOK'
<1>1. 0 \in 0 .. AllocationTries - 1
  BY DEF AllocationAssumption
<1> QED
  BY <1>1 DEF Reply, HandlersOK

LEMMA HandlersOKStep ==
    ASSUME AllocationAssumption, StoreOK, QueueOK, HandlersOK, [Next]_vars
    PROVE  HandlersOK'
<1>1. CASE UNCHANGED handler
  BY <1>1 DEF handler, HandlersOK
<1>2. CASE Restart
  <2>1. 0 \in 0 .. AllocationTries - 1
    BY DEF AllocationAssumption
  <2> QED
    BY <1>2, <2>1 DEF Restart, HandlersOK
<1>3. ASSUME NEW h \in Handlers,
             NEW s \in Sessions \cup {MalformedSession},
             NEW b \in Builds \cup {UnknownBuild}, Receive(h, s, b)
      PROVE  HandlersOK'
  <2>1. CASE Reply(h, NoAnswer)
    BY <2>1, ReplyKeepsHandlersOK
  <2>2. ASSUME NEW g \in GameServers, s # MalformedSession,
               Reply(h, [session |-> s, gs |-> g])
        PROVE  HandlersOK'
    BY <2>2, ReplyKeepsHandlersOK DEF Answer
  <2>3. ASSUME s # MalformedSession, b # UnknownBuild,
               pc' = [pc EXCEPT ![h] = "pop"],
               args' = [args EXCEPT ![h] = [session |-> s, build |-> b]],
               answer' = [answer EXCEPT ![h] = NoAnswer],
               UNCHANGED <<held, tries>>
        PROVE  HandlersOK'
    <3>1. [session |-> s, build |-> b] \in Request
      BY <2>3 DEF Request
    <3> QED
      BY <2>3, <3>1 DEF HandlersOK
  <2> QED
    BY <1>3, <2>1, <2>2, <2>3 DEF Receive
<1>4. ASSUME NEW h \in Handlers, Pop(h)
      PROVE  HandlersOK'
  <2>1. args[h] \in Request /\ args[h].build \in Builds
    BY <1>4 DEF Pop, HandlersOK, Request
  <2>2. Tops(args[h].build) \subseteq Entry
    BY <2>1 DEF Tops, QueueOK
  <2>3. CASE Reply(h, NoAnswer)
    BY <2>3, ReplyKeepsHandlersOK
  <2>4. ASSUME NEW e \in Tops(args[h].build),
               held' = [held EXCEPT ![h] = e],
               pc' = [pc EXCEPT ![h] = "patch"],
               UNCHANGED <<args, tries, answer>>
        PROVE  HandlersOK'
    BY <2>1, <2>2, <2>4 DEF HandlersOK
  <2> QED
    BY <1>4, <2>3, <2>4 DEF Pop
<1>5. ASSUME NEW h \in Handlers, Patch(h) \/ PatchFails(h)
      PROVE  HandlersOK'
  <2>1. [session |-> args[h].session, gs |-> held[h].gs] \in Answer
    BY <1>5 DEF Patch, PatchFails, HandlersOK, Request, Entry, Answer
  <2>2. CASE Reply(h, [session |-> args[h].session, gs |-> held[h].gs])
    BY <2>1, <2>2, ReplyKeepsHandlersOK
  <2>3. CASE /\ pc[h] = "patch"
             /\ pc' = [pc EXCEPT ![h] = "signal"]
             /\ UNCHANGED <<args, held, tries, answer>>
    BY <2>3 DEF HandlersOK
  <2> QED
    BY <1>5, <2>2, <2>3 DEF Patch, PatchFails
<1>6. ASSUME NEW h \in Handlers, Signal(h)
      PROVE  HandlersOK'
  <2>1. CASE Reply(h, NoAnswer)
    BY <2>1, ReplyKeepsHandlersOK
  <2>2. CASE ~(tries[h] + 1 = AllocationTries)
    <3>1. tries[h] + 1 \in 0 .. AllocationTries - 1
      BY <2>2 DEF HandlersOK, AllocationAssumption
    <3>2. /\ pc[h] = "signal"
          /\ pc' = [pc EXCEPT ![h] = "pop"]
          /\ held' = [held EXCEPT ![h] = NoEntry]
          /\ tries' = [tries EXCEPT ![h] = tries[h] + 1]
          /\ UNCHANGED <<args, answer>>
      BY <1>6, <2>2 DEF Signal
    <3> QED
      BY <3>1, <3>2 DEF HandlersOK
  <2> QED
    BY <1>6, <2>1, <2>2 DEF Signal
<1> QED
  BY <1>1, <1>2, <1>3, <1>4, <1>5, <1>6
     DEF Next, vars, Deliver, ReconcileRead, ReconcilePush, ReconcilePanics,
         Start, ForwardEvent, Handle, Environment, CreateGameServer,
         Heartbeat, MarkUnhealthy, ProcessExit, DeleteFinished, ScaleDown

LEMMA CountersOKStep ==
    ASSUME CountersOK, [Next]_vars
    PROVE  CountersOK'
<1>1. CASE \E g \in GameServers : Environment(g)
  <2>1. /\ UNCHANGED <<patchFaults, service>>
        /\ lateHeartbeats' \in {lateHeartbeats, lateHeartbeats + 1}
    BY <1>1 DEF Environment, CreateGameServer, Heartbeat, MarkUnhealthy,
                ProcessExit, DeleteFinished, ScaleDown
  <2> QED
    BY <2>1 DEF CountersOK, service
<1>2. CASE \E h \in Handlers : PatchFails(h)
  BY <1>2 DEF CountersOK, service, PatchFails
<1>3. CASE Restart
  <2>1. /\ serving' = FALSE
        /\ restarts' = restarts + 1
        /\ UNCHANGED <<lateHeartbeats, patchFaults>>
    BY <1>3 DEF Restart, server
  <2>2. serving' \in BOOLEAN
    BY <2>1
  <2>3. restarts' \in Nat
    BY <2>1 DEF CountersOK
  <2> QED
    BY <2>1, <2>2, <2>3 DEF CountersOK
<1>4. CASE Start
  BY <1>4 DEF CountersOK, server, Start
<1>5. CASE UNCHANGED <<lateHeartbeats, patchFaults, service>>
  BY <1>5 DEF CountersOK, service
<1> QED
  BY <1>1, <1>2, <1>3, <1>4, <1>5
     DEF Next, vars, server, Deliver, ReconcileRead, ReconcilePush,
         ReconcilePanics, ForwardEvent, Receive, Handle, Pop, Patch, Signal

LEMMA TypeInvInit == AllocationAssumption /\ Init => TypeInv
<1> SUFFICES ASSUME AllocationAssumption, Init PROVE TypeInv
  OBVIOUS
<1>1. 0 \in 0 .. AllocationTries - 1
  BY DEF AllocationAssumption
<1>2. StoreOK
  BY DEF Init, StoreOK
<1>3. QueueOK
  BY DEF Init, QueueOK
<1>4. HandlersOK
  BY <1>1 DEF Init, HandlersOK
<1>5. CountersOK
  BY DEF Init, CountersOK
<1> QED
  BY <1>2, <1>3, <1>4, <1>5 DEF TypeInv

LEMMA TypeInvStep ==
    ASSUME AllocationAssumption, TypeInv, [Next]_vars
    PROVE  TypeInv'
  BY StoreOKStep, QueueOKStep, HandlersOKStep, CountersOKStep DEF TypeInv

(* Every variable of the allocation path keeps its type, whatever the      *)
(* number of servers, builds, sessions and concurrent requests             *)
(* (allocation_api_server.go, gameserverqueue.go).                         *)
THEOREM TypeCorrect == Spec => []TypeOK
<1>1. Init => TypeInv
  BY AllocationAssumption, TypeInvInit
<1>2. TypeInv /\ [Next]_vars => TypeInv'
  BY AllocationAssumption, TypeInvStep
<1> QED
  BY <1>1, <1>2, TypeInvIsTypeOK, PTL DEF Spec

-----------------------------------------------------------------------------
(* Entries name versions in which the server was StandingBy                *)

LEMMA OfferedStays ==
    ASSUME StoreOK, StoreStep, NEW e \in Entry, Offered(e)
    PROVE  Offered(e)'
<1>1. e.gs \in GameServers /\ e.rv \in Nat
  BY DEF Entry
<1>2. CASE UNCHANGED history
  BY <1>2 DEF Offered
<1>3. ASSUME NEW g \in GameServers, NEW v \in Version, Write(g, v)
      PROVE  Offered(e)'
  <2>1. /\ Len(history[e.gs]) \in Nat
        /\ Len(history'[e.gs]) \in Nat
        /\ Len(history[e.gs]) <= Len(history'[e.gs])
        /\ history'[e.gs][e.rv] = history[e.gs][e.rv]
    BY <1>1, <1>3, WriteAppends DEF StoreOK, Offered
  <2> QED
    BY <1>1, <2>1 DEF Offered
<1> QED
  BY <1>2, <1>3 DEF StoreStep

(* The same statement, one entry at a time.                                *)
InUse(e) ==
    \/ worker = e
    \/ \E b \in Builds : e \in queue[b]
    \/ \E h \in Handlers : held[h] = e

EntriesInv == \A e \in Entry : InUse(e) => Offered(e)

LEMMA EntriesInvIsProperty ==
    ASSUME AllocationAssumption, TypeInv
    PROVE  EntriesInv <=> EntriesWereStandingBy
  BY EntryIsNotNoEntry
     DEF EntriesInv, InUse, EntriesWereStandingBy, TypeInv, QueueOK, HandlersOK

(* A queue loses the entries of one server, or none.                       *)
LEMMA RemoveMeans ==
    ASSUME NEW g, RemoveFromQueue(g), queue \in [Builds -> SUBSET Entry]
    PROVE  \A b \in Builds : queue'[b] \subseteq queue[b]
<1>1. \/ queue' = queue
      \/ queue' = [queue EXCEPT ![BuildOf[g]] = {e \in @ : e.gs # g}]
  BY DEF RemoveFromQueue
<1> QED
  BY <1>1

(* An entry in use after a step was in use before, or was read from the    *)
(* cache by the controller.                                                *)
LEMMA EntriesInUse ==
    ASSUME AllocationAssumption, TypeInv, [Next]_vars,
           NEW e \in Entry, InUse(e)', ~InUse(e)
    PROVE  \E g \in GameServers : /\ ReconcileRead(g)
                                  /\ e = [gs |-> g, rv |-> cached[g]]
                                  /\ InCache(g)
                                  /\ IsQueueable(g)
<1> DEFINE Read == \E g \in GameServers : /\ ReconcileRead(g)
                                          /\ e = [gs |-> g, rv |-> cached[g]]
                                          /\ InCache(g)
                                          /\ IsQueueable(g)
<1>0. e # NoEntry
  BY EntryIsNotNoEntry
<1>1. ASSUME worker' # worker, worker' = e
      PROVE  Read
  <2>1. ASSUME NEW g \in GameServers, ReconcileRead(g)
        PROVE  Read
    BY <1>0, <1>1, <2>1 DEF ReconcileRead
  <2>2. ASSUME NEW g \in GameServers, Deliver(g) \/ Environment(g)
        PROVE  worker' = worker
    BY <2>2, EnvironmentLeaves DEF Deliver, operator
  <2>3. CASE ReconcilePush \/ ReconcilePanics \/ Restart
    BY <1>0, <1>1, <2>3 DEF ReconcilePush, ReconcilePanics, Restart
  <2>4. CASE Start \/ ForwardEvent
    BY <1>1, <2>4 DEF Start, ForwardEvent
  <2>5. ASSUME NEW h \in Handlers,
               \/ Handle(h)
               \/ \E s \in Sessions \cup {MalformedSession},
                     b \in Builds \cup {UnknownBuild} : Receive(h, s, b)
        PROVE  worker' = worker
    BY <2>5 DEF Receive, Handle, Pop, Patch, PatchFails, Signal, operator
  <2>6. CASE UNCHANGED vars
    BY <1>1, <2>6 DEF vars, operator
  <2> QED
    BY <1>1, <2>1, <2>2, <2>3, <2>4, <2>5, <2>6 DEF Next
<1>2. ASSUME NEW b \in Builds, e \in queue'[b]
      PROVE  e \in queue[b] \/ worker = e
  <2>1. CASE UNCHANGED queue
    BY <1>2, <2>1
  <2>2. CASE queue' = [c \in Builds |-> {}]
    BY <1>2, <2>2
  <2>3. ASSUME NEW g \in GameServers, ReconcileRead(g)
        PROVE  e \in queue[b]
    BY <1>2, <2>3, RemoveMeans DEF ReconcileRead, TypeInv, QueueOK
  <2>4. CASE ReconcilePush
    BY <1>2, <2>4 DEF ReconcilePush, PushToQueue, TypeInv, QueueOK
  <2>5. ASSUME NEW h \in Handlers, Pop(h)
        PROVE  e \in queue[b]
    BY <1>2, <2>5 DEF Pop, TypeInv, QueueOK
  <2> QED
    BY <2>1, <2>2, <2>3, <2>4, <2>5
       DEF Next, vars, operator, Deliver, ReconcilePanics, Start,
           ForwardEvent, Restart, Receive, Handle, Patch, PatchFails,
           Signal, Environment, CreateGameServer, Heartbeat, MarkUnhealthy,
           ProcessExit, DeleteFinished, ScaleDown
<1>3. ASSUME NEW h \in Handlers, held'[h] = e
      PROVE  held[h] = e \/ \E b \in Builds : e \in queue[b]
  <2>1. ASSUME NEW k \in Handlers, Pop(k)
        PROVE  held[h] = e \/ \E b \in Builds : e \in queue[b]
    BY <1>0, <1>3, <2>1 DEF Pop, Tops, Reply, TypeInv, HandlersOK, QueueOK, Request
  <2>3. CASE UNCHANGED held
    BY <1>3, <2>3
  <2>5. CASE Restart
    BY <1>0, <1>3, <2>5 DEF Restart
  <2>6. ASSUME NEW k \in Handlers,
               NEW s \in Sessions \cup {MalformedSession},
               NEW b \in Builds \cup {UnknownBuild}, Receive(k, s, b)
        PROVE  held[h] = e
    <3>1. UNCHANGED held \/ held' = [held EXCEPT ![k] = NoEntry]
      BY <2>6, Zenon DEF Receive, Reply
    <3> QED
      BY <1>0, <1>3, <3>1 DEF TypeInv, HandlersOK
  <2>7. ASSUME NEW k \in Handlers, Patch(k) \/ PatchFails(k) \/ Signal(k)
        PROVE  held[h] = e
    <3>1. Patch(k) \/ PatchFails(k) \/ Signal(k) =>
             \/ held' = held
             \/ held' = [held EXCEPT ![k] = NoEntry]
      BY Zenon DEF Patch, PatchFails, Signal, Reply
    <3> QED
      BY <1>0, <1>3, <2>7, <3>1 DEF TypeInv, HandlersOK
  <2> QED
    BY <2>1, <2>3, <2>5, <2>6, <2>7
       DEF Next, vars, handler, Deliver, ReconcileRead, ReconcilePush,
           ReconcilePanics, Start, ForwardEvent, Handle, Environment,
           CreateGameServer, Heartbeat, MarkUnhealthy, ProcessExit,
           DeleteFinished, ScaleDown
<1> QED
  BY <1>1, <1>2, <1>3 DEF InUse

LEMMA EntriesStep ==
    ASSUME AllocationAssumption, TypeInv, EntriesInv, [Next]_vars
    PROVE  EntriesInv'
<1> SUFFICES ASSUME NEW e \in Entry, InUse(e)'
             PROVE  Offered(e)'
  BY DEF EntriesInv
<1>1. StoreOK /\ StoreStep
  BY NextIsStoreStep DEF TypeInv
<1>2. CASE InUse(e)
  BY <1>1, <1>2, OfferedStays DEF EntriesInv
<1>3. CASE ~InUse(e)
  <2>1. PICK g \in GameServers : /\ ReconcileRead(g)
                                 /\ e = [gs |-> g, rv |-> cached[g]]
                                 /\ InCache(g)
                                 /\ IsQueueable(g)
    BY <1>3, EntriesInUse
  <2>2. cached[g] \in 1 .. Len(history[g])
    BY <1>1, <2>1 DEF StoreOK, InCache
  <2>3. Offered(e)
    BY <2>1, <2>2 DEF Offered, IsQueueable, View
  <2> QED
    BY <1>1, <2>3, OfferedStays
<1> QED
  BY <1>2, <1>3

LEMMA EntriesInit ==
    ASSUME AllocationAssumption, Init
    PROVE  EntriesInv
<1> SUFFICES ASSUME NEW e \in Entry, InUse(e)
             PROVE  FALSE
  BY DEF EntriesInv
<1> QED
  BY EntryIsNotNoEntry DEF Init, InUse

(* What the theorems below have in common: both invariants, at every step. *)
LEMMA Invariants == Spec => [](TypeInv /\ EntriesInv)
<1>1. Init => TypeInv /\ EntriesInv
  BY AllocationAssumption, TypeInvInit, EntriesInit
<1>2. TypeInv /\ EntriesInv /\ [Next]_vars => TypeInv' /\ EntriesInv'
  BY AllocationAssumption, TypeInvStep, EntriesStep
<1> QED
  BY <1>1, <1>2, PTL DEF Spec

(* Whatever the allocation API server queues, pushes or pops, the server   *)
(* was StandingBy in the version that the entry names.                     *)
THEOREM EntriesCorrect == Spec => []EntriesWereStandingBy
<1>1. TypeInv /\ EntriesInv => EntriesWereStandingBy
  BY AllocationAssumption, EntriesInvIsProperty
<1> QED
  BY <1>1, Invariants, PTL

-----------------------------------------------------------------------------
(* The sessions of a server                                                *)

(* The states before a server has been allocated.                          *)
Early == {"", "Initializing", "StandingBy"}

(* What a step may write: a session changes only when a StandingBy server  *)
(* becomes Active, scaling down spares Active servers, and only a late     *)
(* heartbeat turns a server back into one that can be allocated.           *)
GoodWrite(g, v) ==
    /\ Write(g, v)
    /\ history[g] = <<>> => v.session = NoSession /\ v.state = ""
    /\ history[g] # <<>> /\ v.session # Current(g).session =>
          Current(g).state = "StandingBy" /\ v.state = "Active"
    /\ history[g] # <<>> /\ v.state = "ScaledDown" =>
          Current(g).state # "Active"
    /\ history[g] # <<>> /\ v.state \in Early
          /\ lateHeartbeats' = lateHeartbeats => Current(g).state \in Early

LEMMA NextIsGoodWrite ==
    ASSUME AllocationAssumption, TypeInv, EntriesInv, [Next]_vars
    PROVE  \/ UNCHANGED history
           \/ \E g \in GameServers, v \in Version : GoodWrite(g, v)
<1>1. ASSUME NEW h \in Handlers, pc[h] = "patch", Locked(held[h]),
             Activate(held[h], args[h].session)
      PROVE  \E g \in GameServers, v \in Version : GoodWrite(g, v)
  <2>1. held[h] \in Entry /\ held[h].gs \in GameServers
    BY <1>1 DEF TypeInv, HandlersOK, Entry
  <2>2. PICK v \in Version : Write(held[h].gs, v)
    BY <1>1, BookingIsWrite DEF TypeInv
  <2>3. Current(held[h].gs).state = "StandingBy"
    BY <1>1, <2>1 DEF EntriesInv, InUse, Offered, Locked, Current
  <2>4. Current(held[h].gs) \in Version
    BY <1>1, <2>1, CurrentIsVersion DEF TypeInv, StoreOK, Locked
  <2> DEFINE w == [Current(held[h].gs) EXCEPT !.state = "Active",
                                              !.session = args[h].session]
  <2>5. w \in Version /\ w.state = "Active"
    BY <1>1, <2>4 DEF TypeInv, HandlersOK, Request, Version, States
  <2>6. history[held[h].gs] # <<>>
    BY <1>1 DEF Locked, Exists
  <2>7. GoodWrite(held[h].gs, w)
    BY <1>1, <2>3, <2>5, <2>6 DEF GoodWrite, Activate, Early
  <2> QED
    BY <2>1, <2>5, <2>7
<1>2. ASSUME NEW g \in GameServers, Environment(g)
      PROVE  \E v \in Version : GoodWrite(g, v)
  <2>1. CASE CreateGameServer(g)
    <3>1. [state |-> "", health |-> "", session |-> NoSession] \in Version
      BY DEF Version, States, Healths
    <3> QED
      BY <2>1, <3>1 DEF CreateGameServer, GoodWrite
  <2>2. CASE ~CreateGameServer(g)
    <3>1. Exists(g) /\ history[g] # <<>> /\ Current(g) \in Version
      BY <1>2, <2>2, CurrentIsVersion
         DEF TypeInv, StoreOK, Exists, Environment, Heartbeat, MarkUnhealthy,
             ProcessExit, DeleteFinished, ScaleDown
    <3>2. CASE ScaleDown(g)
      <4>1. Current(g).state # "Active"
        BY <3>2 DEF ScaleDown, View, Current
      <4>2. [Current(g) EXCEPT !.state = "ScaledDown"] \in Version
        BY <3>1 DEF Version, States
      <4> QED
        BY <3>1, <3>2, <4>1, <4>2 DEF ScaleDown, GoodWrite, Version, Early
    <3>3. ASSUME NEW s \in States \ {"ScaledDown"}, NEW x \in Healths,
                 s \in Early /\ lateHeartbeats' = lateHeartbeats =>
                    Current(g).state \in Early,
                 Write(g, [Current(g) EXCEPT !.state = s, !.health = x])
          PROVE  \E v \in Version : GoodWrite(g, v)
      <4>1. [Current(g) EXCEPT !.state = s, !.health = x] \in Version
        BY <3>1 DEF Version
      <4> QED
        BY <3>1, <3>3, <4>1 DEF GoodWrite, Version
    <3>4. \A s \in States : [Current(g) EXCEPT !.state = s] =
            [Current(g) EXCEPT !.state = s, !.health = Current(g).health]
      BY <3>1 DEF Version
    <3>5. \A x \in Healths : [Current(g) EXCEPT !.health = x] =
            [Current(g) EXCEPT !.state = Current(g).state, !.health = x]
      BY <3>1 DEF Version
    <3>6. Current(g).state # "ScaledDown" /\ Current(g).state \in States
          /\ Current(g).health \in Healths
      BY <3>1 DEF Exists, Gone, Version
    <3>7. ASSUME NEW s \in {"Initializing", "StandingBy", "Active"},
                 NEW x \in {"Healthy", "Unhealthy"}, Heartbeat(g, s, x)
          PROVE  \E v \in Version : GoodWrite(g, v)
      <4>1. s \in Early /\ lateHeartbeats' = lateHeartbeats =>
               Current(g).state \in Early
        <5>1. IsValidStateTransition(Current(g).state, s) \/
              lateHeartbeats' = lateHeartbeats + 1
          BY <3>7 DEF Heartbeat
        <5>2. IsValidStateTransition(Current(g).state, s) =>
                 s \notin Early \/ Current(g).state \in Early
          BY DEF IsValidStateTransition, Early
        <5>3. lateHeartbeats' # lateHeartbeats + 1 \/
              lateHeartbeats' # lateHeartbeats
          BY DEF TypeInv, CountersOK
        <5> QED
          BY <5>1, <5>2, <5>3
      <4>2. Write(g, [Current(g) EXCEPT !.state = s, !.health = x])
        BY <3>7 DEF Heartbeat
      <4> QED
        BY <3>3, <4>1, <4>2 DEF States, Healths
    <3>8. CASE MarkUnhealthy(g)
      <4>1. Write(g, [Current(g) EXCEPT !.state = Current(g).state,
                                        !.health = "Unhealthy"])
        BY <3>5, <3>8 DEF MarkUnhealthy, Healths
      <4> QED
        BY <3>3, <3>6, <4>1 DEF Healths
    <3>9. ASSUME NEW s \in {"GameCompleted", "Crashed", "Deleted"},
                 Write(g, [Current(g) EXCEPT !.state = s])
          PROVE  \E v \in Version : GoodWrite(g, v)
      <4>1. s \in States \ {"ScaledDown"} /\ s \notin Early
        BY DEF States, Early
      <4>2. Write(g, [Current(g) EXCEPT !.state = s,
                                        !.health = Current(g).health])
        BY <3>4, <3>9, <4>1
      <4> QED
        BY <3>3, <3>6, <4>1, <4>2
    <3>10. CASE \/ \E s \in {"GameCompleted", "Crashed"} : ProcessExit(g, s)
                \/ DeleteFinished(g)
      BY <3>9, <3>10 DEF ProcessExit, DeleteFinished, States
    <3> QED
      BY <1>2, <2>2, <3>2, <3>7, <3>8, <3>10 DEF Environment
  <2> QED
    BY <2>1, <2>2
<1> QED
  BY <1>1, <1>2
     DEF Next, vars, server, Deliver, ReconcileRead, ReconcilePush,
         ReconcilePanics, Start, ForwardEvent, Restart, Receive, Handle, Pop,
         Patch, PatchFails, Signal

SessionsInv == SessionTakesStandingBy /\ ScaleDownSparesActive

(* The new version of a step, and all the old ones.                        *)
LEMMA SessionsStep ==
    ASSUME AllocationAssumption, TypeInv, EntriesInv, SessionsInv,
           [Next]_vars
    PROVE  SessionsInv'
<1>1. CASE UNCHANGED history
  BY <1>1 DEF SessionsInv, SessionTakesStandingBy, ScaleDownSparesActive
<1>2. ASSUME NEW g \in GameServers, NEW v \in Version, GoodWrite(g, v)
      PROVE  SessionsInv'
  <2> DEFINE n == Len(history[g])
  <2>1. /\ \A k \in GameServers \ {g} : history'[k] = history[k]
        /\ n \in Nat
        /\ Len(history'[g]) = n + 1
        /\ history'[g][n + 1] = v
        /\ \A i \in 1 .. n : history'[g][i] = history[g][i]
    <3>1. history \in [GameServers -> Seq(Version)] /\ Write(g, v)
      BY <1>2 DEF GoodWrite, TypeInv, StoreOK
    <3> QED
      BY <3>1, WriteAppends
  <2>2. n # 0 => history[g] # <<>>
    <3>1. history[g] = <<>> => Len(history[g]) = 0
      OBVIOUS
    <3> QED
      BY <3>1
  <2>3. n # 0 => history'[g][n] = Current(g)
    BY <2>1 DEF Current
  <2>4. /\ n # 0 /\ v.session # Current(g).session =>
              Current(g).state = "StandingBy" /\ v.state = "Active"
        /\ n # 0 /\ v.state = "ScaledDown" => Current(g).state # "Active"
    BY <1>2, <2>2 DEF GoodWrite
  <2> HIDE DEF n
  <2>5. ASSUME NEW k \in GameServers, NEW i \in 2 .. Len(history'[k])
        PROVE  /\ history'[k][i].session # history'[k][i - 1].session =>
                     /\ history'[k][i - 1].state = "StandingBy"
                     /\ history'[k][i].state = "Active"
               /\ history'[k][i].state = "ScaledDown" =>
                     history'[k][i - 1].state # "Active"
    <3>1. CASE k # g
      BY <2>1, <2>5, <3>1
         DEF SessionsInv, SessionTakesStandingBy, ScaleDownSparesActive
    <3>2. CASE k = g /\ i = n + 1
      <4>1. n # 0 /\ i - 1 = n
        BY <2>1, <2>5, <3>2
      <4> QED
        BY <2>1, <2>3, <2>4, <3>2, <4>1
    <3>3. CASE k = g /\ i # n + 1
      <4>1. i \in 2 .. n /\ i \in 1 .. n /\ i - 1 \in 1 .. n
        BY <2>1, <2>5, <3>3
      <4>2. history'[g][i] = history[g][i]
            /\ history'[g][i - 1] = history[g][i - 1]
        BY <2>1, <4>1
      <4> QED
        BY <3>3, <4>1, <4>2
           DEF SessionsInv, SessionTakesStandingBy, ScaleDownSparesActive, n
    <3> QED
      BY <3>1, <3>2, <3>3
  <2> QED
    BY <2>5 DEF SessionsInv, SessionTakesStandingBy, ScaleDownSparesActive
<1> QED
  BY <1>1, <1>2, NextIsGoodWrite

(* Whatever becomes of a server, its session changes only with the step    *)
(* from StandingBy to Active that the optimistic lock protects.            *)
THEOREM SessionsCorrect == Spec => []SessionTakesStandingBy
<1>1. Init => SessionsInv
  BY DEF Init, SessionsInv, SessionTakesStandingBy, ScaleDownSparesActive
<1>2. TypeInv /\ EntriesInv /\ SessionsInv /\ [Next]_vars => SessionsInv'
  BY AllocationAssumption, SessionsStep
<1>3. SessionsInv => SessionTakesStandingBy
  BY DEF SessionsInv
<1> QED
  BY <1>1, <1>2, <1>3, Invariants, PTL DEF Spec

(* A server that was allocated is never deleted by scaling down, however   *)
(* stale the cache that chose it: the precondition on the ResourceVersion. *)
THEOREM ScaleDownCorrect == Spec => []ScaleDownSparesActive
<1>1. Init => SessionsInv
  BY DEF Init, SessionsInv, SessionTakesStandingBy, ScaleDownSparesActive
<1>2. TypeInv /\ EntriesInv /\ SessionsInv /\ [Next]_vars => SessionsInv'
  BY AllocationAssumption, SessionsStep
<1>3. SessionsInv => ScaleDownSparesActive
  BY DEF SessionsInv
<1> QED
  BY <1>1, <1>2, <1>3, Invariants, PTL DEF Spec

-----------------------------------------------------------------------------
(* One server, one session, while no late heartbeat overwrites a state.    *)

(* A server that can be allocated has no session, and the sessions in its  *)
(* history are none or the one it has.                                     *)
OnceInv ==
    lateHeartbeats = 0 =>
        \A g \in GameServers : history[g] # <<>> =>
          /\ Current(g).state \in Early => Current(g).session = NoSession
          /\ \A i \in 1 .. Len(history[g]) :
                history[g][i].session \in {NoSession, Current(g).session}

LEMMA OnceInvIsProperty == OnceInv => BookedOnce
<1> SUFFICES ASSUME OnceInv, lateHeartbeats = 0, NEW g \in GameServers,
                    NEW i \in 1 .. Len(history[g]),
                    NEW j \in 1 .. Len(history[g])
             PROVE  \/ history[g][i].session = NoSession
                    \/ history[g][j].session = NoSession
                    \/ history[g][i].session = history[g][j].session
  BY DEF BookedOnce
<1>1. history[g] # <<>>
  <2>1. Len(<<>>) = 0
    OBVIOUS
  <2> QED
    BY <2>1
<1> QED
  BY <1>1 DEF OnceInv

(* A heartbeat that was late is never forgotten.                           *)
LEMMA LateIsKept ==
    ASSUME TypeInv, [Next]_vars, lateHeartbeats' = 0
    PROVE  lateHeartbeats = 0
<1>1. lateHeartbeats \in Nat
  BY DEF TypeInv, CountersOK
<1>2. ASSUME NEW g \in GameServers,
             NEW s \in {"Initializing", "StandingBy", "Active"},
             NEW x \in {"Healthy", "Unhealthy"}, Heartbeat(g, s, x)
      PROVE  lateHeartbeats = 0
  BY <1>1, <1>2 DEF Heartbeat
<1> QED
  BY <1>2
     DEF Next, vars, server, Deliver, ReconcileRead, ReconcilePush,
         ReconcilePanics, Start, ForwardEvent, Restart, Receive, Handle, Pop,
         Patch, PatchFails, Signal, Environment, CreateGameServer,
         MarkUnhealthy, ProcessExit, DeleteFinished, ScaleDown

LEMMA OnceStep ==
    ASSUME AllocationAssumption, TypeInv, EntriesInv, OnceInv, [Next]_vars
    PROVE  OnceInv'
<1> SUFFICES ASSUME lateHeartbeats' = 0
             PROVE  OnceInv'
  BY DEF OnceInv
<1>1. lateHeartbeats = 0 /\ lateHeartbeats' = 0
  BY LateIsKept
<1>2. CASE UNCHANGED history
  BY <1>1, <1>2 DEF OnceInv, Current
<1>3. ASSUME NEW g \in GameServers, NEW v \in Version, GoodWrite(g, v)
      PROVE  OnceInv'
  <2> DEFINE n == Len(history[g])
  <2>1. /\ \A k \in GameServers \ {g} : history'[k] = history[k]
        /\ n \in Nat
        /\ Len(history'[g]) = n + 1
        /\ history'[g][n + 1] = v
        /\ \A i \in 1 .. n : history'[g][i] = history[g][i]
    <3>1. history \in [GameServers -> Seq(Version)] /\ Write(g, v)
      BY <1>3 DEF GoodWrite, TypeInv, StoreOK
    <3> QED
      BY <3>1, WriteAppends
  <2>2. Current(g)' = v
    BY <2>1 DEF Current
  <2>3. history[g] = <<>> => v.session = NoSession /\ n = 0
    BY <1>3 DEF GoodWrite
  <2>4. history[g] # <<>> =>
          /\ v.session # Current(g).session =>
                Current(g).state \in Early /\ v.state \notin Early
          /\ v.state \in Early => Current(g).state \in Early
          /\ Current(g).state \in Early => Current(g).session = NoSession
          /\ \A i \in 1 .. n :
                history[g][i].session \in {NoSession, Current(g).session}
    BY <1>1, <1>3 DEF GoodWrite, OnceInv, Early
  <2> HIDE DEF n
  <2>5. v.state \in Early => v.session = NoSession
    BY <2>3, <2>4
  <2>6. ASSUME NEW i \in 1 .. n + 1
        PROVE  history'[g][i].session \in {NoSession, v.session}
    <3>1. CASE i = n + 1
      BY <2>1, <3>1
    <3>2. CASE i # n + 1
      <4>1. i \in 1 .. n /\ history[g] # <<>>
        BY <2>1, <2>3, <2>6, <3>2
      <4> QED
        BY <2>1, <2>4, <4>1
    <3> QED
      BY <3>1, <3>2
  <2>7. ASSUME NEW k \in GameServers, history'[k] # <<>>
        PROVE  /\ Current(k)'.state \in Early => Current(k)'.session = NoSession
               /\ \A i \in 1 .. Len(history'[k]) :
                     history'[k][i].session \in {NoSession, Current(k)'.session}
    <3>1. CASE k = g
      BY <2>1, <2>2, <2>5, <2>6, <3>1
    <3>2. CASE k # g
      BY <1>1, <2>1, <2>7, <3>2 DEF OnceInv, Current
    <3> QED
      BY <3>1, <3>2
  <2> QED
    BY <1>1, <2>7 DEF OnceInv
<1> QED
  BY <1>2, <1>3, NextIsGoodWrite

(* As long as the node agent has overwritten no state that its process had *)
(* not seen, a server serves at most one session in its life.              *)
THEOREM BookedOnceCorrect == Spec => []BookedOnce
<1>1. Init => OnceInv
  BY DEF Init, OnceInv
<1>2. TypeInv /\ EntriesInv /\ OnceInv /\ [Next]_vars => OnceInv'
  BY AllocationAssumption, OnceStep
<1>3. OnceInv => BookedOnce
  BY OnceInvIsProperty
<1> QED
  BY <1>1, <1>2, <1>3, Invariants, PTL DEF Spec

-----------------------------------------------------------------------------
(* Answers                                                                 *)

(* The server of an answer has had the session of the answer.              *)
HadSession(ans) ==
    \E i \in 1 .. Len(history[ans.gs]) :
        history[ans.gs][i].session = ans.session

LEMMA HadSessionStays ==
    ASSUME StoreOK, StoreStep, NEW ans \in Answer, HadSession(ans)
    PROVE  HadSession(ans)'
<1>1. ans.gs \in GameServers
  BY DEF Answer
<1>2. PICK i \in 1 .. Len(history[ans.gs]) :
               history[ans.gs][i].session = ans.session
  BY DEF HadSession
<1>3. /\ Len(history[ans.gs]) \in Nat
      /\ Len(history[ans.gs]) <= Len(history'[ans.gs])
      /\ Len(history'[ans.gs]) \in Nat
      /\ history'[ans.gs][i] = history[ans.gs][i]
  BY <1>1, WriteAppends DEF StoreOK, StoreStep
<1>4. i \in 1 .. Len(history'[ans.gs])
  BY <1>3
<1> QED
  BY <1>2, <1>3, <1>4 DEF HadSession

(* The answers of a step: none, the old ones, or one that is booked.       *)
LEMMA NewAnswerIsBooked ==
    ASSUME AllocationAssumption, TypeInv, [Next]_vars, NEW h \in Handlers,
           answer'[h] # NoAnswer, answer'[h] # answer[h]
    PROVE  HadSession(answer[h])'
<1>1. ASSUME NEW k \in Handlers,
             NEW s \in Sessions \cup {MalformedSession},
             NEW b \in Builds \cup {UnknownBuild}, Receive(k, s, b)
      PROVE  HadSession(answer[h])'
  <2>1. PICK g \in GameServers :
               /\ ServersOfSession(s, b) = {g}
               /\ answer' = [answer EXCEPT ![k] = [session |-> s, gs |-> g]]
    BY <1>1 DEF Receive, Reply, TypeInv, HandlersOK
  <2>2. /\ UNCHANGED history
        /\ answer'[h] = [session |-> s, gs |-> g]
    BY <1>1, <2>1 DEF Receive, server, TypeInv, HandlersOK
  <2>3. InCache(g) /\ View(g).session = s
    BY <2>1 DEF ServersOfSession
  <2>4. cached[g] \in 1 .. Len(history[g]) /\ history[g][cached[g]].session = s
    BY <2>3 DEF TypeInv, StoreOK, InCache, View
  <2> QED
    BY <2>2, <2>4 DEF HadSession
<1>2. ASSUME NEW k \in Handlers, Patch(k)
      PROVE  HadSession(answer[h])'
  <2> DEFINE e == held[k]
             v == [Current(e.gs) EXCEPT !.state = "Active",
                                        !.session = args[k].session]
  <2>1. /\ pc[k] = "patch"
        /\ Locked(e)
        /\ Write(e.gs, v)
        /\ answer' = [answer EXCEPT ![k] = [session |-> args[k].session,
                                            gs |-> e.gs]]
    BY <1>2 DEF Patch, Activate, Reply
  <2>2. e.gs \in GameServers /\ args[k].session \in Sessions
    BY <2>1 DEF TypeInv, HandlersOK, Entry, Request
  <2>3. answer'[h] = [session |-> args[k].session, gs |-> e.gs]
    BY <2>1 DEF TypeInv, HandlersOK
  <2>4. v \in Version /\ v.session = args[k].session
    BY <2>1, <2>2, CurrentIsVersion
       DEF TypeInv, StoreOK, Locked, Version, States
  <2> HIDE DEF v, e
  <2>5. /\ Len(history[e.gs]) \in Nat
        /\ Len(history'[e.gs]) = Len(history[e.gs]) + 1
        /\ history'[e.gs][Len(history[e.gs]) + 1] = v
    BY <2>1, <2>2, <2>4, WriteAppends DEF TypeInv, StoreOK
  <2>6. Len(history'[e.gs]) \in 1 .. Len(history'[e.gs])
    BY <2>5
  <2> QED
    <3>1. /\ answer'[h].gs = e.gs
          /\ history'[e.gs][Len(history'[e.gs])].session = answer'[h].session
      BY <2>3, <2>4, <2>5
    <3> QED
      BY <2>6, <3>1 DEF HadSession
<1>3. ASSUME NEW k \in Handlers, Pop(k) \/ PatchFails(k) \/ Signal(k)
      PROVE  FALSE
  <2>1. Pop(k) \/ PatchFails(k) \/ Signal(k) =>
           answer' = answer \/ answer' = [answer EXCEPT ![k] = NoAnswer]
    BY Zenon DEF Pop, PatchFails, Signal, Reply
  <2> QED
    BY <1>3, <2>1 DEF TypeInv, HandlersOK
<1>4. CASE Restart
  BY <1>4 DEF Restart
<1>5. CASE UNCHANGED answer
  BY <1>5
<1> QED
  BY <1>1, <1>2, <1>3, <1>4, <1>5
     DEF Next, vars, handler, Deliver, ReconcileRead, ReconcilePush,
         ReconcilePanics, Start, ForwardEvent, Handle, Environment,
         CreateGameServer, Heartbeat, MarkUnhealthy, ProcessExit,
         DeleteFinished, ScaleDown

LEMMA AnswersStep ==
    ASSUME AllocationAssumption, TypeInv, AnswerIsBooked, [Next]_vars
    PROVE  AnswerIsBooked'
<1> SUFFICES ASSUME NEW h \in Handlers, answer'[h] # NoAnswer
             PROVE  HadSession(answer[h])'
  BY DEF AnswerIsBooked, HadSession
<1>1. CASE answer'[h] # answer[h]
  BY <1>1, NewAnswerIsBooked
<1>2. CASE answer'[h] = answer[h]
  <2> DEFINE ans == answer[h]
  <2>1. ans \in Answer /\ HadSession(ans)
    BY <1>2 DEF TypeInv, HandlersOK, AnswerIsBooked, HadSession
  <2>2. StoreOK /\ StoreStep
    BY NextIsStoreStep DEF TypeInv
  <2>3. PICK a \in Answer : a = ans
    BY <2>1
  <2>4. HadSession(a)'
    BY <2>1, <2>2, <2>3, HadSessionStays
  <2> QED
    BY <1>2, <2>3, <2>4 DEF HadSession
<1> QED
  BY <1>1, <1>2

(* Whoever is told a server was given one that carries the session, or has *)
(* carried it.                                                             *)
THEOREM AnswersCorrect == Spec => []AnswerIsBooked
<1>1. Init => AnswerIsBooked
  BY DEF Init, AnswerIsBooked
<1>2. TypeInv /\ AnswerIsBooked /\ [Next]_vars => AnswerIsBooked'
  BY AllocationAssumption, AnswersStep
<1> QED
  BY <1>1, <1>2, Invariants, PTL DEF Spec

LEMMA NotShared ==
    ASSUME AllocationAssumption, TypeInv, AnswerIsBooked, BookedOnce
    PROVE  NoSharedServer
<1> SUFFICES ASSUME lateHeartbeats = 0,
                    NEW h \in Handlers, NEW k \in Handlers,
                    answer[h] # NoAnswer, answer[h].gs = answer[k].gs
             PROVE  answer[h].session = answer[k].session
  BY DEF NoSharedServer
<1>1. answer[h] \in Answer
  BY DEF TypeInv, HandlersOK
<1>2. answer[k] \in Answer
  BY <1>1 DEF TypeInv, HandlersOK, AllocationAssumption, Answer, NoAnswer
<1>3. answer[k] # NoAnswer
  BY <1>2 DEF AllocationAssumption, Answer, NoAnswer
<1>4. PICK i \in 1 .. Len(history[answer[h].gs]) :
               history[answer[h].gs][i].session = answer[h].session
  BY DEF AnswerIsBooked
<1>5. PICK j \in 1 .. Len(history[answer[h].gs]) :
               history[answer[h].gs][j].session = answer[k].session
  BY <1>3 DEF AnswerIsBooked
<1>6. answer[h].gs \in GameServers
  BY <1>1 DEF Answer
<1>7. answer[h].session # NoSession /\ answer[k].session # NoSession
  BY <1>1, <1>2, <1>3 DEF Answer, AllocationAssumption
<1>8. \/ history[answer[h].gs][i].session = NoSession
      \/ history[answer[h].gs][j].session = NoSession
      \/ history[answer[h].gs][i].session = history[answer[h].gs][j].session
  BY <1>6 DEF BookedOnce
<1> QED
  BY <1>4, <1>5, <1>7, <1>8

(* Two requests get the same server only for one session, as long as no    *)
(* heartbeat has come late.                                                *)
THEOREM NoSharedServerCorrect == Spec => []NoSharedServer
<1>1. TypeInv /\ AnswerIsBooked /\ BookedOnce => NoSharedServer
  BY AllocationAssumption, NotShared
<1>2. Spec => []BookedOnce
  BY BookedOnceCorrect
<1> QED
  BY <1>1, <1>2, Invariants, AnswersCorrect, PTL

-----------------------------------------------------------------------------
(* The queue and its index                                                 *)

LEMMA IndexStep ==
    ASSUME AllocationAssumption, TypeInv, QueueIsIndexed, [Next]_vars
    PROVE  QueueIsIndexed'
<1>1. CASE UNCHANGED <<queue, indexed>>
  BY <1>1 DEF QueueIsIndexed
<1>2. CASE queue' = [b \in Builds |-> {}]
  BY <1>2 DEF QueueIsIndexed
<1>3. ASSUME NEW g \in GameServers, ReconcileRead(g)
      PROVE  QueueIsIndexed'
  <2>1. CASE RemoveFromQueue(g) /\ g \in indexed /\ queue[BuildOf[g]] # {}
    BY <2>1
       DEF QueueIsIndexed, RemoveFromQueue, TypeInv, QueueOK, Entry,
           AllocationAssumption
  <2> QED
    BY <1>1, <1>3, <2>1 DEF ReconcileRead, RemoveFromQueue
<1>4. CASE ReconcilePush
  <2> DEFINE b == BuildOf[worker.gs]
  <2>1. worker \in Entry /\ b \in Builds
    BY <1>4 DEF ReconcilePush, TypeInv, QueueOK, AllocationAssumption, Entry
  <2>2. indexed' = indexed \cup {worker.gs}
    BY <1>4 DEF ReconcilePush, PushToQueue
  <2>3. CASE worker.gs \in QueuedNames(b)
    BY <1>4, <2>2, <2>3 DEF ReconcilePush, PushToQueue, QueueIsIndexed
  <2>4. CASE worker.gs \notin QueuedNames(b)
    <3>1. queue' = [queue EXCEPT ![b] = @ \cup {worker}]
      BY <1>4, <2>4 DEF ReconcilePush, PushToQueue
    <3> QED
      BY <2>1, <2>2, <2>4, <3>1
         DEF QueueIsIndexed, QueuedNames, TypeInv, QueueOK
  <2> QED
    BY <2>3, <2>4
<1>5. ASSUME NEW h \in Handlers, Pop(h)
      PROVE  QueueIsIndexed'
  BY <1>5 DEF Pop, QueueIsIndexed, TypeInv, QueueOK
<1> QED
  BY <1>1, <1>2, <1>3, <1>4, <1>5
     DEF Next, vars, operator, Deliver, ReconcilePanics, Start, ForwardEvent,
         Restart, Receive, Handle, Patch, PatchFails, Signal, Environment,
         CreateGameServer, Heartbeat, MarkUnhealthy, ProcessExit,
         DeleteFinished, ScaleDown

(* RemoveFromQueue finds every server that is queued: one entry per name,  *)
(* in the queue of its build, under a name that the index knows.           *)
THEOREM IndexCorrect == Spec => []QueueIsIndexed
<1>1. Init => QueueIsIndexed
  BY DEF Init, QueueIsIndexed
<1>2. TypeInv /\ QueueIsIndexed /\ [Next]_vars => QueueIsIndexed'
  BY AllocationAssumption, IndexStep
<1> QED
  BY <1>1, <1>2, Invariants, PTL DEF Spec

-----------------------------------------------------------------------------
(* No StandingBy server is forgotten                                       *)

Holds(h, g) == pc[h] \in {"patch", "signal"} /\ held[h].gs = g

(* Who has the server in hand, and will bring it to the queue or is it.    *)
OnItsWay(g) ==
    \/ g \in pending
    \/ worker.gs = g
    \/ g \in QueuedNames(BuildOf[g])
    \/ \E h \in Handlers : Holds(h, g)
    \/ \E i \in DOMAIN events : events[i] = g

(* Start replaces a queue in which there is nothing yet.                   *)
NoQueueYet == ~serving => \A b \in Builds : queue[b] = {}

(* Only a delivery and a restart change the cache.                         *)
LEMMA CacheStays ==
    ASSUME [Next]_vars, cached' # cached
    PROVE  UNCHANGED history /\ (Restart \/ \E g \in GameServers : Deliver(g))
BY DEF Next, vars, server, Deliver, ReconcileRead, ReconcilePush,
       ReconcilePanics, Start, ForwardEvent, Restart, Receive, Handle, Pop,
       Patch, PatchFails, Signal, Environment, CreateGameServer, Heartbeat,
       MarkUnhealthy, ProcessExit, DeleteFinished, ScaleDown

(* A new version has still to be delivered.                                *)
LEMMA NewIsUndelivered ==
    ASSUME TypeInv, [Next]_vars, NEW g \in GameServers,
           history'[g] # history[g]
    PROVE  cached'[g] < Len(history'[g])
<1>1. cached' = cached
  BY CacheStays
<1>2. PICK k \in GameServers, v \in Version : Write(k, v)
  BY NextIsStoreStep DEF TypeInv, StoreStep
<1>3. k = g
  BY <1>2, WriteAppends DEF TypeInv, StoreOK
<1>4. /\ Len(history'[g]) = Len(history[g]) + 1
      /\ Len(history[g]) \in Nat
  BY <1>2, <1>3, WriteAppends DEF TypeInv, StoreOK
<1>5. cached[g] <= Len(history[g]) /\ cached[g] \in Nat
  BY DEF TypeInv, StoreOK
<1> QED
  BY <1>1, <1>4, <1>5

LEMMA NoQueueYetStep ==
    ASSUME TypeInv, NoQueueYet, [Next]_vars
    PROVE  NoQueueYet'
<1>1. CASE UNCHANGED <<queue, serving>>
  BY <1>1 DEF NoQueueYet
<1>2. CASE serving'
  BY <1>2 DEF NoQueueYet
<1>3. CASE Restart
  BY <1>3 DEF Restart, NoQueueYet
<1>4. ASSUME NEW h \in Handlers, Pop(h), ~serving'
      PROVE  NoQueueYet'
  <2>1. ~serving
    BY <1>4 DEF Pop, service
  <2>2. \A b \in Builds : queue'[b] \subseteq queue[b]
    BY <1>4 DEF Pop, TypeInv, QueueOK
  <2> QED
    BY <2>1, <2>2 DEF NoQueueYet
<1>5. ASSUME NEW g \in GameServers, ReconcileRead(g), ~serving'
      PROVE  NoQueueYet'
  <2>1. ~serving
    BY <1>5 DEF ReconcileRead, service
  <2>2. queue' = queue
    BY <1>5, <2>1 DEF ReconcileRead
  <2> QED
    BY <2>1, <2>2 DEF NoQueueYet
<1>6. CASE ReconcilePush \/ Start
  BY <1>2, <1>6 DEF ReconcilePush, Start, service
<1> QED
  BY <1>1, <1>2, <1>3, <1>4, <1>5, <1>6
     DEF Next, vars, operator, service, Deliver, ReconcilePanics,
         ForwardEvent, Receive, Handle, Patch, PatchFails, Signal,
         Environment, CreateGameServer, Heartbeat, MarkUnhealthy,
         ProcessExit, DeleteFinished, ScaleDown

(* The steps of a handler leave others what they have, and a handler passes*)
(* its server on.                                                          *)
LEMMA HandlerPassesOn ==
    ASSUME AllocationAssumption, TypeInv, NEW k \in Handlers, Handle(k),
           NEW g \in GameServers, OnItsWay(g), history'[g] = history[g]
    PROVE  OnItsWay(g)'
<1>1. /\ pc \in [Handlers -> {"idle", "pop", "patch", "signal"}]
      /\ held \in [Handlers -> Entry \cup {NoEntry}]
      /\ events \in Seq(GameServers)
      /\ queue \in [Builds -> SUBSET Entry]
  BY DEF TypeInv, HandlersOK, QueueOK
<1>2. UNCHANGED <<pending, worker>>
  BY DEF Handle, Pop, Patch, PatchFails, Signal, operator
<1>3. ASSUME NEW h \in Handlers \ {k}, Holds(h, g)
      PROVE  Holds(h, g)'
  <2>1. pc'[h] = pc[h] /\ held'[h] = held[h]
    BY <1>1 DEF Handle, Pop, Patch, PatchFails, Signal, Reply
  <2> QED
    BY <1>3, <2>1 DEF Holds
<1>4. CASE Pop(k)
  <2>1. ~Holds(k, g)
    BY <1>4 DEF Pop, Holds
  <2>2. ASSUME g \in QueuedNames(BuildOf[g])
        PROVE  g \in QueuedNames(BuildOf[g])' \/ Holds(k, g)'
    <3>1. PICK e \in queue[BuildOf[g]] : e.gs = g
      BY <2>2 DEF QueuedNames
    <3>2. CASE e \in queue'[BuildOf[g]]
      BY <3>1, <3>2 DEF QueuedNames
    <3>3. CASE e \notin queue'[BuildOf[g]]
      <4> DEFINE b == args[k].build
      <4>1. queue' # queue
        BY <3>1, <3>3
      <4>2. PICK f \in Tops(b) : /\ queue' = [queue EXCEPT ![b] = @ \ {f}]
                                 /\ held' = [held EXCEPT ![k] = f]
                                 /\ pc' = [pc EXCEPT ![k] = "patch"]
        BY <1>4, <4>1 DEF Pop
      <4> HIDE DEF b
      <4>3. e = f
        BY <1>1, <3>1, <3>3, <4>2
      <4>4. held'[k] = e /\ pc'[k] = "patch"
        BY <1>1, <4>2, <4>3
      <4> QED
        BY <3>1, <4>4 DEF Holds
    <3> QED
      BY <3>2, <3>3
  <2>3. events' = events
    BY <1>4 DEF Pop
  <2> QED
    BY <1>2, <1>3, <2>1, <2>2, <2>3 DEF OnItsWay
<1>5. CASE Patch(k) \/ PatchFails(k)
  <2>1. UNCHANGED <<queue, events>>
    BY <1>5 DEF Patch, PatchFails, operator
  <2>2. ASSUME Holds(k, g)
        PROVE  Holds(k, g)'
    <3>1. held[k].gs = g /\ pc[k] = "patch"
      BY <1>5, <2>2 DEF Holds, Patch, PatchFails
    <3>2. ASSUME Locked(held[k]), Activate(held[k], args[k].session)
          PROVE  FALSE
      <4>1. PICK v \in Version : Write(g, v)
        BY <3>1, <3>2, BookingIsWrite DEF TypeInv
      <4>2. Len(history'[g]) = Len(history[g]) + 1 /\ Len(history[g]) \in Nat
        BY <4>1, WriteAppends DEF TypeInv, StoreOK
      <4> QED
        BY <4>2
    <3>3. pc' = [pc EXCEPT ![k] = "signal"] /\ held' = held
      BY <1>5, <3>2 DEF Patch, PatchFails
    <3> QED
      BY <1>1, <3>1, <3>3 DEF Holds
  <2> QED
    BY <1>2, <1>3, <2>1, <2>2 DEF OnItsWay, QueuedNames
<1>6. CASE Signal(k)
  <2>1. /\ queue' = queue /\ events' = Append(events, held[k].gs)
        /\ held[k].gs \in GameServers
    BY <1>6 DEF Signal, TypeInv, HandlersOK, Entry
  <2>2. \A i \in DOMAIN events : i \in DOMAIN events' /\ events'[i] = events[i]
    BY <1>1, <2>1
  <2>3. /\ Len(events) + 1 \in DOMAIN events'
        /\ events'[Len(events) + 1] = held[k].gs
    BY <1>1, <2>1
  <2>4. ASSUME Holds(k, g)
        PROVE  \E i \in DOMAIN events' : events'[i] = g
    BY <2>3, <2>4 DEF Holds
  <2> QED
    BY <1>2, <1>3, <2>1, <2>2, <2>4 DEF OnItsWay, QueuedNames
<1> QED
  BY <1>4, <1>5, <1>6 DEF Handle

(* The controller passes a server on, but for one that its cache does not  *)
(* show as StandingBy.                                                     *)
LEMMA ControllerPassesOn ==
    ASSUME AllocationAssumption, TypeInv, NoQueueYet,
           NEW g \in GameServers, OnItsWay(g),
           \/ \E k \in GameServers : ReconcileRead(k)
           \/ ReconcilePush \/ ReconcilePanics \/ Start \/ ForwardEvent,
           InCache(g) /\ IsQueueable(g)
    PROVE  OnItsWay(g)'
<1>1. /\ events \in Seq(GameServers)
      /\ queue \in [Builds -> SUBSET Entry]
      /\ BuildOf[g] \in Builds
  BY DEF TypeInv, QueueOK, AllocationAssumption
<1>2. UNCHANGED <<pc, held>>
  BY DEF ReconcileRead, ReconcilePush, ReconcilePanics, Start, ForwardEvent,
         handler
<1>3. ASSUME NEW k \in GameServers, ReconcileRead(k)
      PROVE  OnItsWay(g)'
  <2>1. worker = NoEntry /\ events' = events
    BY <1>3 DEF ReconcileRead
  <2>2. NoEntry.gs # g
    BY DEF NoEntry, AllocationAssumption
  <2>3. CASE k = g
    BY <1>3, <2>3 DEF ReconcileRead, OnItsWay
  <2>4. CASE k # g
    <3>1. g \in pending => g \in pending'
      BY <1>3, <2>4 DEF ReconcileRead
    <3>2. g \in QueuedNames(BuildOf[g]) => g \in QueuedNames(BuildOf[g])'
      BY <1>1, <1>3, <2>4 DEF ReconcileRead, RemoveFromQueue, QueuedNames
    <3> QED
      BY <1>2, <2>1, <2>2, <3>1, <3>2 DEF OnItsWay, Holds
  <2> QED
    BY <2>3, <2>4
<1>4. CASE ReconcilePush
  <2> DEFINE b == BuildOf[worker.gs]
  <2>1. worker \in Entry /\ b \in Builds
    BY <1>4 DEF ReconcilePush, TypeInv, QueueOK, AllocationAssumption, Entry
  <2>2. UNCHANGED <<pending, events>>
    BY <1>4 DEF ReconcilePush
  <2>3. /\ \A c \in Builds : queue[c] \subseteq queue'[c]
        /\ \E e \in queue'[b] : e.gs = worker.gs
    <3>1. CASE worker.gs \in QueuedNames(b)
      BY <1>4, <3>1 DEF ReconcilePush, PushToQueue, QueuedNames
    <3>2. CASE worker.gs \notin QueuedNames(b)
      <4>1. queue' = [queue EXCEPT ![b] = @ \cup {worker}]
        BY <1>4, <3>2 DEF ReconcilePush, PushToQueue
      <4> QED
        BY <1>1, <2>1, <4>1
    <3> QED
      BY <3>1, <3>2
  <2>4. g \in QueuedNames(BuildOf[g]) => g \in QueuedNames(BuildOf[g])'
    BY <1>1, <2>3 DEF QueuedNames
  <2>5. worker.gs = g => g \in QueuedNames(BuildOf[g])'
    BY <2>3 DEF QueuedNames
  <2> QED
    BY <1>2, <2>2, <2>4, <2>5 DEF OnItsWay, Holds
<1>5. CASE ReconcilePanics
  BY <1>2, <1>5 DEF ReconcilePanics, OnItsWay, Holds, QueuedNames
<1>6. CASE Start
  <2>1. g \notin QueuedNames(BuildOf[g])
    BY <1>1, <1>6 DEF Start, NoQueueYet, QueuedNames
  <2> QED
    BY <1>2, <1>6, <2>1 DEF Start, OnItsWay, Holds
<1>7. CASE ForwardEvent
  <2>1. /\ queue' = queue /\ worker' = worker
        /\ events # <<>> /\ events' = Tail(events)
        /\ pending' = pending \cup {Head(events)}
    BY <1>7 DEF ForwardEvent
  <2>2. ASSUME NEW i \in DOMAIN events, events[i] = g
        PROVE  g \in pending' \/ \E j \in DOMAIN events' : events'[j] = g
    <3>1. CASE i = 1
      BY <2>1, <2>2, <3>1
    <3>2. CASE i # 1
      <4>1. i - 1 \in DOMAIN events' /\ events'[i - 1] = events[i]
        BY <1>1, <2>1, <3>2
      <4> QED
        BY <2>2, <4>1
    <3> QED
      BY <3>1, <3>2
  <2> QED
    BY <1>2, <2>1, <2>2 DEF OnItsWay, Holds, QueuedNames
<1> QED
  BY <1>3, <1>4, <1>5, <1>6, <1>7

(* A request begins for a handler that holds nothing.                      *)
LEMMA ReceiveKeeps ==
    ASSUME TypeInv, NEW g \in GameServers, OnItsWay(g),
           NEW k \in Handlers, NEW s \in Sessions \cup {MalformedSession},
           NEW b \in Builds \cup {UnknownBuild}, Receive(k, s, b)
    PROVE  OnItsWay(g)'
<1>1. /\ pc \in [Handlers -> {"idle", "pop", "patch", "signal"}]
      /\ held \in [Handlers -> Entry \cup {NoEntry}]
  BY DEF TypeInv, HandlersOK
<1>2. pc[k] = "idle" /\ UNCHANGED operator
  BY DEF Receive
<1>3. /\ \/ pc' = [pc EXCEPT ![k] = "idle"]
         \/ pc' = [pc EXCEPT ![k] = "pop"]
      /\ \/ held' = held
         \/ held' = [held EXCEPT ![k] = NoEntry]
  BY Zenon DEF Receive, Reply
<1>4. ASSUME NEW h \in Handlers, Holds(h, g)
      PROVE  Holds(h, g)'
  <2>1. h # k
    BY <1>2, <1>4 DEF Holds
  <2>2. pc'[h] = pc[h] /\ held'[h] = held[h]
    BY <1>1, <1>3, <2>1
  <2> QED
    BY <1>4, <2>2 DEF Holds
<1> QED
  BY <1>2, <1>4 DEF OnItsWay, operator, QueuedNames

ForgottenInv == NeverForgotten /\ NoQueueYet

LEMMA ForgottenMeans ==
    NeverForgotten <=>
        \A g \in GameServers : Available(g) =>
            cached[g] < Len(history[g]) \/ OnItsWay(g)
  BY DEF NeverForgotten, OnItsWay, Holds

LEMMA ForgottenStep ==
    ASSUME AllocationAssumption, TypeInv, ForgottenInv, [Next]_vars
    PROVE  ForgottenInv'
<1>1. NoQueueYet /\ NoQueueYet'
  BY NoQueueYetStep DEF ForgottenInv
<1>2. ASSUME NEW g \in GameServers, Available(g)'
      PROVE  cached'[g] < Len(history'[g]) \/ OnItsWay(g)'
  <2>1. CASE history'[g] # history[g]
    BY <2>1, NewIsUndelivered
  <2>2. CASE history'[g] = history[g]
    <3>1. Available(g)
      BY <1>2, <2>2 DEF Available, Exists, Current
    <3>2. ASSUME NEW k \in GameServers, Deliver(k)
          PROVE  cached'[g] < Len(history'[g]) \/ OnItsWay(g)'
      <4>1. CASE k = g
        BY <3>2, <4>1 DEF Deliver, OnItsWay
      <4>2. CASE k # g
        <5>1. cached'[g] = cached[g]
          BY <3>2, <4>2 DEF Deliver, TypeInv, StoreOK
        <5>2. OnItsWay(g) => OnItsWay(g)'
          BY <3>2 DEF Deliver, OnItsWay, Holds, QueuedNames, handler
        <5> QED
          BY <2>2, <3>1, <5>1, <5>2, ForgottenMeans DEF ForgottenInv
      <4> QED
        BY <4>1, <4>2
    <3>3. CASE Restart
      BY <3>1, <3>3 DEF Restart, Available, OnItsWay
    <3>4. CASE cached' = cached /\ cached[g] < Len(history[g])
      BY <2>2, <3>4
    <3>5. CASE cached' = cached /\ ~(cached[g] < Len(history[g]))
      <4>1. OnItsWay(g)
        BY <3>1, <3>5, ForgottenMeans DEF ForgottenInv
      <4>2. cached[g] = Len(history[g])
        BY <3>5 DEF TypeInv, StoreOK
      <4>3. InCache(g) /\ IsQueueable(g)
        BY <3>1, <4>2
           DEF Available, Exists, Current, InCache, IsQueueable, View, TypeInv,
               StoreOK
      <4>4. ASSUME NEW k \in Handlers, Handle(k)
            PROVE  OnItsWay(g)'
        BY <2>2, <4>1, <4>4, HandlerPassesOn
      <4>5. CASE UNCHANGED <<operator, handler>>
        BY <4>1, <4>5 DEF operator, handler, OnItsWay, Holds, QueuedNames
      <4> QED
        BY <1>1, <3>2, <3>3, <3>5, <4>1, <4>3, <4>4, <4>5, ControllerPassesOn,
           ReceiveKeeps, <2>2
           DEF Next, vars, Environment, CreateGameServer, Heartbeat,
               MarkUnhealthy, ProcessExit, DeleteFinished, ScaleDown
    <3> QED
      BY <3>2, <3>3, <3>4, <3>5, CacheStays
  <2> QED
    BY <2>1, <2>2
<1>3. NeverForgotten'
  BY <1>2 DEF NeverForgotten, OnItsWay, Holds
<1> QED
  BY <1>1, <1>3 DEF ForgottenInv

(* Whatever the informer, the controller, the handlers and a restart do in *)
(* between, no StandingBy server is lost to the requests that come.        *)
THEOREM NeverForgottenCorrect == Spec => []NeverForgotten
<1>1. Init => ForgottenInv
  BY DEF Init, ForgottenInv, NeverForgotten, NoQueueYet, Available, Exists
<1>2. TypeInv /\ ForgottenInv /\ [Next]_vars => ForgottenInv'
  BY AllocationAssumption, ForgottenStep
<1>3. ForgottenInv => NeverForgotten
  BY DEF ForgottenInv
<1> QED
  BY <1>1, <1>2, <1>3, Invariants, PTL DEF Spec

-----------------------------------------------------------------------------
(* A server that is gone leaves the queue                                  *)

Queued(g) == g \in QueuedNames(BuildOf[g]) \/ worker.gs = g

(* Only a reconciliation that finds a server in the cache queues it.       *)
LEMMA QueuedAnew ==
    ASSUME AllocationAssumption, TypeInv, [Next]_vars,
           NEW g \in GameServers, Queued(g)', ~Queued(g)
    PROVE  ReconcileRead(g) /\ InCache(g)
<1>1. /\ queue \in [Builds -> SUBSET Entry]
      /\ BuildOf[g] \in Builds
      /\ NoEntry.gs # g
  BY DEF TypeInv, QueueOK, AllocationAssumption, NoEntry
<1>2. CASE UNCHANGED operator
  BY <1>2 DEF operator, Queued, QueuedNames
<1>3. CASE UNCHANGED <<queue, worker>>
  BY <1>3 DEF Queued, QueuedNames
<1>4. ASSUME NEW k \in GameServers, ReconcileRead(k)
      PROVE  ReconcileRead(g) /\ InCache(g)
  <2>1. \A b \in Builds : queue'[b] \subseteq queue[b]
    BY <1>1, <1>4 DEF ReconcileRead, RemoveFromQueue
  <2>2. g \notin QueuedNames(BuildOf[g])'
    BY <1>1, <2>1 DEF Queued, QueuedNames
  <2>3. worker'.gs = g /\ worker' # worker
    BY <2>2 DEF Queued
  <2>4. InCache(k) /\ worker' = [gs |-> k, rv |-> cached[k]]
    BY <1>1, <1>4, <2>3 DEF ReconcileRead
  <2> QED
    BY <1>4, <2>3, <2>4
<1>5. CASE ReconcilePush
  <2>1. worker' = NoEntry
    BY <1>5 DEF ReconcilePush
  <2>2. PICK e \in queue'[BuildOf[g]] : e.gs = g
    BY <1>1, <2>1 DEF Queued, QueuedNames
  <2>3. e \in queue[BuildOf[g]] \/ e = worker
    BY <1>1, <1>5, <2>2 DEF ReconcilePush, PushToQueue
  <2> QED
    BY <2>2, <2>3 DEF Queued, QueuedNames
<1>6. CASE ReconcilePanics
  BY <1>1, <1>6 DEF ReconcilePanics, Queued, QueuedNames
<1>7. CASE Start \/ Restart
  BY <1>1, <1>7 DEF Start, Restart, Queued, QueuedNames
<1>8. ASSUME NEW h \in Handlers, Pop(h)
      PROVE  FALSE
  <2>1. \A b \in Builds : queue'[b] \subseteq queue[b]
    BY <1>1, <1>8 DEF Pop
  <2> QED
    BY <1>1, <1>8, <2>1 DEF Pop, Queued, QueuedNames
<1> QED
  BY <1>2, <1>3, <1>4, <1>5, <1>6, <1>7, <1>8
     DEF Next, vars, Deliver, ForwardEvent, Receive, Handle, Patch,
         PatchFails, Signal, Environment, CreateGameServer, Heartbeat,
         MarkUnhealthy, ProcessExit, DeleteFinished, ScaleDown

(* A request for a reconciliation is dropped by that reconciliation, or by *)
(* a restart.                                                              *)
LEMMA PendingStays ==
    ASSUME [Next]_vars, NEW g \in GameServers, g \in pending, g \notin pending'
    PROVE  ReconcileRead(g) \/ Restart
<1>1. ASSUME NEW k \in GameServers, ReconcileRead(k)
      PROVE  ReconcileRead(g)
  <2>1. pending' = pending \ {k}
    BY <1>1 DEF ReconcileRead
  <2> QED
    BY <1>1, <2>1
<1>2. ASSUME NEW k \in GameServers, Deliver(k) \/ Environment(k)
      PROVE  FALSE
  BY <1>2, EnvironmentLeaves DEF Deliver, operator
<1>3. CASE ReconcilePush \/ ReconcilePanics \/ Start \/ ForwardEvent
  BY <1>3 DEF ReconcilePush, ReconcilePanics, Start, ForwardEvent
<1>4. ASSUME NEW h \in Handlers, NEW s, NEW b, Receive(h, s, b)
      PROVE  FALSE
  BY <1>4 DEF Receive, operator
<1>5. ASSUME NEW h \in Handlers, Handle(h)
      PROVE  FALSE
  BY <1>5 DEF Handle, Pop, Patch, PatchFails, Signal, operator
<1>6. CASE UNCHANGED vars
  BY <1>6 DEF vars, operator
<1> QED
  BY <1>1, <1>2, <1>3, <1>4, <1>5, <1>6 DEF Next

LEMMA GoneStep ==
    ASSUME AllocationAssumption, TypeInv, QueueIsIndexed, GoneIsRemoved,
           [Next]_vars
    PROVE  GoneIsRemoved'
<1> SUFFICES ASSUME NEW g \in GameServers, history'[g] # <<>>, ~Exists(g)',
                    Queued(g)'
             PROVE  cached'[g] < Len(history'[g]) \/ g \in pending'
  BY DEF GoneIsRemoved, Queued
<1>1. CASE history'[g] # history[g]
  BY <1>1, NewIsUndelivered
<1>2. CASE history'[g] = history[g]
  <2>1. history[g] # <<>> /\ ~Exists(g)
    BY <1>2 DEF Exists, Current
  <2>2. /\ cached[g] <= Len(history[g]) /\ cached[g] \in Nat
        /\ Len(history[g]) \in Nat
    BY DEF TypeInv, StoreOK
  <2>3. InCache(g) => cached[g] < Len(history[g])
    BY <2>1, <2>2 DEF InCache, View, Exists, Current
  <2>4. CASE Restart
    <3>1. ~Queued(g)'
      BY <2>4 DEF Restart, Queued, QueuedNames, NoEntry, AllocationAssumption
    <3> QED
      BY <3>1
  <2>5. ASSUME NEW k \in GameServers, Deliver(k)
        PROVE  cached'[g] < Len(history'[g]) \/ g \in pending'
    <3>1. Queued(g)
      BY <2>5 DEF Deliver, Queued, QueuedNames
    <3>2. CASE k = g
      BY <2>5, <3>2 DEF Deliver
    <3>3. CASE k # g
      <4>1. cached'[g] = cached[g] /\ pending \subseteq pending'
        BY <2>5, <3>3 DEF Deliver, TypeInv, StoreOK
      <4> QED
        BY <1>2, <2>1, <3>1, <4>1 DEF GoneIsRemoved, Queued
    <3> QED
      BY <3>2, <3>3
  <2>6. CASE cached' = cached /\ cached[g] < Len(history[g])
    BY <1>2, <2>6
  <2>7. CASE cached' = cached /\ ~(cached[g] < Len(history[g])) /\ ~Restart
    <3>1. ~InCache(g)
      BY <2>3, <2>7
    <3>2. Queued(g)
      BY <3>1, QueuedAnew
    <3>3. g \in pending
      BY <2>1, <2>7, <3>2 DEF GoneIsRemoved, Queued
    <3>4. ASSUME ReconcileRead(g)
          PROVE  FALSE
      <4>1. worker = NoEntry /\ worker' = worker /\ RemoveFromQueue(g)
        BY <3>1, <3>4 DEF ReconcileRead
      <4>2. NoEntry.gs # g
        BY DEF NoEntry, AllocationAssumption
      <4>3. g \in QueuedNames(BuildOf[g])'
        BY <4>1, <4>2 DEF Queued
      <4>4. BuildOf[g] \in Builds /\ queue \in [Builds -> SUBSET Entry]
        BY DEF AllocationAssumption, TypeInv, QueueOK
      <4>5. \A e \in queue[BuildOf[g]] : e.gs = g => g \in indexed
        BY <4>4 DEF QueueIsIndexed
      <4>6. \A e \in queue'[BuildOf[g]] : e.gs # g
        BY <4>1, <4>4, <4>5 DEF RemoveFromQueue
      <4> QED
        BY <4>3, <4>6 DEF QueuedNames
    <3> QED
      BY <2>7, <3>3, <3>4, PendingStays
  <2> QED
    BY <2>4, <2>5, <2>6, <2>7, CacheStays
<1> QED
  BY <1>1, <1>2

(* However stale the cache and the controller's entry, nothing queues a    *)
(* server again that the controller has seen gone.                         *)
THEOREM GoneCorrect == Spec => []GoneIsRemoved
<1>1. Init => GoneIsRemoved
  BY DEF Init, GoneIsRemoved
<1>2. TypeInv /\ QueueIsIndexed /\ GoneIsRemoved /\ [Next]_vars
         => GoneIsRemoved'
  BY AllocationAssumption, GoneStep
<1> QED
  BY <1>1, <1>2, Invariants, IndexCorrect, PTL DEF Spec

-----------------------------------------------------------------------------
(* The refinement mapping: how a write shows in the abstract state.        *)

Lives  == [g \in GameServers |-> Life(g)]
Serves == [g \in GameServers |-> Served(g)]

(* What the service sees of a step that books and overwrites nothing.      *)
Quiet == UNCHANGED <<Lives, Serves, answer, lateHeartbeats>>

LEMMA LifeOfStates ==
    /\ LifeOf[""] = "starting"
    /\ LifeOf["Initializing"] = "starting"
    /\ LifeOf["StandingBy"] = "free"
    /\ LifeOf["Active"] = "booked"
    /\ LifeOf["GameCompleted"] = "over"
    /\ LifeOf["Crashed"] = "over"
    /\ LifeOf["ScaledDown"] = "released"
    /\ LifeOf["Deleted"] = "discarded"
  BY DEF LifeOf, States

(* What exists is alive.                                                   *)
LEMMA ExistsIsAlive ==
    ASSUME StoreOK, NEW g \in GameServers, Exists(g)
    PROVE  /\ Lives[g] = LifeOf[Current(g).state]
           /\ Lives[g] \in {"starting", "free", "booked", "over"}
<1>1. Current(g) \in Version /\ Current(g).state \notin Gone
  BY CurrentIsVersion DEF StoreOK, Exists
<1>2. Lives[g] = LifeOf[Current(g).state]
  BY DEF Lives, Life, Exists
<1> QED
  BY <1>1, <1>2, LifeOfStates DEF Version, States, Gone

LEMMA WriteMaps ==
    ASSUME StoreOK, NEW g \in GameServers, NEW v \in Version, Write(g, v)
    PROVE  /\ Lives' = [Lives EXCEPT ![g] = LifeOf[v.state]]
           /\ Serves' = [Serves EXCEPT ![g] = @ \cup ({v.session} \ {NoSession})]
<1> DEFINE n == Len(history[g])
<1>1. /\ history' \in [GameServers -> Seq(Version)]
      /\ n \in Nat
      /\ Len(history'[g]) = n + 1
      /\ history'[g][n + 1] = v
      /\ \A k \in GameServers \ {g} : history'[k] = history[k]
      /\ \A i \in 1 .. n : history'[g][i] = history[g][i]
  BY WriteAppends DEF StoreOK
<1> HIDE DEF n
<1>2. Life(g)' = LifeOf[v.state]
  <2>1. history'[g] # <<>>
    BY <1>1
  <2> QED
    BY <1>1, <2>1 DEF Life, Current
<1>3. Served(g)' = Served(g) \cup ({v.session} \ {NoSession})
  <2>1. 1 .. n + 1 = (1 .. n) \cup {n + 1}
    BY <1>1
  <2>2. {history'[g][i].session : i \in 1 .. n + 1} =
           {history[g][i].session : i \in 1 .. n} \cup {v.session}
    BY <1>1, <2>1
  <2> QED
    BY <1>1, <2>2 DEF Served, n
<1>4. \A k \in GameServers \ {g} : Life(k)' = Life(k) /\ Served(k)' = Served(k)
  BY <1>1 DEF Life, Served, Current
<1> QED
  BY <1>2, <1>3, <1>4 DEF Lives, Serves

(* A write of state and health tells nothing of sessions.                  *)
LEMMA StateWriteMaps ==
    ASSUME StoreOK, NEW g \in GameServers, Exists(g),
           NEW s \in States, NEW x \in Healths,
           Write(g, [Current(g) EXCEPT !.state = s, !.health = x])
    PROVE  /\ Lives' = [Lives EXCEPT ![g] = LifeOf[s]]
           /\ Serves' = Serves
<1> DEFINE v == [Current(g) EXCEPT !.state = s, !.health = x]
           n == Len(history[g])
<1>1. Current(g) \in Version /\ n \in Nat \ {0}
  BY CurrentIsVersion DEF StoreOK
<1>2. v \in Version /\ v.state = s /\ v.session = Current(g).session
  BY <1>1 DEF Version
<1>3. n \in 1 .. n
  BY <1>1
<1>4. Current(g).session \in Served(g) \cup {NoSession}
  BY <1>3 DEF Served, Current
<1> HIDE DEF v
<1>5. Write(g, v)
  BY DEF v
<1>6. /\ Lives' = [Lives EXCEPT ![g] = LifeOf[s]]
      /\ Serves' = [Serves EXCEPT ![g] = @ \cup ({v.session} \ {NoSession})]
  BY <1>2, <1>5, WriteMaps
<1>7. Serves[g] \cup ({v.session} \ {NoSession}) = Serves[g]
  BY <1>2, <1>4 DEF Serves
<1>8. Serves = [Serves EXCEPT ![g] = Serves[g]]
  BY DEF Serves
<1> QED
  BY <1>6, <1>7, <1>8

-----------------------------------------------------------------------------
(* The other writers                                                       *)

ServiceStep == Service!Next \/ UNCHANGED Service!vars

LEMMA QuietIsStutter == Quiet => ServiceStep
  BY DEF Quiet, Lives, Serves, ServiceStep, Service!vars

(* What a write of the state can do to the life of a server.               *)
LEMMA LifeSteps ==
    ASSUME StoreOK, NEW g \in GameServers, Exists(g), NEW s \in States,
           Lives' = [Lives EXCEPT ![g] = LifeOf[s]],
           Serves' = Serves, UNCHANGED answer, UNCHANGED lateHeartbeats,
           \/ LifeOf[s] = Lives[g]
           \/ Lives[g] = "starting" /\ LifeOf[s] = "free"
           \/ Lives[g] # "over" /\ LifeOf[s] = "over"
           \/ Lives[g] \in {"starting", "free"} /\ LifeOf[s] = "released"
           \/ LifeOf[s] = "discarded"
    PROVE  ServiceStep
<1>1. Lives[g] \in {"starting", "free", "booked", "over"}
  BY ExistsIsAlive
<1>2. CASE LifeOf[s] = Lives[g]
  <2>1. Lives' = Lives
    BY <1>2 DEF Lives
  <2> QED
    BY <2>1, QuietIsStutter DEF Quiet
<1>3. CASE Lives[g] = "starting" /\ LifeOf[s] = "free"
  <2>1. Service!BecomeFree(g)
    BY <1>3 DEF Service!BecomeFree, Service!Become, Lives, Serves
  <2> QED
    BY <2>1 DEF ServiceStep, Service!Next
<1>4. CASE Lives[g] # "over" /\ LifeOf[s] = "over"
  <2>1. Service!End(g)
    BY <1>1, <1>4 DEF Service!End, Service!Lives, Service!Become, Lives, Serves
  <2> QED
    BY <2>1 DEF ServiceStep, Service!Next
<1>5. CASE Lives[g] \in {"starting", "free"} /\ LifeOf[s] = "released"
  <2>1. Service!ScaleDown(g)
    BY <1>5 DEF Service!ScaleDown, Service!Become, Lives, Serves
  <2> QED
    BY <2>1 DEF ServiceStep, Service!Next
<1>6. CASE LifeOf[s] = "discarded"
  <2>1. Service!Discard(g)
    BY <1>1, <1>6 DEF Service!Discard, Service!Lives, Service!Become, Lives,
                      Serves
  <2> QED
    BY <2>1 DEF ServiceStep, Service!Next
<1> QED
  BY <1>2, <1>3, <1>4, <1>5, <1>6

LEMMA HeartbeatMaps ==
    ASSUME TypeInv, NEW g \in GameServers,
           NEW s \in {"Initializing", "StandingBy", "Active"},
           NEW x \in {"Healthy", "Unhealthy"}, Heartbeat(g, s, x)
    PROVE  ServiceStep
<1>1. /\ StoreOK /\ Exists(g) /\ s \in States /\ x \in Healths
      /\ Write(g, [Current(g) EXCEPT !.state = s, !.health = x])
      /\ UNCHANGED answer
  BY DEF TypeInv, Heartbeat, States, Healths, handler
<1>2. Lives' = [Lives EXCEPT ![g] = LifeOf[s]] /\ Serves' = Serves
  BY <1>1, StateWriteMaps
<1>3. /\ Lives[g] = LifeOf[Current(g).state]
      /\ Lives[g] \in {"starting", "free", "booked", "over"}
  BY <1>1, ExistsIsAlive
<1>4. CASE /\ IsValidStateTransition(Current(g).state, s)
           /\ s = "Active" => Current(g).state = "Active"
           /\ UNCHANGED lateHeartbeats
  <2>1. \/ LifeOf[s] = Lives[g]
        \/ Lives[g] = "starting" /\ LifeOf[s] = "free"
    BY <1>3, <1>4, LifeOfStates DEF IsValidStateTransition
  <2> QED
    BY <1>1, <1>2, <1>4, <2>1, LifeSteps
<1>5. CASE lateHeartbeats' = lateHeartbeats + 1
  <2>1. (lateHeartbeats > 0)' = TRUE
    BY <1>5 DEF TypeInv, CountersOK
  <2>2. LifeOf[s] \in {"starting", "free", "booked"}
    BY LifeOfStates
  <2>3. Service!Overwrite(g)
    BY <1>1, <1>2, <1>3, <2>1, <2>2
       DEF Service!Overwrite, Service!Lives, Service!Become, Lives, Serves
  <2> QED
    BY <2>3 DEF ServiceStep, Service!Next
<1> QED
  BY <1>4, <1>5 DEF Heartbeat

LEMMA EnvironmentMaps ==
    ASSUME AllocationAssumption, TypeInv, NEW g \in GameServers, Environment(g)
    PROVE  ServiceStep
<1>1. StoreOK
  BY DEF TypeInv
<1>2. CASE CreateGameServer(g)
  <2> DEFINE v == [state |-> "", health |-> "", session |-> NoSession]
  <2>1. v \in Version /\ v.state = "" /\ v.session = NoSession
    BY DEF Version, States, Healths
  <2>2. /\ history[g] = <<>> /\ Write(g, v)
        /\ UNCHANGED answer /\ UNCHANGED lateHeartbeats
    BY <1>2 DEF CreateGameServer, handler
  <2> HIDE DEF v
  <2>3. /\ Lives' = [Lives EXCEPT ![g] = LifeOf[v.state]]
        /\ Serves' = [Serves EXCEPT ![g] = @ \cup ({v.session} \ {NoSession})]
    BY <1>1, <2>1, <2>2, WriteMaps
  <2>4. Lives' = [Lives EXCEPT ![g] = "starting"]
    BY <2>1, <2>3, LifeOfStates
  <2>5. Serves' = Serves
    BY <2>1, <2>3 DEF Serves
  <2>6. Lives[g] = "absent"
    BY <2>2 DEF Lives, Life
  <2>7. Service!Create(g)
    BY <2>2, <2>4, <2>5, <2>6
       DEF Service!Create, Service!Become, Lives, Serves
  <2> QED
    BY <2>7 DEF ServiceStep, Service!Next
<1>3. CASE \E s \in {"Initializing", "StandingBy", "Active"},
              x \in {"Healthy", "Unhealthy"} : Heartbeat(g, s, x)
  BY <1>3, HeartbeatMaps
<1>4. ASSUME Exists(g), NEW s \in States, NEW x \in Healths,
             Write(g, [Current(g) EXCEPT !.state = s, !.health = x]),
             UNCHANGED answer, UNCHANGED lateHeartbeats,
             \/ s = Current(g).state
             \/ /\ s \in {"GameCompleted", "Crashed"}
                /\ Current(g).state \notin {"GameCompleted", "Crashed"}
             \/ /\ s = "ScaledDown"
                /\ Current(g).state \in {"", "Initializing", "StandingBy"}
             \/ s = "Deleted"
      PROVE  ServiceStep
  <2>1. Lives' = [Lives EXCEPT ![g] = LifeOf[s]] /\ Serves' = Serves
    BY <1>1, <1>4, StateWriteMaps
  <2>2. /\ Lives[g] = LifeOf[Current(g).state]
        /\ Current(g).state \in States \ Gone
    BY <1>1, <1>4, ExistsIsAlive, CurrentIsVersion DEF StoreOK, Exists, Version
  <2>3. \/ LifeOf[s] = Lives[g]
        \/ Lives[g] # "over" /\ LifeOf[s] = "over"
        \/ Lives[g] \in {"starting", "free"} /\ LifeOf[s] = "released"
        \/ LifeOf[s] = "discarded"
    BY <1>4, <2>2, LifeOfStates DEF States, Gone
  <2> QED
    BY <1>1, <1>4, <2>1, <2>3, LifeSteps
<1>5. ASSUME Exists(g)
      PROVE  /\ Current(g) \in Version
             /\ [Current(g) EXCEPT !.health = "Unhealthy"] =
                   [Current(g) EXCEPT !.state = Current(g).state,
                                      !.health = "Unhealthy"]
             /\ \A s \in States : [Current(g) EXCEPT !.state = s] =
                   [Current(g) EXCEPT !.state = s, !.health = Current(g).health]
  <2>1. Current(g) \in Version
    BY <1>1, <1>5, CurrentIsVersion DEF StoreOK
  <2> QED
    BY <2>1 DEF Version
<1>6. CASE MarkUnhealthy(g)
  <2>1. /\ Exists(g) /\ UNCHANGED answer /\ UNCHANGED lateHeartbeats
        /\ Write(g, [Current(g) EXCEPT !.state = Current(g).state,
                                       !.health = "Unhealthy"])
    BY <1>5, <1>6 DEF MarkUnhealthy, handler
  <2>2. Current(g).state \in States /\ "Unhealthy" \in Healths
    BY <1>5, <2>1 DEF Version, Healths
  <2> QED
    BY <1>4, <2>1, <2>2
<1>7. ASSUME Exists(g), NEW s \in States,
             Write(g, [Current(g) EXCEPT !.state = s])
      PROVE  /\ Current(g).health \in Healths
             /\ Write(g, [Current(g) EXCEPT !.state = s,
                                            !.health = Current(g).health])
  BY <1>5, <1>7 DEF Version
<1>8. ASSUME NEW s \in {"GameCompleted", "Crashed"}, ProcessExit(g, s)
      PROVE  ServiceStep
  <2>1. /\ Exists(g) /\ s \in States
        /\ Write(g, [Current(g) EXCEPT !.state = s])
        /\ UNCHANGED answer /\ UNCHANGED lateHeartbeats
        /\ Current(g).state \notin {"GameCompleted", "Crashed"}
    BY <1>8 DEF ProcessExit, handler, States
  <2> QED
    BY <1>4, <1>7, <1>8, <2>1
<1>9. CASE DeleteFinished(g)
  <2>1. /\ Exists(g) /\ "Deleted" \in States
        /\ Write(g, [Current(g) EXCEPT !.state = "Deleted"])
        /\ UNCHANGED answer /\ UNCHANGED lateHeartbeats
    BY <1>9 DEF DeleteFinished, handler, States
  <2> QED
    BY <1>4, <1>7, <2>1
<1>10. CASE ScaleDown(g)
  <2>1. /\ Exists(g) /\ "ScaledDown" \in States
        /\ Write(g, [Current(g) EXCEPT !.state = "ScaledDown"])
        /\ UNCHANGED answer /\ UNCHANGED lateHeartbeats
        /\ Current(g).state \in {"", "Initializing", "StandingBy"}
    BY <1>10 DEF ScaleDown, handler, States, View, Current
  <2> QED
    BY <1>4, <1>7, <2>1
<1> QED
  BY <1>2, <1>3, <1>6, <1>8, <1>9, <1>10 DEF Environment

-----------------------------------------------------------------------------
(* The handlers                                                            *)

(* A patch that the lock lets through books a server that was free.        *)
LEMMA ActivateMaps ==
    ASSUME TypeInv, EntriesInv, NEW h \in Handlers, pc[h] = "patch",
           Locked(held[h]), Activate(held[h], args[h].session)
    PROVE  /\ held[h].gs \in GameServers
           /\ args[h].session \in Sessions
           /\ Lives[held[h].gs] = "free"
           /\ Lives' = [Lives EXCEPT ![held[h].gs] = "booked"]
           /\ Serves' = [Serves EXCEPT ![held[h].gs] =
                            @ \cup ({args[h].session} \ {NoSession})]
<1> DEFINE g == held[h].gs
           s == args[h].session
           v == [Current(g) EXCEPT !.state = "Active", !.session = s]
<1>1. held[h] \in Entry /\ g \in GameServers /\ s \in Sessions
  BY DEF TypeInv, HandlersOK, Entry, Request
<1>2. Exists(g) /\ Current(g).state = "StandingBy"
  BY <1>1 DEF EntriesInv, InUse, Offered, Locked, Current
<1>3. StoreOK /\ Current(g) \in Version
  BY <1>1, <1>2, CurrentIsVersion DEF TypeInv, StoreOK
<1>4. v \in Version /\ v.state = "Active" /\ v.session = s
  BY <1>1, <1>3 DEF Version, States
<1>5. Write(g, v)
  BY DEF Activate
<1> HIDE DEF g, s, v
<1>6. PICK k \in GameServers, w \in Version : k = g /\ w = v
  BY <1>1, <1>4
<1>7. Write(k, w)
  BY <1>5, <1>6
<1>8. /\ Lives' = [Lives EXCEPT ![k] = LifeOf[w.state]]
      /\ Serves' = [Serves EXCEPT ![k] = @ \cup ({w.session} \ {NoSession})]
  BY <1>3, <1>7, WriteMaps
<1>9. Lives[g] = "free"
  BY <1>1, <1>2, <1>3, ExistsIsAlive, LifeOfStates
<1> QED
  BY <1>1, <1>4, <1>6, <1>8, <1>9, LifeOfStates DEF g, s

LEMMA BookingMaps ==
    ASSUME AllocationAssumption, TypeInv, EntriesInv, NEW h \in Handlers,
           pc[h] = "patch", Locked(held[h]),
           Activate(held[h], args[h].session), UNCHANGED lateHeartbeats,
           \/ UNCHANGED answer
           \/ answer' = [answer EXCEPT ![h] = [session |-> args[h].session,
                                               gs |-> held[h].gs]]
    PROVE  ServiceStep
<1> DEFINE g == held[h].gs
           s == args[h].session
<1>1. /\ g \in GameServers /\ s \in Sessions
      /\ Lives[g] = "free"
      /\ Lives' = [Lives EXCEPT ![g] = "booked"]
      /\ Serves' = [Serves EXCEPT ![g] = @ \cup ({s} \ {NoSession})]
  BY ActivateMaps
<1>2. \/ UNCHANGED answer
      \/ \E c \in Handlers :
            answer' = [answer EXCEPT ![c] = [session |-> s, gs |-> g]]
  OBVIOUS
<1> HIDE DEF g, s
<1>3. {s} \ {NoSession} = {s}
  BY <1>1 DEF AllocationAssumption
<1>4. Serves' = [Serves EXCEPT ![g] = @ \cup {s}]
  BY <1>1, <1>3
<1>5. Service!Book(g, s)
  BY <1>1, <1>2, <1>4 DEF Service!Book, Service!Become, Lives, Serves
<1> QED
  BY <1>1, <1>5 DEF ServiceStep, Service!Next

(* An answer that names no server forgets the last one.                    *)
LEMMA ForgetMaps ==
    ASSUME TypeInv, UNCHANGED <<history, lateHeartbeats>>,
           NEW h \in Handlers,
           answer' = answer \/ answer' = [answer EXCEPT ![h] = NoAnswer]
    PROVE  ServiceStep
<1>1. Lives' = Lives /\ Serves' = Serves
  BY DEF Lives, Serves, Life, Served, Current
<1>2. CASE answer' = answer
  BY <1>1, <1>2, QuietIsStutter DEF Quiet
<1>3. CASE answer' = [answer EXCEPT ![h] = NoAnswer]
  <2>1. answer' = [c \in Handlers |-> IF c \in {h} THEN NoAnswer ELSE answer[c]]
    BY <1>3 DEF TypeInv, HandlersOK
  <2>2. Service!Forget({h})
    BY <1>1, <2>1 DEF Service!Forget, Lives, Serves
  <2>3. {h} \in SUBSET Handlers
    OBVIOUS
  <2> QED
    BY <2>2, <2>3 DEF ServiceStep, Service!Next
<1> QED
  BY <1>2, <1>3

(* The session of a server in the cache is one that it was booked for.     *)
LEMMA ReceiveMaps ==
    ASSUME AllocationAssumption, TypeInv, NEW h \in Handlers,
           NEW s \in Sessions \cup {MalformedSession},
           NEW b \in Builds \cup {UnknownBuild}, Receive(h, s, b)
    PROVE  ServiceStep
<1>1. UNCHANGED <<history, lateHeartbeats>>
  BY DEF Receive, server
<1>2. CASE answer' = [answer EXCEPT ![h] = NoAnswer]
  BY <1>1, <1>2, ForgetMaps
<1>3. ASSUME NEW g \in GameServers, s # MalformedSession,
             ServersOfSession(s, b) = {g},
             answer' = [answer EXCEPT ![h] = [session |-> s, gs |-> g]]
      PROVE  ServiceStep
  <2>1. Lives' = Lives /\ Serves' = Serves
    BY <1>1 DEF Lives, Serves, Life, Served, Current
  <2>2. InCache(g) /\ View(g).session = s
    BY <1>3 DEF ServersOfSession
  <2>3. cached[g] \in 1 .. Len(history[g]) /\ history[g][cached[g]].session = s
    BY <2>2 DEF TypeInv, StoreOK, InCache, View
  <2>4. s \in Sessions /\ s # NoSession
    BY <1>3 DEF AllocationAssumption
  <2>5. s \in Serves[g]
    BY <2>3, <2>4 DEF Serves, Served
  <2>6. Service!AnswerAgain(h, g, s)
    BY <1>1, <1>3, <2>1, <2>5 DEF Service!AnswerAgain, Lives, Serves
  <2> QED
    BY <2>4, <2>6 DEF ServiceStep, Service!Next
<1> QED
  BY <1>2, <1>3 DEF Receive, Reply

LEMMA HandleMaps ==
    ASSUME AllocationAssumption, TypeInv, EntriesInv, NEW h \in Handlers,
           Handle(h)
    PROVE  ServiceStep
<1>1. CASE Pop(h)
  <2>1. UNCHANGED <<history, lateHeartbeats>>
    BY <1>1 DEF Pop, server
  <2>2. answer' = answer \/ answer' = [answer EXCEPT ![h] = NoAnswer]
    BY <1>1, Zenon DEF Pop, Reply
  <2> QED
    BY <2>1, <2>2, ForgetMaps
<1>2. CASE Signal(h)
  <2>1. UNCHANGED <<history, lateHeartbeats>>
    BY <1>2 DEF Signal, server
  <2>2. answer' = answer \/ answer' = [answer EXCEPT ![h] = NoAnswer]
    BY <1>2, Zenon DEF Signal, Reply
  <2> QED
    BY <2>1, <2>2, ForgetMaps
<1>3. ASSUME Patch(h) \/ PatchFails(h)
      PROVE  /\ pc[h] = "patch" /\ UNCHANGED lateHeartbeats
             /\ \/ /\ Locked(held[h])
                   /\ Activate(held[h], args[h].session)
                   /\ \/ answer' = answer
                      \/ answer' = [answer EXCEPT ![h] =
                                      [session |-> args[h].session,
                                       gs |-> held[h].gs]]
                \/ UNCHANGED <<history, answer>>
  <2>1. CASE Patch(h)
    BY <2>1, Zenon DEF Patch, Reply
  <2>2. CASE PatchFails(h)
    BY <2>2, Zenon DEF PatchFails
  <2> QED
    BY <1>3, <2>1, <2>2
<1>4. CASE Patch(h) \/ PatchFails(h)
  BY <1>3, <1>4, BookingMaps, ForgetMaps
<1> QED
  BY <1>1, <1>2, <1>4 DEF Handle

-----------------------------------------------------------------------------
(* The theorem                                                             *)

LEMMA RestartMaps ==
    ASSUME Restart
    PROVE  ServiceStep
<1>1. Lives' = Lives /\ Serves' = Serves /\ UNCHANGED lateHeartbeats
  BY DEF Restart, server, Lives, Serves, Life, Served, Current
<1>2. answer' = [h \in Handlers |->
                   IF h \in Handlers THEN NoAnswer ELSE answer[h]]
  BY DEF Restart
<1>3. Service!Forget(Handlers)
  BY <1>1, <1>2 DEF Service!Forget, Lives, Serves
<1> QED
  BY <1>3 DEF ServiceStep, Service!Next

LEMMA InitMaps == Init => Service!Init
<1> SUFFICES ASSUME Init PROVE Service!Init
  OBVIOUS
<1>1. \A g \in GameServers : Life(g) = "absent"
  BY DEF Init, Life
<1>2. \A g \in GameServers : Served(g) = {}
  BY DEF Init, Served
<1> QED
  BY <1>1, <1>2 DEF Init, Service!Init

LEMMA StepMaps ==
    ASSUME AllocationAssumption, TypeInv, EntriesInv, [Next]_vars
    PROVE  ServiceStep
<1>1. ASSUME UNCHANGED <<history, lateHeartbeats, answer>>
      PROVE  ServiceStep
  <2>1. Quiet
    BY <1>1 DEF Quiet, Lives, Serves, Life, Served, Current
  <2> QED
    BY <2>1, QuietIsStutter
<1>2. CASE UNCHANGED vars
  BY <1>1, <1>2 DEF vars, server, handler
<1>3. CASE Next
  <2>1. ASSUME NEW g \in GameServers, Deliver(g) \/ ReconcileRead(g)
        PROVE  ServiceStep
    BY <1>1, <2>1 DEF Deliver, ReconcileRead, server, handler
  <2>2. CASE ReconcilePush \/ ReconcilePanics \/ Start \/ ForwardEvent
    BY <1>1, <2>2
       DEF ReconcilePush, ReconcilePanics, Start, ForwardEvent, server, handler
  <2> QED
    BY <1>3, <2>1, <2>2, EnvironmentMaps, ReceiveMaps, HandleMaps, RestartMaps
       DEF Next
<1> QED
  BY <1>2, <1>3

(* The operator's queue, cache, optimistic lock and retries, with the      *)
(* other writers of GameServers, implement the allocation service, however *)
(* many servers, builds, sessions and requests there are.                  *)
THEOREM RefinementCorrect == Spec => ImplementsService
<1>1. Init => Service!Init
  BY InitMaps
<1>2. TypeInv /\ EntriesInv /\ [Next]_vars => [Service!Next]_Service!vars
  BY AllocationAssumption, StepMaps DEF ServiceStep
<1> QED
  BY <1>1, <1>2, Invariants, PTL DEF Spec, ImplementsService, Service!Spec

=============================================================================
