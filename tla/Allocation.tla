------------------------------ MODULE Allocation ------------------------------
(***************************************************************************)
(* The allocation path of the operator                                     *)
(* (pkg/operator/controllers/allocation_api_server.go, gameserverqueue.go) *)
(* against the Kubernetes API server that stores the GameServer objects.   *)
(*                                                                         *)
(* An allocation request ends up booking a GameServer: it is popped from   *)
(* an in-memory priority queue and patched to Active under an optimistic   *)
(* lock on its ResourceVersion.  The queue is filled by a reconciler that  *)
(* reads a cache which lags behind the API server.  Meanwhile the node     *)
(* agent, the GameServer controller and the GameServerBuild controller     *)
(* write to and delete the same objects.                                   *)
(*                                                                         *)
(* history[g] is every version of GameServer g the API server ever stored, *)
(* oldest first; a ResourceVersion is a position in it.  The last version  *)
(* is the current one; a deleted object ends in a tombstone that keeps the *)
(* last session, so that the history tells what became of each booking.    *)
(* Names are random (NewGameServerForGameServerBuild), so that a name is   *)
(* never created twice.                                                    *)
(***************************************************************************)
EXTENDS Integers, Sequences, FiniteSets

CONSTANTS
    GameServers,        \* names of GameServer objects
    Builds,             \* BuildIDs that have a GameServerBuild
    UnknownBuild,       \* a BuildID that has none
    Sessions,           \* session IDs (valid UUIDs)
    MalformedSession,   \* a session ID that is no UUID
    NoSession,          \* the empty session ID
    NoGameServer,       \* a nil *GameServerForQueue
    BuildOf,            \* spec.buildID of each GameServer
    NodeAge,            \* status.nodeAge of each GameServer
    Handlers,           \* goroutines that serve /api/v1/allocate
    AllocationTries,    \* const allocationTries
    EventsCapacity,     \* capacity of the channel events
    MaxVersions,        \* bound: the node agent writes no version past this
    MaxLateHeartbeats,  \* bound: heartbeats that overwrite a later state
    MaxPatchFaults,     \* bound: allocation patches that fail or lose their reply
    MaxRestarts         \* bound: restarts of the operator

ASSUME AllocationAssumption ==
    /\ BuildOf \in [GameServers -> Builds]
    /\ NodeAge \in [GameServers -> Nat]
    /\ UnknownBuild \notin Builds
    /\ MalformedSession \notin Sessions
    /\ NoSession \notin Sessions
    /\ NoGameServer \notin GameServers
    /\ AllocationTries \in Nat \ {0}
    /\ EventsCapacity \in Nat \ {0}
    /\ MaxVersions \in Nat
    /\ MaxLateHeartbeats \in Nat
    /\ MaxPatchFaults \in Nat
    /\ MaxRestarts \in Nat

VARIABLES
    history,    \* the API server: all versions of each GameServer
    cached,     \* the version of each GameServer in the operator's cache
    pending,    \* work queue of the allocation controller
    worker,     \* the entry its only worker is about to push
    queue,      \* GameServersQueue.queuesPerBuilds, as a set per BuildID
    indexed,    \* keys of GameServersQueue.namespacedNameToBuildId
    events,     \* AllocationApiServer.events
    pc,         \* where each handler is
    args,       \* the request each handler serves
    held,       \* the GameServer each handler popped
    tries,      \* the loop counter i of each handler
    answer,     \* the last answer of each handler
    serving,    \* whether Start has made the queue and the HTTP server
    lateHeartbeats, patchFaults, restarts   \* faults so far

server   == <<history, lateHeartbeats>>
operator == <<pending, worker, queue, indexed, events>>
handler  == <<pc, args, held, tries, answer>>
service  == <<serving, restarts>>
vars     == <<server, cached, operator, handler, patchFaults, service>>

States  == {"", "Initializing", "StandingBy", "Active", "GameCompleted",
            "Crashed", "Deleted", "ScaledDown"}
Gone    == {"Deleted", "ScaledDown"}
Healths == {"", "Healthy", "Unhealthy"}

Version == [state   : States,
            health  : Healths,
            session : Sessions \cup {NoSession}]

(* GameServerForQueue; name, namespace and BuildID are one identity here.  *)
Entry   == [gs : GameServers, rv : Nat \ {0}]
NoEntry == [gs |-> NoGameServer, rv |-> 0]

-----------------------------------------------------------------------------
(* Views of a GameServer: what the API server stores, what the cache shows *)

Current(g) == history[g][Len(history[g])]
Exists(g)  == history[g] # <<>> /\ Current(g).state \notin Gone

View(g)    == history[g][cached[g]]
InCache(g) == cached[g] # 0 /\ View(g).state \notin Gone

(* A write: the API server stores a new version.                           *)
Write(g, version) == history' = [history EXCEPT ![g] = Append(@, version)]

-----------------------------------------------------------------------------
(* GameServersQueue (gameserverqueue.go).  The code deletes the queue of a *)
(* build when it becomes empty, so that "exists" is "not empty" here.      *)

QueuedNames(b) == {e.gs : e \in queue[b]}

(* PushToQueue: a name already in gameServerNameSet keeps its old entry.   *)
PushToQueue(e) ==
    LET b == BuildOf[e.gs] IN
    /\ indexed' = indexed \cup {e.gs}
    /\ queue' = IF e.gs \in QueuedNames(b)
                THEN queue
                ELSE [queue EXCEPT ![b] = @ \cup {e}]

(* The heap's top: an entry on the newest node.                            *)
Tops(b) == {e \in queue[b] : \A f \in queue[b] : NodeAge[e.gs] <= NodeAge[f.gs]}

(* Variant of RemoveFromQueue: cleans the index, forgets the heap.         *)
RemoveFromIndexOnly(g) ==
    /\ indexed' = indexed \ {g}
    /\ UNCHANGED queue

(* RemoveFromQueue gives up early when the build has no queue, and then it *)
(* leaves the name in the index.                                           *)
RemoveFromQueue(g) ==
    LET b == BuildOf[g] IN
    IF g \in indexed /\ queue[b] # {}
    THEN /\ queue' = [queue EXCEPT ![b] = {e \in @ : e.gs # g}]
         /\ indexed' = indexed \ {g}
    ELSE UNCHANGED <<queue, indexed>>

-----------------------------------------------------------------------------
(* The cache and the controller that fills the queue                       *)

(* The informer delivers a later version (or, after a relist, any later    *)
(* one) and enqueues the object.                                           *)
Deliver(g) ==
    /\ \E v \in (cached[g] + 1) .. Len(history[g]) :
          cached' = [cached EXCEPT ![g] = v]
    /\ pending' = pending \cup {g}
    /\ UNCHANGED <<server, worker, queue, indexed, events, handler,
                   patchFaults, service>>

(* Only StandingBy servers are queued.                                     *)
IsQueueable(g) == View(g).state = "StandingBy"

(* Reconcile up to the call to PushToQueue, with the ResourceVersion the   *)
(* cache had.  Before Start has run there is no queue: RemoveFromQueue     *)
(* panics, which the controller recovers from by keeping the request.      *)
ReconcileRead(g) ==
    /\ worker = NoEntry
    /\ g \in pending
    /\ pending' = pending \ {g}
    /\ IF InCache(g)
       THEN /\ worker' = IF IsQueueable(g)
                         THEN [gs |-> g, rv |-> cached[g]]
                         ELSE NoEntry
            /\ UNCHANGED <<queue, indexed>>
       ELSE /\ serving
            /\ RemoveFromQueue(g)
            /\ UNCHANGED worker
    /\ UNCHANGED <<server, cached, events, handler, patchFaults, service>>

ReconcilePush ==
    /\ worker # NoEntry
    /\ serving
    /\ PushToQueue(worker)
    /\ worker' = NoEntry
    /\ UNCHANGED <<server, cached, pending, events, handler, patchFaults,
                   service>>

(* PushToQueue without a queue panics, and the request is retried.         *)
ReconcilePanics ==
    /\ worker # NoEntry
    /\ ~serving
    /\ pending' = pending \cup {worker.gs}
    /\ worker' = NoEntry
    /\ UNCHANGED <<server, cached, queue, indexed, events, handler,
                   patchFaults, service>>

(* Start, which the manager runs beside the controller: a new queue, and   *)
(* only then the HTTP server.                                              *)
Start ==
    /\ ~serving
    /\ serving' = TRUE
    /\ queue' = [b \in Builds |-> {}]
    /\ indexed' = {}
    /\ UNCHANGED <<server, cached, pending, worker, events, handler,
                   patchFaults, restarts>>

(* Variant of ForwardEvent: the event stays in the channel.                *)
PeekEvent ==
    /\ events # <<>>
    /\ pending' = pending \cup {Head(events)}
    /\ UNCHANGED <<server, cached, worker, queue, indexed, events, handler,
                   patchFaults, service>>

(* The channel source hands an event of a failed allocation to the work    *)
(* queue.                                                                  *)
ForwardEvent ==
    /\ events # <<>>
    /\ pending' = pending \cup {Head(events)}
    /\ events' = Tail(events)
    /\ UNCHANGED <<server, cached, worker, queue, indexed, handler,
                   patchFaults, service>>

-----------------------------------------------------------------------------
(* handleAllocationRequest, cut where another goroutine can come between   *)

(* A successful answer names a server; the error answers (400, 404, 429,   *)
(* 500) are not told apart.                                                *)
Answer   == [session : Sessions, gs : GameServers]
NoAnswer == [session |-> NoSession, gs |-> NoGameServer]

Request   == [session : Sessions, build : Builds]
NoRequest == [session |-> NoSession, build |-> UnknownBuild]

(* The handler writes its response and returns.                            *)
Reply(h, ans) ==
    /\ answer' = [answer EXCEPT ![h] = ans]
    /\ pc' = [pc EXCEPT ![h] = "idle"]
    /\ args' = [args EXCEPT ![h] = NoRequest]
    /\ held' = [held EXCEPT ![h] = NoEntry]
    /\ tries' = [tries EXCEPT ![h] = 0]

(* Variant: any server of the build that has a session.                    *)
ServersOfAnySession(s, b) ==
    {g \in GameServers : /\ BuildOf[g] = b
                         /\ InCache(g)
                         /\ View(g).session # NoSession}

(* The cached list of the GameServers of a build that have a session ID.   *)
ServersOfSession(s, b) ==
    {g \in GameServers : BuildOf[g] = b /\ InCache(g) /\ View(g).session = s}

(* From the request to the loop: validation, the build, and a server that  *)
(* already has the session.                                                *)
Receive(h, s, b) ==
    /\ serving
    /\ pc[h] = "idle"
    /\ LET booked == ServersOfSession(s, b) IN
       \/ /\ \/ s = MalformedSession                 \* 400
             \/ b = UnknownBuild                     \* 404
             \/ Cardinality(booked) > 1              \* 500
          /\ Reply(h, NoAnswer)
       \/ /\ s # MalformedSession
          /\ b # UnknownBuild
          /\ \E g \in GameServers :
                /\ booked = {g}
                /\ Reply(h, [session |-> s, gs |-> g])
       \/ /\ s # MalformedSession
          /\ b # UnknownBuild
          /\ booked = {}
          /\ pc' = [pc EXCEPT ![h] = "pop"]
          /\ args' = [args EXCEPT ![h] = [session |-> s, build |-> b]]
          /\ answer' = [answer EXCEPT ![h] = NoAnswer]
          /\ UNCHANGED <<held, tries>>
    /\ UNCHANGED <<server, cached, operator, patchFaults, service>>

(* PopFromQueue; an empty queue ends the request.                          *)
Pop(h) ==
    LET b == args[h].build IN
    /\ pc[h] = "pop"
    /\ \/ /\ queue[b] = {}
          /\ Reply(h, NoAnswer)                         \* 429
          /\ UNCHANGED queue
       \/ \E e \in Tops(b) :
             /\ queue' = [queue EXCEPT ![b] = @ \ {e}]
             /\ held' = [held EXCEPT ![h] = e]
             /\ pc' = [pc EXCEPT ![h] = "patch"]
             /\ UNCHANGED <<args, tries, answer>>
    /\ UNCHANGED <<server, cached, pending, worker, indexed, events,
                   patchFaults, service>>

(* Variant of Locked: a plain merge patch, without the optimistic lock.    *)
Patchable(e) == Exists(e.gs)

(* The optimistic lock: the object exists and still has this version.      *)
Locked(e) == Exists(e.gs) /\ Len(history[e.gs]) = e.rv

Activate(e, s) ==
    Write(e.gs, [Current(e.gs) EXCEPT !.state = "Active", !.session = s])

(* Status().Patch and its reply.                                           *)
Patch(h) ==
    LET e == held[h] IN
    /\ pc[h] = "patch"
    /\ \/ /\ Locked(e)
          /\ Activate(e, args[h].session)
          /\ Reply(h, [session |-> args[h].session, gs |-> e.gs])
       \/ /\ ~Locked(e)        \* 409 Conflict or 404 NotFound
          /\ pc' = [pc EXCEPT ![h] = "signal"]
          /\ UNCHANGED <<history, args, held, tries, answer>>
    /\ UNCHANGED <<lateHeartbeats, cached, operator, patchFaults, service>>

(* The patch fails for another reason, before or after it was applied.     *)
PatchFails(h) ==
    LET e == held[h] IN
    /\ pc[h] = "patch"
    /\ patchFaults < MaxPatchFaults
    /\ patchFaults' = patchFaults + 1
    /\ \/ UNCHANGED history
       \/ Locked(e) /\ Activate(e, args[h].session)
    /\ pc' = [pc EXCEPT ![h] = "signal"]
    /\ UNCHANGED <<lateHeartbeats, cached, operator, args, held, tries,
                   answer, service>>

(* Variant of Signal: no event for the controller.                         *)
SignalNobody(h) ==
    /\ pc[h] = "signal"
    /\ IF tries[h] + 1 = AllocationTries
       THEN Reply(h, NoAnswer)
       ELSE /\ pc' = [pc EXCEPT ![h] = "pop"]
            /\ held' = [held EXCEPT ![h] = NoEntry]
            /\ tries' = [tries EXCEPT ![h] = @ + 1]
            /\ UNCHANGED <<args, answer>>
    /\ UNCHANGED <<server, cached, operator, patchFaults, service>>

(* Any error: ask for a reconciliation (a send that blocks while the       *)
(* channel is full), then try again or give up.                            *)
Signal(h) ==
    /\ pc[h] = "signal"
    /\ Len(events) < EventsCapacity
    /\ events' = Append(events, held[h].gs)
    /\ IF tries[h] + 1 = AllocationTries
       THEN Reply(h, NoAnswer)                         \* 500
       ELSE /\ pc' = [pc EXCEPT ![h] = "pop"]
            /\ held' = [held EXCEPT ![h] = NoEntry]
            /\ tries' = [tries EXCEPT ![h] = @ + 1]
            /\ UNCHANGED <<args, answer>>
    /\ UNCHANGED <<server, cached, pending, worker, queue, indexed,
                   patchFaults, service>>

-----------------------------------------------------------------------------
(* The other writers of the same objects                                   *)

(* NewGameServerForGameServerBuild, created by the build controller.       *)
CreateGameServer(g) ==
    /\ history[g] = <<>>
    /\ Write(g, [state |-> "", health |-> "", session |-> NoSession])
    /\ UNCHANGED <<lateHeartbeats, cached, operator, handler, patchFaults,
                   service>>

(* isValidStateTransition of the node agent.                               *)
IsValidStateTransition(old, new) ==
    \/ old = "" /\ new \in {"Initializing", "StandingBy"}
    \/ old = "Initializing" /\ new = "StandingBy"
    \/ old = "StandingBy" /\ new = "Active"
    \/ old = new

(* updateHealthAndStateIfNeeded patches state and health together, without *)
(* a lock and by what the node agent remembers.  Normally that is the      *)
(* state of the object.  A late patch is one that the object has overtaken *)
(* (the server was allocated or its pod ended since the process reported   *)
(* StandingBy, or the node agent restarted and remembers nothing).  A patch *)
(* of Initializing or StandingBy stamps the time, so that it always makes a *)
(* new version; one of Active only when the health differs.                *)
Heartbeat(g, state, health) ==
    /\ Exists(g)
    /\ Len(history[g]) < MaxVersions
    /\ \/ /\ IsValidStateTransition(Current(g).state, state)
          /\ state = "Active" => /\ Current(g).state = "Active"
                                 /\ Current(g).health # health
          /\ UNCHANGED lateHeartbeats
       \/ /\ ~IsValidStateTransition(Current(g).state, state)
          /\ lateHeartbeats < MaxLateHeartbeats
          /\ lateHeartbeats' = lateHeartbeats + 1
    /\ Write(g, [Current(g) EXCEPT !.state = state, !.health = health])
    /\ UNCHANGED <<cached, operator, handler, patchFaults, service>>

(* markGameServerUnhealthy: a heartbeat has been missing for too long.     *)
MarkUnhealthy(g) ==
    /\ Exists(g)
    /\ Len(history[g]) < MaxVersions
    /\ Current(g).health # "Unhealthy"
    /\ Write(g, [Current(g) EXCEPT !.health = "Unhealthy"])
    /\ UNCHANGED <<lateHeartbeats, cached, operator, handler, patchFaults,
                   service>>

(* GameServerReconciler: the container of the server has terminated.       *)
ProcessExit(g, state) ==
    /\ Exists(g)
    /\ Current(g).state \notin {"GameCompleted", "Crashed"}
    /\ Write(g, [Current(g) EXCEPT !.state = state])
    /\ UNCHANGED <<lateHeartbeats, cached, operator, handler, patchFaults,
                   service>>

(* The build controller deletes what its cache shows as finished, crashed  *)
(* or unhealthy, whatever the object has become.                           *)
DeleteFinished(g) ==
    /\ InCache(g)
    /\ Exists(g)
    /\ \/ View(g).state = "GameCompleted" /\ View(g).health = "Healthy"
       \/ View(g).state = "Crashed"
       \/ View(g).health = "Unhealthy"
    /\ Write(g, [Current(g) EXCEPT !.state = "Deleted"])
    /\ UNCHANGED <<lateHeartbeats, cached, operator, handler, patchFaults,
                   service>>

(* deleteGameServer: scaling down deletes servers its cache shows as not   *)
(* Active, under a precondition on the ResourceVersion of the cache.       *)
ScaleDown(g) ==
    /\ InCache(g)
    /\ View(g).state \in {"", "Initializing", "StandingBy"}
    /\ Exists(g)
    /\ cached[g] = Len(history[g])
    /\ Write(g, [Current(g) EXCEPT !.state = "ScaledDown"])
    /\ UNCHANGED <<lateHeartbeats, cached, operator, handler, patchFaults,
                   service>>

-----------------------------------------------------------------------------
(* The operator restarts: queue, work queue, channel and requests are lost; *)
(* its cache is listed anew, and every object listed is reconciled.        *)
Restart ==
    /\ restarts < MaxRestarts
    /\ restarts' = restarts + 1
    /\ serving' = FALSE
    /\ cached' = [g \in GameServers |-> Len(history[g])]
    /\ pending' = {g \in GameServers : Exists(g)}
    /\ worker' = NoEntry
    /\ queue' = [b \in Builds |-> {}]
    /\ indexed' = {}
    /\ events' = <<>>
    /\ pc' = [h \in Handlers |-> "idle"]
    /\ args' = [h \in Handlers |-> NoRequest]
    /\ held' = [h \in Handlers |-> NoEntry]
    /\ tries' = [h \in Handlers |-> 0]
    /\ answer' = [h \in Handlers |-> NoAnswer]
    /\ UNCHANGED <<server, patchFaults>>

Init ==
    /\ history = [g \in GameServers |-> <<>>]
    /\ cached = [g \in GameServers |-> 0]
    /\ pending = {}
    /\ worker = NoEntry
    /\ queue = [b \in Builds |-> {}]
    /\ indexed = {}
    /\ events = <<>>
    /\ pc = [h \in Handlers |-> "idle"]
    /\ args = [h \in Handlers |-> NoRequest]
    /\ held = [h \in Handlers |-> NoEntry]
    /\ tries = [h \in Handlers |-> 0]
    /\ answer = [h \in Handlers |-> NoAnswer]
    /\ serving = FALSE
    /\ lateHeartbeats = 0
    /\ patchFaults = 0
    /\ restarts = 0

Handle(h) == Pop(h) \/ Patch(h) \/ PatchFails(h) \/ Signal(h)

Environment(g) ==
    \/ CreateGameServer(g)
    \/ \E state \in {"Initializing", "StandingBy", "Active"},
          health \in {"Healthy", "Unhealthy"} : Heartbeat(g, state, health)
    \/ MarkUnhealthy(g)
    \/ \E state \in {"GameCompleted", "Crashed"} : ProcessExit(g, state)
    \/ DeleteFinished(g)
    \/ ScaleDown(g)

Next ==
    \/ \E g \in GameServers : Deliver(g) \/ ReconcileRead(g) \/ Environment(g)
    \/ ReconcilePush
    \/ ReconcilePanics
    \/ Start
    \/ ForwardEvent
    \/ \E h \in Handlers :
          \/ \E s \in Sessions \cup {MalformedSession},
                b \in Builds \cup {UnknownBuild} : Receive(h, s, b)
          \/ Handle(h)
    \/ Restart

Spec == Init /\ [][Next]_vars

(* The goroutines of the operator run: its informer, the worker of the     *)
(* controller, the channel source and every request being served.  Strong  *)
(* fairness where goroutines take turns: the work queue and the senders    *)
(* blocked on a channel are both served first come, first served.  Nothing *)
(* is assumed of clients, of the other writers, or of faults.              *)
Fairness ==
    /\ \A g \in GameServers : WF_vars(Deliver(g)) /\ SF_vars(ReconcileRead(g))
    /\ WF_vars(ReconcilePush)
    /\ WF_vars(Start)
    /\ WF_vars(ForwardEvent)
    /\ \A h \in Handlers : SF_vars(Handle(h))

FairSpec == Spec /\ Fairness

-----------------------------------------------------------------------------
(* The service that all this implements                                    *)

LifeOf == [state \in States |->
    CASE state \in {"", "Initializing"}       -> "starting"
      [] state = "StandingBy"                 -> "free"
      [] state = "Active"                     -> "booked"
      [] state \in {"GameCompleted", "Crashed"} -> "over"
      [] state = "ScaledDown"                 -> "released"
      [] state = "Deleted"                    -> "discarded"]

Life(g) == IF history[g] = <<>> THEN "absent" ELSE LifeOf[Current(g).state]

(* The sessions in all the versions of a server.                           *)
Served(g) ==
    {history[g][i].session : i \in 1 .. Len(history[g])} \ {NoSession}

Service == INSTANCE AllocationService WITH
    Clients     <- Handlers,
    life        <- [g \in GameServers |-> Life(g)],
    served      <- [g \in GameServers |-> Served(g)],
    overwritten <- lateHeartbeats > 0

(* Queue, cache, optimistic lock and retries implement the service: a      *)
(* server is booked in one step of the store and only while it is          *)
(* StandingBy, an answer names a server that was booked for the session,   *)
(* scaling down takes no Active server, and no other writer of GameServers *)
(* books or frees one, but for the late heartbeats.                        *)
ImplementsService == Service!Spec

-----------------------------------------------------------------------------
(* Properties                                                              *)

(* Every variable has its type, and the cache is never ahead of the store. *)
TypeOK ==
    /\ history \in [GameServers -> Seq(Version)]
    /\ cached \in [GameServers -> Nat]
    /\ \A g \in GameServers : cached[g] <= Len(history[g])
    /\ pending \subseteq GameServers
    /\ worker \in Entry \cup {NoEntry}
    /\ queue \in [Builds -> SUBSET Entry]
    /\ indexed \subseteq GameServers
    /\ events \in Seq(GameServers)
    /\ pc \in [Handlers -> {"idle", "pop", "patch", "signal"}]
    /\ args \in [Handlers -> Request \cup {NoRequest}]
    /\ held \in [Handlers -> Entry \cup {NoEntry}]
    /\ tries \in [Handlers -> 0 .. AllocationTries - 1]
    /\ answer \in [Handlers -> Answer \cup {NoAnswer}]
    /\ serving \in BOOLEAN
    /\ lateHeartbeats \in Nat
    /\ patchFaults \in Nat
    /\ restarts \in Nat

(* A queue holds one entry per server, only servers of its build, and only *)
(* servers the index knows: otherwise RemoveFromQueue would not find the   *)
(* entry of a deleted server (gameserverqueue.go, 61-76 and 124-140).      *)
QueueIsIndexed ==
    \A b \in Builds : \A e \in queue[b] :
        /\ BuildOf[e.gs] = b
        /\ e.gs \in indexed
        /\ \A f \in queue[b] : f.gs = e.gs => f = e

(* Whatever is queued, about to be queued or popped names a version of the *)
(* server in which it was StandingBy: a stale cache can make an entry old, *)
(* never wrong (allocation_api_server.go, 183-193).                        *)
Offered(e) ==
    /\ e.rv \in 1 .. Len(history[e.gs])
    /\ history[e.gs][e.rv].state = "StandingBy"

EntriesWereStandingBy ==
    /\ worker # NoEntry => Offered(worker)
    /\ \A b \in Builds : \A e \in queue[b] : Offered(e)
    /\ \A h \in Handlers : held[h] # NoEntry => Offered(held[h])

(* Over the whole life of a server, its session changes only in a version  *)
(* that turns a StandingBy server into an Active one: no two requests that *)
(* popped the same server, however stale their entries, both get it.       *)
SessionTakesStandingBy ==
    \A g \in GameServers : \A i \in 2 .. Len(history[g]) :
        history[g][i].session # history[g][i - 1].session =>
            /\ history[g][i - 1].state = "StandingBy"
            /\ history[g][i].state = "Active"

(* A server serves one session in its life (docs/gsdk/                     *)
(* gameserverlifecycle.md: Active never goes back to StandingBy), as long  *)
(* as no late heartbeat overwrites its state.                              *)
BookedOnce ==
    lateHeartbeats = 0 =>
        \A g \in GameServers : \A i, j \in 1 .. Len(history[g]) :
            \/ history[g][i].session = NoSession
            \/ history[g][j].session = NoSession
            \/ history[g][i].session = history[g][j].session

(* A request that is answered with a server was given one that carries its *)
(* session, or has carried it.                                             *)
AnswerIsBooked ==
    \A h \in Handlers : answer[h] # NoAnswer =>
        \E i \in 1 .. Len(history[answer[h].gs]) :
            history[answer[h].gs][i].session = answer[h].session

(* Two requests are answered with the same server only for one session,    *)
(* as long as no late heartbeat overwrites the state of a server.          *)
NoSharedServer ==
    lateHeartbeats = 0 =>
        \A h, k \in Handlers :
            (answer[h] # NoAnswer /\ answer[h].gs = answer[k].gs) =>
                answer[h].session = answer[k].session

(* Scaling down never removes a server that was allocated in the meantime  *)
(* (gameserverbuild_controller.go, 360-361).                               *)
ScaleDownSparesActive ==
    \A g \in GameServers : \A i \in 2 .. Len(history[g]) :
        history[g][i].state = "ScaledDown" => history[g][i - 1].state # "Active"

(* One session, one server: what "this should never happen" says           *)
(* (allocation_api_server.go, 257).                                        *)
SessionUnique ==
    \A s \in Sessions, b \in Builds :
        Cardinality({g \in GameServers : /\ BuildOf[g] = b
                                         /\ Exists(g)
                                         /\ Current(g).session = s}) <= 1

Available(g) == Exists(g) /\ Current(g).state = "StandingBy"

(* A StandingBy server is never lost on its way to the next request: it is *)
(* queued, popped, or the controller has still to hear of it or to push it,*)
(* after failed patches, stale pushes, panics and restarts as well. Nothing*)
(* would bring it back: the controller acts on events only                 *)
(* (allocation_api_server.go, 183-193 and 323-327).                        *)
NeverForgotten ==
    \A g \in GameServers : Available(g) =>
        \/ cached[g] < Len(history[g])
        \/ g \in pending
        \/ worker.gs = g
        \/ g \in QueuedNames(BuildOf[g])
        \/ \E h \in Handlers : pc[h] \in {"patch", "signal"} /\ held[h].gs = g
        \/ \E i \in DOMAIN events : events[i] = g

(* A server that is gone is not queued, nor is it about to be pushed, but  *)
(* that the controller has still to hear that it is gone: no stale version *)
(* comes after that (allocation_api_server.go, 166-178).                   *)
GoneIsRemoved ==
    \A g \in GameServers :
        /\ history[g] # <<>> /\ ~Exists(g)
        /\ g \in QueuedNames(BuildOf[g]) \/ worker.gs = g
        => cached[g] < Len(history[g]) \/ g \in pending

(* A StandingBy server is never forgotten: as long as it stays StandingBy  *)
(* it is queued again and again, also after failed allocations popped it   *)
(* (allocation_api_server.go, 323-327).                                    *)
StandingByIsQueued ==
    \A g \in GameServers :
        Available(g) ~> (~Available(g) \/ g \in QueuedNames(BuildOf[g]))

(* A deleted server leaves the queue for good, although stale versions of  *)
(* it may still be pushed for a while (allocation_api_server.go, 175-178). *)
DeletedLeavesQueue ==
    \A g \in GameServers :
        (history[g] # <<>> /\ ~Exists(g)) ~>
            [](g \notin QueuedNames(BuildOf[g]))

(* Every request is answered: neither retries nor a full events channel    *)
(* hold a client forever.                                                  *)
RequestAnswered == \A h \in Handlers : pc[h] # "idle" ~> pc[h] = "idle"

=============================================================================
