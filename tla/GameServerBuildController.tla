---------------------- MODULE GameServerBuildController ----------------------
(***************************************************************************)
(* The GameServerBuild controller of the operator (pkg/operator/           *)
(* controllers/gameserverbuild_controller.go and                           *)
(* gameserver_expectations.go), with one GameServerBuild.                  *)
(*                                                                         *)
(* A reconciliation reads the build and its GameServers from an informer   *)
(* cache that lags behind the API server, deletes the GameServers that are *)
(* finished, removes or creates others to reach the size that the build    *)
(* asks for, and writes what it has counted into the status of the build.  *)
(* Reconciliations of one build never overlap.  The controller remembers   *)
(* what it has created and deleted (the expectations), and does nothing    *)
(* until its cache shows it.  Any event of the build or of one of its      *)
(* GameServers asks for another reconciliation.                            *)
(*                                                                         *)
(* Names of GameServers are random.  Here a name is taken again only when  *)
(* nobody knows it any more, which is as good as a new one.                *)
(***************************************************************************)
EXTENDS Integers, FiniteSets

CONSTANTS
    GameServers,             \* names of GameServers
    Specs,                   \* what users ask for: [standingBy, max]
    CrashesToMarkUnhealthy,  \* a number, or -1 for none
    MaxToAdd,                \* MAX_NUM_GS_TO_ADD
    MaxToDelete,             \* MAX_NUM_GS_TO_DEL
    MaxChanges,              \* bound: what GameServers and users do
    MaxVanished,             \* bound: GameServers that somebody else deletes
    MaxRefused,              \* bound: requests that the API server refuses
    MaxLost,                 \* bound: requests carried out, the reply lost
    MaxRestarts,             \* bound: restarts of the operator
    MaxFaults,               \* bound: the last four together
    MayDelete                \* whether the build may be deleted

ASSUME BuildAssumption ==
    /\ IsFiniteSet(GameServers)
    /\ Specs # {} /\ Specs \subseteq [standingBy : Nat, max : Nat]
    /\ \A s \in Specs : s.standingBy <= s.max      \* validateStandingBy
    /\ CrashesToMarkUnhealthy \in Nat \cup {-1}
    /\ MaxToAdd \in Nat \ {0} /\ MaxToDelete \in Nat \ {0}
    /\ \A bound \in {MaxChanges, MaxVanished, MaxRefused, MaxLost,
                     MaxRestarts, MaxFaults} : bound \in Nat
    /\ MayDelete \in BOOLEAN

VARIABLES
    build,          \* the build in the API server
    buildCache,     \* the cached copy of it
    server,         \* the GameServers in the API server
    cache,          \* the cached copy of each
    current,        \* the GameServers whose cached copy is the latest
    requested,      \* whether the workqueue holds the build
    underCreation,  \* gameServersUnderCreation
    underDeletion,  \* gameServersUnderDeletion
    crashes,        \* crashesPerBuild
    step,           \* where the reconciliation is
    gsb,            \* the build it works with
    plan,           \* what it has still to do, and what it has counted
    intact,         \* the victims that are as they were when it read them
    deaths,         \* history: GameServers deleted as crashed or unhealthy
    faults          \* how often the bounded events have happened

knowledge == <<underCreation, underDeletion, crashes>>
copies    == <<buildCache, cache, current>>
work      == <<step, gsb, plan>>
vars      == <<build, server, copies, requested, knowledge, work, intact,
               deaths, faults>>

States == {"", "Initializing", "StandingBy", "Active", "GameCompleted",
           "Crashed"}
Object == [state : States, health : {"", "Healthy", "Unhealthy"}]

NewServer == [state |-> "", health |-> ""]
NoServer  == [state |-> "none", health |-> ""]
NoBuild   == [standingBy |-> -1]

Present(copy) == {g \in GameServers : copy[g] # NoServer}

Minimum(a, b) == IF a < b THEN a ELSE b
Positive(a)   == IF a < 0 THEN 0 ELSE a

-----------------------------------------------------------------------------
(* What a reconciliation sees in its list of GameServers                   *)

Pending(o) == o.state = "" /\ o.health # "Unhealthy"
Healthy(o, state) == o.state = state /\ o.health = "Healthy"

(* The servers that count towards max.                                     *)
Counted(o) == Pending(o) \/ \E s \in {"Initializing", "StandingBy", "Active"} :
                               Healthy(o, s)

Completed(o) == Healthy(o, "GameCompleted")
Failed(o)    == o.state = "Crashed" \/ o.health = "Unhealthy"
Finished(o)  == Completed(o) \/ Failed(o)

(* Variant of FinishedIn: crashed and unhealthy servers are only counted.   *)
CompletedIn(list) == {g \in Present(list) : Completed(list[g])}

FinishedIn(list) == {g \in Present(list) : Finished(list[g])}

(* States that deleteNonActiveGameServers deletes, whatever the health.    *)
NonActive(o) == o.state \in {"", "Initializing", "StandingBy"}

(* getValueByState                                                         *)
Value(o) == CASE o.state = ""             -> 0
              [] o.state = "Initializing" -> 1
              [] o.state = "StandingBy"   -> 2
              [] OTHER                    -> 3

NumberOf(list, P(_)) == Cardinality({g \in Present(list) : P(list[g])})

Counts(list) ==
    [pending      |-> NumberOf(list, Pending),
     initializing |-> NumberOf(list, LAMBDA o : Healthy(o, "Initializing")),
     standingBy   |-> NumberOf(list, LAMBDA o : Healthy(o, "StandingBy")),
     active       |-> NumberOf(list, LAMBDA o : Healthy(o, "Active"))]

Waiting(c) == c.pending + c.initializing + c.standingBy

(* totalNumberOfGameServersToDelete: what exceeds standingBy, and again    *)
(* with what exceeds max.                                                  *)
NumberToDelete(c, spec) ==
    LET surplus == Minimum(Positive(Waiting(c) - spec.standingBy), MaxToDelete)
        excess  == Waiting(c) + c.active - spec.max
    IN  surplus + (IF excess > 0 THEN Minimum(surplus + excess, MaxToDelete)
                                 ELSE 0)

NumberToCreate(c, spec) ==
    Positive(Minimum(MaxToAdd,
                     Minimum(spec.standingBy - Waiting(c),
                             spec.max - Waiting(c) - c.active)))

(* The sets of n servers that the sorted list may begin with.              *)
Victims(list, n) ==
    LET candidates == {g \in Present(list) : NonActive(list[g])}
    IN  {V \in SUBSET candidates :
            /\ Cardinality(V) = Minimum(n, Cardinality(candidates))
            /\ \A v \in V, w \in candidates \ V :
                  Value(list[v]) <= Value(list[w])}

-----------------------------------------------------------------------------
NoCounts == [pending |-> 0, initializing |-> 0, standingBy |-> 0, active |-> 0]
NoPlan   == [finished |-> {}, victims |-> {}, create |-> 0, counts |-> NoCounts,
             crashed |-> {}, failed |-> FALSE]

NewBuild(spec) == [standingBy |-> spec.standingBy, max |-> spec.max,
                   counts |-> NoCounts, crashes |-> 0, health |-> ""]

Init ==
    /\ \E spec \in Specs : build = NewBuild(spec)
    /\ buildCache = NoBuild
    /\ server = [g \in GameServers |-> NoServer]
    /\ cache = server
    /\ current = GameServers
    /\ requested = FALSE
    /\ underCreation = {}
    /\ underDeletion = {}
    /\ crashes = 0
    /\ step = "idle"
    /\ gsb = NoBuild
    /\ plan = NoPlan
    /\ intact = {}
    /\ deaths = 0
    /\ faults = [changes |-> 0, vanished |-> 0, refused |-> 0, lost |-> 0,
                 restarts |-> 0]

Happens(kind, bound) ==
    /\ faults[kind] < bound
    /\ kind # "changes" =>
          faults.vanished + faults.refused + faults.lost + faults.restarts
              < MaxFaults
    /\ faults' = [faults EXCEPT ![kind] = @ + 1]

(* An object of the API server changes: what is older is out of date.      *)
Write(g, object) ==
    /\ server' = [server EXCEPT ![g] = object]
    /\ current' = current \ {g}
    /\ intact' = intact \ {g}

(* The end of a reconciliation, with an error or without.                  *)
Stop ==
    /\ step' = "idle"
    /\ gsb' = NoBuild
    /\ plan' = NoPlan

Requeue == Stop /\ requested' = TRUE

-----------------------------------------------------------------------------
(* Reconcile, up to the expectations                                       *)

(* An unhealthy build is left alone.                                       *)
Abandoned(b) ==
    /\ b.health = "Unhealthy"
    /\ CrashesToMarkUnhealthy # -1
    /\ b.crashes >= CrashesToMarkUnhealthy

(* The build is not there any more.  The key for crashesPerBuild is made   *)
(* from the empty object that Get has left: no entry is deleted.           *)
BuildGone ==
    /\ buildCache = NoBuild
    /\ UNCHANGED <<knowledge, work>>

(* gameServersUnderDeletionWereDeleted                                     *)
StillCached == underDeletion \cap Present(cache)

(* Variant of CreationsSeen: nobody waits for the cache.                   *)
CreationsNotAwaited == underCreation' = {}

(* gameServersUnderCreationWereCreated: it forgets the servers that it     *)
(* finds in the cache, up to the first that it does not find.              *)
CreationsSeen ==
    /\ underCreation \subseteq Present(cache)
    /\ underCreation' = {}

CreationsMissing ==
    /\ ~ underCreation \subseteq Present(cache)
    /\ \E seen \in SUBSET (underCreation \cap Present(cache)) :
          underCreation' = underCreation \ seen

Begin ==
    /\ step = "idle"
    /\ requested
    /\ requested' = FALSE
    /\ \/ BuildGone
       \/ /\ buildCache # NoBuild
          /\ Abandoned(buildCache)
          /\ UNCHANGED <<knowledge, work>>
       \/ /\ buildCache # NoBuild
          /\ ~ Abandoned(buildCache)
          /\ underDeletion' = StillCached
          /\ UNCHANGED <<crashes, plan>>
          /\ \/ /\ StillCached # {}
                /\ UNCHANGED <<underCreation, step, gsb>>
             \/ /\ StillCached = {}
                /\ CreationsMissing
                /\ UNCHANGED <<step, gsb>>
             \/ /\ StillCached = {}
                /\ CreationsSeen
                /\ step' = "list"
                /\ gsb' = buildCache
    /\ UNCHANGED <<build, server, copies, intact, deaths, faults>>

-----------------------------------------------------------------------------
(* The rest of Reconcile                                                   *)

(* The step that a plan begins with.                                       *)
NextStep(p) ==
    CASE p.finished # {}                   -> "deleteFinished"
      [] p.finished = {} /\ p.victims # {} -> "scaleDown"
      [] OTHER -> IF p.create > 0 THEN "create" ELSE "updateStatus"

Proceed(p) == plan' = p /\ step' = NextStep(p)

(* The victims whose resourceVersion, the precondition of the deletion, is *)
(* that of the API server.                                                 *)
IntactOf(V) == V \cap current

(* All that is decided from the list: which servers are finished, which    *)
(* ones are too many and how many are missing.                             *)
List ==
    /\ step = "list"
    /\ \E V \in Victims(cache, NumberToDelete(Counts(cache), gsb)) :
          /\ Proceed([finished |-> FinishedIn(cache),
                      victims  |-> V,
                      create   |-> NumberToCreate(Counts(cache), gsb),
                      counts   |-> Counts(cache),
                      crashed  |-> {g \in Present(cache) : Failed(cache[g])},
                      failed   |-> FALSE])
          /\ intact' = IntactOf(V)
    /\ UNCHANGED <<build, server, copies, requested, knowledge, gsb, deaths,
                   faults>>

(* The API server deletes g.  The history counts those that had failed.    *)
Remove(g) ==
    /\ Write(g, NoServer)
    /\ deaths' = IF g \in plan.finished \cap plan.crashed THEN deaths + 1
                                                         ELSE deaths

Expect(g) == underDeletion' = underDeletion \cup {g}

(* Deletes a finished server, whatever has become of it since.             *)
DeleteFinished(g) ==
    /\ step = "deleteFinished"
    /\ g \in plan.finished
    /\ server[g] # NoServer
    /\ Remove(g)
    /\ Expect(g)
    /\ Proceed([plan EXCEPT !.finished = @ \ {g}])
    /\ UNCHANGED <<build, buildCache, cache, requested, underCreation, crashes,
                   gsb, faults>>

(* The first error ends the reconciliation: the server is not there any    *)
(* more, the request is refused, or its reply is lost.                     *)
DeleteFinishedFails(g) ==
    /\ step = "deleteFinished"
    /\ g \in plan.finished
    /\ \/ server[g] = NoServer /\ UNCHANGED <<server, current, intact, deaths,
                                               faults>>
       \/ Happens("refused", MaxRefused) /\ UNCHANGED <<server, current,
                                                          intact, deaths>>
       \/ server[g] # NoServer /\ Happens("lost", MaxLost) /\ Remove(g)
    /\ Requeue
    /\ UNCHANGED <<build, buildCache, cache, knowledge>>

(* The parallel requests of a step are all made.  If one has failed the    *)
(* reconciliation ends.                                                    *)
AllDone(p) ==
    IF p.victims = {} /\ p.create = 0 /\ p.failed
    THEN Requeue
    ELSE Proceed(p) /\ UNCHANGED <<gsb, requested>>

(* deleteGameServer: a server that has changed is left alone.              *)
ScaleDown(g) ==
    /\ step = "scaleDown"
    /\ g \in plan.victims
    /\ \/ /\ g \in intact
          /\ Remove(g)
          /\ Expect(g)
       \/ /\ g \notin intact
          /\ server[g] # NoServer
          /\ UNCHANGED <<server, current, intact, deaths, underDeletion>>
    /\ AllDone([plan EXCEPT !.victims = @ \ {g}])
    /\ UNCHANGED <<build, buildCache, cache, underCreation, crashes, faults>>

ScaleDownFails(g) ==
    /\ step = "scaleDown"
    /\ g \in plan.victims
    /\ \/ server[g] = NoServer /\ UNCHANGED <<server, current, intact, deaths,
                                               faults>>
       \/ Happens("refused", MaxRefused) /\ UNCHANGED <<server, current,
                                                          intact, deaths>>
       \/ g \in intact /\ Happens("lost", MaxLost) /\ Remove(g)
    /\ AllDone([plan EXCEPT !.victims = @ \ {g}, !.failed = TRUE])
    /\ UNCHANGED <<build, buildCache, cache, knowledge>>

(* A name that nobody knows.                                               *)
Unused == GameServers \ (Present(server) \cup Present(cache) \cup underCreation
                           \cup underDeletion \cup plan.victims)

Create(g) ==
    /\ step = "create"
    /\ g \in Unused
    /\ Write(g, NewServer)
    /\ underCreation' = underCreation \cup {g}
    /\ AllDone([plan EXCEPT !.create = @ - 1])
    /\ UNCHANGED <<build, buildCache, cache, underDeletion, crashes, deaths,
                   faults>>

(* There are no host ports left, the request is refused, or its reply is   *)
(* lost.                                                                   *)
CreateFails ==
    /\ step = "create"
    /\ \/ Unused = {} /\ UNCHANGED <<server, current, intact, faults>>
       \/ Happens("refused", MaxRefused) /\ UNCHANGED <<server, current,
                                                          intact>>
       \/ \E g \in Unused : Happens("lost", MaxLost) /\ Write(g, NewServer)
    /\ AllDone([plan EXCEPT !.create = @ - 1, !.failed = TRUE])
    /\ UNCHANGED <<build, buildCache, cache, knowledge, deaths>>

(* updateStatus                                                            *)

Changed(crashed) == plan.counts # gsb.counts \/ crashed > 0

(* Variant of TotalCrashes: the value just stored is taken for an older    *)
(* one.                                                                    *)
TotalCrashesTwice(crashed) ==
    IF crashes = 0 THEN crashed + crashed ELSE crashes + crashed

(* Variant of TotalCrashes: adds to what the copy of the build says.       *)
TotalCrashesOfCopy(crashed) == gsb.crashes + crashed

(* getExistingCrashes, and the crashes that have been counted now.         *)
TotalCrashes(crashed) == crashes + crashed

Health(total) ==
    IF CrashesToMarkUnhealthy # -1 /\ total >= CrashesToMarkUnhealthy
    THEN "Unhealthy" ELSE "Healthy"

(* A merge patch holds the fields that differ from the copy it was made    *)
(* of, and leaves the others as they are in the API server.                *)
Merge(stored, old, new) ==
    [f \in DOMAIN new |-> IF new[f] = old[f] THEN stored[f] ELSE new[f]]

Patched(total) ==
    LET new == [gsb EXCEPT !.crashes = total, !.health = Health(total)]
    IN  [Merge(build, gsb, new) EXCEPT
            !.counts = Merge(build.counts, gsb.counts, plan.counts)]

UpdateStatus ==
    /\ step = "updateStatus"
    /\ LET crashed == Cardinality(plan.crashed)
       IN  IF Changed(crashed)
           THEN /\ crashes' = TotalCrashes(crashed)
                /\ build # NoBuild
                /\ build' = Patched(crashes')
           ELSE UNCHANGED <<build, crashes>>
    /\ Stop
    /\ UNCHANGED <<server, copies, requested, underCreation, underDeletion,
                   intact, deaths, faults>>

(* The map has been written when the patch fails.                          *)
UpdateStatusFails ==
    /\ step = "updateStatus"
    /\ Changed(Cardinality(plan.crashed))
    /\ \/ build = NoBuild /\ UNCHANGED faults
       \/ Happens("refused", MaxRefused)
    /\ crashes' = TotalCrashes(Cardinality(plan.crashed))
    /\ Requeue
    /\ UNCHANGED <<build, server, copies, underCreation, underDeletion, intact,
                   deaths>>

-----------------------------------------------------------------------------
(* The informer: every event of the build or of a server it owns puts the  *)
(* build into the workqueue.                                               *)

(* Variant of Deliver: deletions go unnoticed.                             *)
DeliverUnlessDeleted(g) ==
    /\ g \notin current
    /\ cache' = [cache EXCEPT ![g] = server[g]]
    /\ current' = current \cup {g}
    /\ requested' = (requested \/ server[g] # NoServer)
    /\ UNCHANGED <<build, server, buildCache, knowledge, work, intact, deaths,
                   faults>>

Deliver(g) ==
    /\ g \notin current
    /\ cache' = [cache EXCEPT ![g] = server[g]]
    /\ current' = current \cup {g}
    /\ requested' = TRUE
    /\ UNCHANGED <<build, server, buildCache, knowledge, work, intact, deaths,
                   faults>>

(* Variant of DeliverBuild: events that only change the status are         *)
(* filtered out.                                                           *)
DeliverBuildOfUsers ==
    /\ buildCache # build
    /\ buildCache' = build
    /\ requested' = (\/ requested
                     \/ NoBuild \in {build, buildCache}
                     \/ build.standingBy # buildCache.standingBy
                     \/ build.max # buildCache.max)
    /\ UNCHANGED <<build, server, cache, current, knowledge, work, intact,
                   deaths, faults>>

DeliverBuild ==
    /\ buildCache # build
    /\ buildCache' = build
    /\ requested' = TRUE
    /\ UNCHANGED <<build, server, cache, current, knowledge, work, intact,
                   deaths, faults>>

(* A restart of the operator forgets the maps, fills the cache and         *)
(* reconciles what it finds.                                               *)
Restart ==
    /\ Happens("restarts", MaxRestarts)
    /\ buildCache' = build
    /\ cache' = server
    /\ current' = GameServers
    /\ underCreation' = {}
    /\ underDeletion' = {}
    /\ crashes' = 0
    /\ Stop
    /\ requested' = (build # NoBuild \/ Present(server) # {})
    /\ intact' = {}
    /\ UNCHANGED <<build, server, deaths>>

-----------------------------------------------------------------------------
(* The surroundings: node agents, the GameServer controller, the           *)
(* allocation API, users and the garbage collector.                        *)

Becomes(g, object) ==
    /\ Happens("changes", MaxChanges)
    /\ Write(g, object)
    /\ UNCHANGED <<build, buildCache, cache, requested, knowledge, work, deaths>>

(* isValidStateTransition, without allocation                              *)
Transitions == {<<"", "Initializing">>, <<"", "StandingBy">>,
                <<"Initializing", "StandingBy">>}
               \cup {<<s, s>> : s \in {"Initializing", "StandingBy", "Active"}}

(* A heartbeat moves the server on, and makes it healthy.                  *)
Heartbeat(g) ==
    \E state \in {"Initializing", "StandingBy", "Active"} :
        /\ <<server[g].state, state>> \in Transitions
        /\ server[g] # [state |-> state, health |-> "Healthy"]
        /\ Becomes(g, [state |-> state, health |-> "Healthy"])

Allocate(g) ==
    /\ server[g] = [state |-> "StandingBy", health |-> "Healthy"]
    /\ Becomes(g, [state |-> "Active", health |-> "Healthy"])

Exit(g) ==
    \E state \in {"GameCompleted", "Crashed"} :
        /\ server[g].state \in {"", "Initializing", "StandingBy", "Active"}
        /\ Becomes(g, [server[g] EXCEPT !.state = state])

MarkUnhealthy(g) ==
    /\ server[g] # NoServer
    /\ server[g].health # "Unhealthy"
    /\ Becomes(g, [server[g] EXCEPT !.health = "Unhealthy"])

(* A server that exited before its first heartbeat is marked by the node   *)
(* agent, sooner or later (HeartbeatTimeChecker).                          *)
NeverHeard(g) ==
    /\ server[g] = [state |-> "GameCompleted", health |-> ""]
    /\ Write(g, [state |-> "GameCompleted", health |-> "Unhealthy"])
    /\ UNCHANGED <<build, buildCache, cache, requested, knowledge, work, deaths,
                   faults>>

(* Any other change, such as the public address or the players.            *)
Touch(g) ==
    /\ server[g] # NoServer
    /\ g \in intact
    /\ Becomes(g, server[g])

Vanish(g) ==
    /\ server[g] # NoServer
    /\ Happens("vanished", MaxVanished)
    /\ Write(g, NoServer)
    /\ UNCHANGED <<build, buildCache, cache, requested, knowledge, work, deaths>>

ChangeSpec ==
    /\ build # NoBuild
    /\ Happens("changes", MaxChanges)
    /\ \E spec \in Specs :
          build' = [build EXCEPT !.standingBy = spec.standingBy,
                                 !.max = spec.max]
    /\ UNCHANGED <<server, copies, requested, knowledge, work, intact, deaths>>

DeleteBuild ==
    /\ MayDelete
    /\ build # NoBuild
    /\ build' = NoBuild
    /\ UNCHANGED <<server, copies, requested, knowledge, work, intact, deaths,
                   faults>>

(* What a deleted build has owned is collected.                            *)
Collect(g) ==
    /\ build = NoBuild
    /\ server[g] # NoServer
    /\ Write(g, NoServer)
    /\ UNCHANGED <<build, buildCache, cache, requested, knowledge, work, deaths,
                   faults>>

-----------------------------------------------------------------------------
Controller ==
    \/ Begin
    \/ List
    \/ \E g \in GameServers : \/ DeleteFinished(g)
                              \/ DeleteFinishedFails(g)
                              \/ ScaleDown(g)
                              \/ ScaleDownFails(g)
                              \/ Create(g)
    \/ CreateFails
    \/ UpdateStatus
    \/ UpdateStatusFails

Informer == DeliverBuild \/ \E g \in GameServers : Deliver(g)

Surroundings ==
    \/ \E g \in GameServers : \/ Heartbeat(g)
                              \/ Allocate(g)
                              \/ Exit(g)
                              \/ MarkUnhealthy(g)
                              \/ NeverHeard(g)
                              \/ Touch(g)
                              \/ Vanish(g)
                              \/ Collect(g)
    \/ ChangeSpec
    \/ DeleteBuild

Next == Controller \/ Informer \/ Restart \/ Surroundings

Spec == Init /\ [][Next]_vars

(* The controller goes on working, the informer delivers every change, and *)
(* node agents and the garbage collector do not stop.                      *)
FairSpec ==
    /\ Spec
    /\ WF_vars(Controller)
    /\ WF_vars(DeliverBuild)
    /\ \A g \in GameServers : /\ WF_vars(Deliver(g))
                              /\ WF_vars(NeverHeard(g))
                              /\ WF_vars(Collect(g))

-----------------------------------------------------------------------------
(* Properties                                                              *)

Steps == {"idle", "list", "deleteFinished", "scaleDown", "create",
          "updateStatus"}

IsCounts == [pending : Nat, initializing : Nat, standingBy : Nat, active : Nat]

IsBuild(b) ==
    b = NoBuild \/
    /\ b \in [standingBy : Nat, max : Nat, counts : IsCounts, crashes : Nat,
              health : {"", "Healthy", "Unhealthy"}]
    /\ [standingBy |-> b.standingBy, max |-> b.max] \in Specs

(* The type of every variable; the step of a reconciliation follows from   *)
(* its plan; a server of the list that is to be deleted is intact only     *)
(* while it is there.                                                      *)
TypeOK ==
    /\ IsBuild(build) /\ IsBuild(buildCache) /\ IsBuild(gsb)
    /\ server \in [GameServers -> Object \cup {NoServer}]
    /\ cache \in [GameServers -> Object \cup {NoServer}]
    /\ current \subseteq GameServers
    /\ \A g \in current : cache[g] = server[g]
    /\ requested \in BOOLEAN
    /\ underCreation \subseteq GameServers
    /\ underDeletion \subseteq GameServers
    /\ crashes \in Nat
    /\ step \in Steps
    /\ (step = "idle") <=> (gsb = NoBuild)
    /\ plan \in [finished : SUBSET GameServers, victims : SUBSET GameServers,
                 create : Nat, counts : IsCounts,
                 crashed : SUBSET GameServers, failed : BOOLEAN]
    /\ step \in {"idle", "list"} => plan = NoPlan
    /\ step \notin {"idle", "list"} => step = NextStep(plan)
    /\ intact \subseteq Present(server)
    /\ deaths \in Nat
    /\ faults \in [{"changes", "vanished", "refused", "lost", "restarts"} -> Nat]

(* As long as no reply is lost, the count of servers never passes the max  *)
(* of the build, although the controller decides from a cache that lags    *)
(* behind and is restarted at any moment: gameserver_expectations.go is    *)
(* there for this.  (All Specs of an instance have one max.)               *)
MaxRespected ==
    faults.lost = 0 => \A spec \in Specs : NumberOf(server, Counted) <= spec.max

(* However often a deletion is repeated and the cache shows a server that  *)
(* is gone, crashesPerBuild counts every crashed or unhealthy server at    *)
(* most once, and so does the status that the build is judged by.          *)
CrashesCountedOnce ==
    /\ crashes <= deaths
    /\ build # NoBuild => build.crashes <= deaths

(* A build that has been marked Unhealthy stays so, with the same          *)
(* CrashesToMarkUnhealthy: no status computed from an old copy of the      *)
(* build or after a restart makes it Healthy again.                        *)
UnhealthyIsFinal ==
    [][NoBuild \notin {build, build'} =>
          (build.health = "Unhealthy" => build'.health = "Unhealthy")]_vars

Desired(active) == Minimum(build.standingBy, Positive(build.max - active))

(* When the surroundings come to rest, the build has as many servers that  *)
(* are not Active as it wants and may have, unless it is unhealthy.        *)
Converges ==
    <>[](\/ build = NoBuild
         \/ Abandoned(build)
         \/ LET c == Counts(server) IN Waiting(c) = Desired(c.active))

(* A GameServer that has completed its session, crashed or become          *)
(* unhealthy is deleted, unless the build is unhealthy.                    *)
FinishedAreDeleted ==
    \A g \in GameServers :
        Finished(server[g]) ~> (\/ ~ Finished(server[g])
                                \/ build # NoBuild /\ Abandoned(build))

(* The status ends with the counts of the servers that there are, although *)
(* every patch is the difference to a copy that may be old.                *)
StatusSettles ==
    <>[](build = NoBuild \/ Abandoned(build) \/ build.counts = Counts(server))

=============================================================================
