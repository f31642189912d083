# Thundernetes in TLA+

Specifications of the parts of Thundernetes that decide something while other
parts change the same objects, the runs that check them with TLC on small
instances, and proofs with TLAPS of what matters most. Paths are relative to
the root of the repository (`pkg/operator/...`, `cmd/...`).

Contents: 1 the system, 2 the modules, 3 the runs, 4 fairness, 5 the proofs,
6 where the code and what is said of it part, 7 what is not modelled,
8 the plan.

To repeat everything, in this directory:

    tlc -workers 2 -config MCAllocationSafe.cfg MCAllocation    # any run of section 3
    tlapm AllocationProofs.tla                                  # any module of section 5

## 1. The system

A user creates a `GameServerBuild`; the operator keeps `standingBy` servers of
it ready and never more than `max` in all. Each server is a `GameServer` object
with a Pod of its own. The process in the Pod sends heartbeats to the agent of
its Node, which writes them into the `GameServer`. A client that wants a
session asks the allocation API, which books a server that is `StandingBy`.

| component | state it keeps | operations | what makes it correct |
|---|---|---|---|
| Allocation API (`controllers/allocation_api_server.go`) | queues of servers, the events channel, one goroutine per request | reconcile a GameServer, allocate, answer for an existing session | one session per server, none shared, none lost from the queue, every request ends |
| Queues (`controllers/gameserverqueue.go`) | a heap and a set of names per build, an index from server to build | push, pop, remove | heap, set and index agree, so that a deleted server is found |
| Port registry (`controllers/port_registry.go`) | uses of each port, ports of each server, number of Nodes, free count, next port | take ports, return them, reconcile Nodes, rebuild after a start | counters agree, a port in use is never taken for free, every port comes back |
| GameServerBuild controller (`gameserverbuild_controller.go`, `gameserver_expectations.go`) | servers under creation and deletion, crashes of each build | one reconciliation: expectations, cleaning, scaling, status | never above `max`, crashes counted once, the wanted size is reached |
| GameServer controller (`gameserver_controller.go`) | Pods under creation | one reconciliation: Pod, ports, exit, annotation, address, label | an allocatable server has an address, a busy one is protected from eviction |
| Node agent (`cmd/nodeagent`) | an entry per server | heartbeat, informer events, the check for late heartbeats | the process learns of its session, an allocated server stays so, a silent one is marked |
| Certificate watcher (`controllers/cert_watcher.go`) | the current pair and the times of its files | poll, load | after a rotation the new pair is served |
| Standby forecaster (`cmd/standby-forecaster`) | time of the last scale-down, between a read and a write the build it has read | one round: query, forecast, read, limit, write | a scale-down is small and the next one waits for the cool-off, nothing of other clients is undone, standingBy follows the demand |
| Validating webhooks (`pkg/operator/api/v1alpha1/*_webhook.go`) | none, but a cache to look for equal buildIDs | validate a creation, an update | what is stored can be run, with one build per buildID |
| GameServer API (`cmd/gameserverapi`) | a cached copy of each build | create, patch, delete a build, delete a GameServer | a patch from an old copy leaves a valid build |
| Pods and init container (`controllers/controller_utils.go`, `cmd/initcontainer`) | none | make GameServer and Pod from a template; read the environment, write the configuration | the process finds its ports, addresses and folders as the operator has assigned them |
| Latency server, metrics, load simulator | none | answer, count | see section 7 |

How they interact. All components meet in the **objects of the Kubernetes API
server**. Reads go to an informer cache that lags behind; writes are one of
three kinds, and most of what can go wrong is about the difference: a patch
with the `resourceVersion` that was read (allocation, scale-down), which fails
if anything has changed; a merge patch of the fields that changed (agent,
status, address), which never fails and overwrites; creation and deletion.
Inside the operator the port registry is called by two controllers behind one
mutex, and the allocation API sends itself events through a channel.

What is hard: two requests that book at the same time; decisions from a cache
that is old; patches that land after a change they do not know of; requests
that are carried out although the reply says otherwise; maps in memory that a
restart empties; a failure in the middle of a reconciliation; everything that
must happen in the end, although nothing repeats it but the next event.
`PROJECT.json` lists these hazards line by line.

## 2. The modules

Each component has a module with its constants (instances, limits of the code
such as `MaxPort` and `MaxToAdd`, and bounds, which are marked "bound" and only
occur in guards of faults or of what the surroundings do), one action per
handler or per piece of it between two points where others may interleave, and
its properties. `MC...` extends it with values for TLC, `...Proofs` with
theorems (BuildAdmissionProofs with the lemmas that StandbyForecasterProofs
applies). Operators whose comment begins "Variant of" are defects one could
write in the operator below them: a check that replaces one by the other must
find the property violated. No action uses them.

**Allocation** — the allocation API, the queues, and all who write the same
GameServers. `history[g]` is every version of a GameServer; a
`resourceVersion` is a position in it. `Deliver` is the informer,
`ReconcileRead`/`ReconcilePush` the controller (one worker, which reads and
pushes in two steps), `Receive` a request up to its first pop, `Pop`, `Patch`,
`PatchFails`, `Signal` the loop of tries with its events channel,
`ForwardEvent` the channel source, `Start`, `ReconcilePanics` and `Restart` the
life of the operator: a reconciliation before `Start` has made the queue
dereferences nil. `Heartbeat`, `MarkUnhealthy`, `ProcessExit`,
`DeleteFinished`, `ScaleDown` and `CreateGameServer` are the other writers. The
heap is abstracted to the set of its entries and what may be at its top
(`Tops`).

**AllocationService** — what the allocation API promises to clients who know
nothing of queue, cache, versions or retries: a server is given to a session
in one step, and only while it is free (`Book`); an answer tells of a booking
(`Book`, `AnswerAgain`) or is an error (`Forget`); scaling down takes no booked
server; the agent may `Overwrite` what a server is, and from then on it may be
booked again. Allocation implements it: a server's `life` is read off the last
version in its history, `served` off all of them, `answer` and `overwritten`
are those of Allocation (`Service == INSTANCE AllocationService WITH ...`). The
booking shows when the patch is stored, not when it is answered, so that a lost
reply is a booking without answer.

**PortRegistry** — `op` is the operation that holds the mutex, taken one port
at a time (`BeginGet`, `TakePort`, `ReturnPorts`; `BeginDeregister`,
`DeregisterPort`, `EndDeregister`); `ReadNodes`, `OnNodeAdded`,
`OnNodeRemoved` are the reconciliation of Nodes, `Noticed` its event filter,
`Restart`, `Register`, `StartManager` the rebuild from a live list. A container
port without a host port is registered as port 0, as in the code.

**PortPool** — what the registry promises to those who create GameServers: a
server is lent all of its ports in one step (`Lend`), none of them more often
than there are Nodes, and has them until its object is gone (`Return`);
`Resize` and `Restart` are the Nodes and the operator. There is no mutex, no
counter and no late deregistration. PortRegistry implements it
(`Pool == INSTANCE PortPool WITH lent <- Lent, ...`): a server that exists has
the ports in its spec, and one that is being created those that the operation
has handed over. The ports show as lent when the search is over, and as
returned when the object is deleted, however long the registry takes to notice.

**GameServerBuildController** — one build and its GameServers in the API
server and in the cache. `Begin` is Reconcile up to the expectations, `List`
everything decided from the cached list, then come `DeleteFinished` (serial),
`ScaleDown` and `Create` (goroutines, in any order), `UpdateStatus` (a merge
patch against the cached copy), each with its failures. Abstractions: a name is
reused once nobody knows it; `Deliver` shows the latest version; having no free
name stands for having no free host port; a server that has ended without ever
being healthy is left to the agent's timeout (`NeverHeard`).

**NodeAgent** — one GameServer, since the agent keeps nothing that two share.
`Send`, `Update`, `Patch`, `Remember`, `UpdatePlayers`, `Count`, `Answer` are
one heartbeat; `CreatedOrUpdated`, `Activate`, `Deleted` the informer's
handlers, which write an entry in two steps; `Check`, `MarkUnhealthy`, `Mark`
the checker. `pc`, `hb` hold each handler's place and heartbeat. The entry is a
pointer: who works on it goes on with it after it has left the map. `Expire`
lets a timeout pass only when no handler is in the middle of its patch, because
the patch gives up (4 s) before the heartbeat timeout (5 s) is over. The patch
of the players is what its JSON says (`PatchedDetail`): a number of 0 and an
empty list are omitted, and an empty patch changes nothing.

**GameServerController** — one GameServer and its Pod, each in the API server
and in the cache. `Begin` reads and branches, then `CreatePod`, `RecordExit`,
`Annotate`, `SetAddress`, `SetLabel`, each with a failure. `ports` is what the
registry has for the name: nothing, registered (it can be returned) or only
counted, as after a restart. `address` stands for all fields of the status that
are written together with it.

**CertificateWatcher** — the versions of two files, which are replaced one
after the other or both at once, at any moment against the polls.

**PodConstruction**, **BuildAdmission**, **StandbyForecaster** — three layers,
checked together. PodConstruction is functions only: the port checks that both
webhooks share (`ValidatePorts`), the GameServer that is made of a build with
its host ports (`GameServerTemplate`), the Pod with its volumes, mounts
and environment (`PodForGameServer`), the texts that pass ports and metadata to
the init container, what that reads back and the configuration it writes
(`GsdkConfig`). Texts are sequences of pieces and separators, so that a
separator inside a name is what it is in the code: a place where it is cut.
BuildAdmission extends it with the builds in the API server, the cache of the
webhook (`known`), the copies of the GameServer API and its patches, users who
create, edit and delete, and the build controller's status (`Converge`,
`Report`). StandbyForecaster extends that with the loop of the forecaster:
`Tick` (query and forecast), `ReadBuild` or `SkipScaleDown`, `Answered`,
`AnswerLost` or `UpdateRefused`, `Restart`. The forecasts of the numeric
library are three numbers that change at any moment (`MetricChanges`); what the
code makes of them is modelled, with the circuit breaker and the cool-off
switched on, as they are by default. `sinceDown` is what the process believes, `quiet` what is
so; time passes in steps up to the cool-off.

## 3. The runs

Every property has a mutant in `PROJECT.json` that violates it, so none holds
by the shape of the model.

| run | instance | what it shows |
|---|---|---|
| `allocation_safe` | 1 server, 2 requests, 2 sessions, 2 tries, channel of 1, 4 versions by the agent, 1 late heartbeat, 1 patch that fails or loses its reply (3.2 M states) | the whole path implements AllocationService, so only a free server is booked and scaling down takes no booked one; until a late heartbeat comes, a server serves one session |
| `allocation_live` | 1 server, 2 requests, 1 session, channel of 1, 1 restart, fair (116 K) | StandingBy servers get queued, deleted ones leave the queue for good, requests end; in every state what makes a server get queued, or leave the queue, is still before it |
| `allocation_session` | 2 servers, 2 requests for one session | violation: two servers for one session |
| `ports_safe` | 3 servers (2+1+1 ports), 2 Nodes of a dedicated pool, 2 ports, 1 failed creation, 1 change of label, 1 restart (4.8 M) | the counters agree in every state, a request that passed the check finds its ports, no port in use is taken for free, and until the restart only failed creations lose ports |
| `ports_live` | 2 servers, 2 Nodes, no dedicated pool, 1 failed creation, 1 restart, fair (78 K) | the registry implements PortPool; the ports of a deleted server that the registry knows are uses of nobody in the end, NodeCount follows the Nodes, and until it does a recount is due |
| `ports_leak` | 2 servers, 1 restart | violation: ports that outlive a restart never come back |
| `build_safe` | 3 servers, standingBy 1, max 2, 1 crash marks it; 2 changes, two of: a server that vanishes, a refused request, a lost reply, a restart; the build may be deleted (2.6 M) | max is respected until a reply is lost, crashes are counted once, Unhealthy is final |
| `build_live` | 2 servers, standingBy 0 or 1, 2 changes, 1 lost reply, fair (211 K) | the size is reached, finished servers go, the status tells the truth |
| `agent` | 2 handlers, 2 sessions, 1 player, 2 joins; two of: a change of health, a late heartbeat, a refused request, a lost reply, a restart, a heartbeat that overlaps the one before; fair | the process learns of its allocation and of no session but its own, a silent server is marked, heartbeats in turn take no allocated server back, and while players are connected their number gets written (1.1 M) |
| `server_all` | 1 Node, 1 eviction, 1 late heartbeat, 1 refused request, 1 lost reply, 1 restart, fair (756 K) | an allocatable server has an address; protection from eviction is kept and reached; a Pod is made; an exit is recorded; the operator rests only where nothing is left to be done, the deregistration of a deleted server included |
| `cert_rotation` | 4 versions, 1 unreadable file, fair (1.9 K) | the last pair is served, or the next rotation repairs what was missed |
| `scaling` | 2 builds, 2 buildIDs, 17 templates with all choices of 3 host ports, numbers -1, 1 and 4, step 2, buffer 1, minimum 1, cool-off 2, in five scenarios: builds made, edited and deleted; patches that overtake each other and the rest; every template; the forecaster with an error, a restart and 2 changes of demand; the forecaster among other clients; fair (425 K) | what is stored is valid and, for a template that keeps the assumption of a comment, can be run: its init container succeeds and the process gets the ports that were assigned; one build per buildID that the webhook has seen; scale-downs keep their distance and size; standingBy settles at the demand |

Some theorems of section 5 are no properties of these runs: the type invariants
of Allocation, PortRegistry and the two controllers; EntriesWereStandingBy and
QueueIsIndexed, on which others rest; SessionTakesStandingBy and
ScaleDownSparesActive, which ImplementsService contains; ReturnIsDue; and what
is said of answers. All of them were checked with the same instances before they
were proved.

Why the bounds are enough. A race needs two requests and one server they both
want, so two handlers and one server show what more of them would; the second
session tells two bookings apart. (Several servers in one queue only occur in
`allocation_session`; no property depends on their order yet, see section 8.)
Two tries reach the case that the last try
fails and the one that it does not. A channel of one is full as often as it can
be. One connected player shows what CountSettles is about, a number that is behind;
with two players, three changes and any one fault (833 K states) it holds too.
Each fault may come once, at any moment and with the others: the properties
that survive one fault of a kind are those whose argument does not count them,
and the ones proved in section 5 hold for any number. Where two faults of
different kinds together are what is hard (a lost reply before a restart, a
refused patch after an overlap), a run allows any two of its kinds; all at once
would add states and no case that two do not show. The scenarios of `scaling`
keep apart what does not interact: templates are pure data, the
rivalry for a buildID needs two creations and a deletion, the forecaster one
build. In `ports_safe` three
servers want four ports and two Nodes offer four, so that the registry runs
full, and runs over when a Node goes.

Several properties name a fault in their statement ("until a reply is lost",
"as long as no late heartbeat ..."): the state records which faults have
happened, the property holds up to the first of that kind, and section 6 says
what happens after it.

`CHECK_DEADLOCK FALSE` is set where the system may really stop: the
surroundings use up their bounded changes, the object is deleted, and nobody
has anything left to do.

## 4. Fairness

Only what the program and the cluster do by themselves is fair; clients, users,
faults, Nodes and processes are not obliged to do anything.

- Informers deliver each change in the end (watch and relist), so `Deliver...`
  is weakly fair.
- A reconciliation that is requested is run and its goroutines go on: weakly
  fair. Strong fairness is used where several wait for one thing: the only
  worker of a controller (`ReconcileRead`, the workqueue is first in first
  out), the senders on a full channel (`Handle`, Go serves them in order), the
  mutex of the port registry (`BeginDeregister`, `OnNode...`; after 1 ms Go's
  mutex goes into starvation mode and is handed over in order).
- The agent's handlers and its ticker go on; a process that runs sends
  heartbeats, and time passes for one that does not.
- The forecaster's ticker goes on and its requests end, time passes, and the
  build controller works until the status of the build fits what it asks for
  (`Converge`), which `build_live` shows of the controller itself.
- Kubernetes schedules Pods and collects what belongs to deleted owners.
- A request that returned an error is retried because the code returns the
  error to controller-runtime, or because the next heartbeat or event comes:
  this is modelled, not assumed.

## 5. The proofs

TLAPS checks the theorems below for **every** value of the constants, from the
named assumptions of the modules alone (`AllocationAssumption`,
`PortsAssumption`, `BuildAssumption`, `ControllerAssumption`,
`AgentAssumption`, and for the three layers of the scaling `TemplateAssumption`,
`AdmissionAssumption`, `ForecasterAssumption`): any number of servers, builds,
sessions, handlers, Nodes, ports, templates, tries and faults. In each module
the type invariant comes first, one lemma per action, and the others are proved
relative to it.

**AllocationProofs** — invariants in the order in which they rest on each
other:

1. `TypeInv` is TypeOK and the two facts about control without which it is not
   inductive: a handler inside the loop has a request, one that has popped
   holds an entry. It is proved in four parts (store, queue, handlers,
   counters) which different actions disturb. All changes of the store are one
   of a few writes (`NextIsStoreStep`), each adding one version.
2. `EntriesInv`: every entry anywhere (queue, worker, handlers) names a version
   that was StandingBy. Stable because versions are only appended
   (`OfferedStays`).
3. `SessionsInv`: with the lock on the current version, `EntriesInv` makes
   every booking a step from a StandingBy version (`NextIsGoodWrite`).
4. `OnceInv`: as long as no late heartbeat has come, a version with a session
   is never followed by a StandingBy one, so the session cannot change again:
   `BookedOnce`. This strengthening is needed because BookedOnce alone says
   nothing of states that a booking may start from.
5. An answer is given from the cache or after the patch, both of which show the
   session (`AnswersCorrect`), and with 4 two answers with one server have one
   session (`NoSharedServerCorrect`).
6. `QueueIsIndexed` from `TypeInv` (`IndexCorrect`).
7. `NeverForgottenCorrect` and `GoneCorrect`: the part of the two liveness
   properties of the queue that is a safety property. A StandingBy server that
   is not queued has its name in a change not delivered yet, a reconciliation, a
   booking that fails or an event; whoever takes the name from one place puts it
   into the next (`HandlerPassesOn`, `ControllerPassesOn`). The invariant
   (`ForgottenInv`) needs that before `Start` there is no queue, so that a
   restart cannot have emptied one. A queued server that is gone has its removal
   before it, because nothing but a reconciliation that has read an older
   version can queue it anew (`QueuedAnew`). With the fairness of section 4 that
   is what TLC checks as StandingByIsQueued and DeletedLeavesQueue.
8. `RefinementCorrect`: Allocation implements AllocationService. Every write of
   the store is one of a few (`WriteMaps`: it changes one `life` and adds its
   session to `served`), so the steps divide into those that write, one abstract
   action each, and those that the service does not see. It rests on
   `SessionsInv` (a booking starts from "free") and on what an answer knows
   (`AnswersCorrect`).

**AllocationServiceProofs** proves of the service itself that a server nobody
overwrites serves one session (`ServesOneCorrect`) and that an answer tells of
a booking (`AnswersServedCorrect`); by the refinement both hold of the whole
path.

**PortRegistryProofs** — `TypeCorrect`; `CountCorrect`: free count plus the
number of uses (as a set of pairs, whose cardinality changes by one) is the
number of ports of all Nodes, in the middle of operations and after a restart
too; `SearchCorrect`: a request in progress has at least as many free ports as
it still needs. This needs that the Nodes are only changed without the mutex
held, and that nothing is registered while an operation runs (`SearchInv`);
with a pigeonhole argument (`SomePortAvailable`) the search then finds a port.

`CoverCorrect` and `OwnedCorrect` say whose the used ports are. What a port is
owed (`Owed`) is the number of places that it has in the lists of the owners,
the one that an operation works on left out, and in the list of the operation:
so it stays the same when ports change hands (`UsageMoved`), and goes up and
down with the counter when a port is taken or given back (`UsageCounted`).
`UsageInv`: no port is counted less often than it is owed, up to what a start
has still to register; before the first restart, no more often either. It
needs `OwnersInv`: what the registry remembers of a server are the ports in
its spec, a search is for a server that has none, and only a deleted server is
deregistered, so that it is once an owner and never again. That the counter
is positive when a port is given back, which the code tests, follows from
`UsageInv`; that a search does not give up half way, which would break it, from
`SearchCorrect`.

`PoolCorrect`: PortRegistry implements PortPool. The one step that is more than
a copy is the last one of a search, which lends all ports at once: every port
that was taken had room at the time when it was taken, and must still have it
when the last one is. `TakenInv` says so: no port of the operation is counted
more often than there are Nodes, which holds because nothing else changes the
counters or the Nodes while the mutex is held. That the counter is at least the
number of places where the pool has lent the port is `UsageInv` again
(`CoveredFollows`, `PlacesAreLent`).

`ReturnCorrect` and `RecountCorrect` are the safety part of the two liveness
properties. What is registered for a deleted server has its deregistration
before it: the notices that come several times, or none after a restart, find
it registered or find nothing to return. A registry that looks at all Nodes and
is not on its way to their number has an event before it, since the filter lets
every event through that changes whether a Node is schedulable; `RecountInv` adds
that a registry which is not started yet counts from none, as the start itself
brings an event for each Node there is.

**GameServerBuildControllerProofs** — one lemma, `SurroundingsMean`, says what
all the other writers have in common, so that each invariant has one case for
them.

1. `TypeCorrect`; the step of a reconciliation is the one that its plan asks
   for next, which later arguments use (`StepMeans`).
2. `CrashesCorrect`. `CrashInv`: what crashesPerBuild holds and what the plan
   still has to add (failed, listed, deletion done) is no more than the deaths
   in the history; a server enters the history in the step in which it leaves
   the plan. CrashesCountedOnce alone is not inductive: it says nothing of a
   plan that has counted already and not yet added.
3. `HealthCorrect`. `HealthInv`: the health of each copy of the build follows
   from its crashes, and when the stored build is Unhealthy the operator knows:
   it remembers enough crashes, or, after a restart, its copy shows them and no
   reconciliation is under way. Without the last part a patch made from an old
   copy could say Healthy.
4. `MaxCorrect`, if all specs agree on max. `MaxInv` ties the expectations to
   the cache: whatever may count, now or later, is in the cache or under
   creation; a reconciliation that lists has nothing under creation; and what
   may count without what the plan has found finished, plus what it still
   creates, has room under max. That a server whose end the cache shows cannot
   count again is what allows the controller to forget it.

**GameServerControllerProofs** — `TypeCorrect`; `BookableCorrect`: the label
follows the address and the NodeAgent the label, also for the copies a
reconciliation works with; `ProtectionCorrect`: without late heartbeats what a
cache has shown as Active or later is so for good, only a reconciliation that
has seen it protects the Pod, and none that comes after it declares the Pod
evictable (`ProtectionInv`). `MissedCorrect`: when no change waits to be
delivered, no reconciliation is queued and none is under way, there is nothing
to do. The invariant (`MissedInv`) says of a reconciliation under way, with all
changes delivered and none queued, that it works with the objects as they are
and does what they ask for (`UnderWay`). Then its write either changes an
object, so that there is a change to deliver, or had nothing to change
(`OthersNotify`, `RecordExitMissesNothing`); and whatever fails queues the name
again. That an evicted Pod may be awaited for ever is in the property itself:
`CopiesInv` has the fact that only an eviction makes it so.

**NodeAgentProofs** — `TypeCorrect`; `NeverBackCorrect` and `SessionCorrect`,
from one invariant `SessionInv`, which holds while heartbeats come in turn and
the process has not recovered from an illness:

1. `OneHeartbeat`, `StateAgrees`, `HealthAgrees`: one heartbeat at a time, which
   says what the process is, but that a process may fall ill on the way.
2. `OfferIsKnown`: once the object is on offer, or allocated, the entry says so,
   or the handler that has just written it is about to note it. So no heartbeat
   of a healthy process finds a reason to patch the object, and no patch is
   under way that could land after the allocation. Only a heartbeat that says
   Unhealthy may still take the server back, which is why NeverBackFromActive
   asks that there has been no illness.
3. `SessionsAgree`: the informer, the entry and the process know the session of
   the object or none, and an object with a session is not on offer again.
   `EntryAgrees` is what the informer needs when it makes an entry: without one
   nothing has been offered, or the object is gone.

**StandbyForecasterProofs** — one invariant `Inv` for all three layers: stored
builds are valid because the schema bounds the numbers and the webhook their
order, whichever copy a patch was made from; the copies and the forecaster's
build are of that kind too. From it `SpecsAreValidCorrect`,
`OneBuildPerIDCorrect`, `StepsAreBoundedCorrect` (what is written back without
a conflict is still what was read) and `CoolOffKeptCorrect` (the process never
believes that more time has passed than has, unless an error told it so).
`CanBeMadeCorrect` proves for templates of every shape that their objects can be
made: the container ports that get a host port map one-to-one into
PortsToExpose, so the index stays inside (`PickedFit`); the webhook of the
GameServer accepts what that of the build has admitted, also when the ports of a
host network are renumbered (`GameServerIsValid`); all containers look for their
files in the volume (`FilesAreFound`). `CanRunCorrect` adds what the init
container reads from its environment, and so is all of AdmittedCanRun.

**BuildAdmissionProofs** — the lemmas for these two. The texts that pass ports
and metadata to the init container are written and cut by loops, which
PodConstruction defines as recursive functions on 0 .. n (`PortsWritten`,
`MetadataWritten`, `PartsRead`). That each is the function its equations ask for
is proved by an induction written out: a set of numbers that is not empty has a
least element (`LeastNat`, from the well-foundedness of <), so a set that has 0
and with every number the next has all of them (`UpTo`), and hence a function
with the equations exists (`Recursion`). With it the texts are followed round by
round: `PortsAreConfigured` (every exposed port is found in the configuration
with the host port that was assigned) and `MetadataIsRead` (cutting the text at
its separators gives back the keys and values, if none of them has a separator
inside, which is what AdmittedCanRun assumes and section 6 shows to be needed);
`ConfigIsRight` puts them together.

Only model-checked: the liveness properties, for fairness and ENABLED are out of
the prover's reach, and with them all that is said of the certificate watcher.
Of StandingByIsQueued, DeletedLeavesQueue, PortsReturned, NodesCounted,
PodIsMade and ExitIsRecorded the theorems above have the part that is a
safety property: the step that is due is always there. Of RequestAnswered,
Converges, FinishedAreDeleted, StatusSettles, CountSettles, LearnsOfAllocation,
SilentAreMarked, ActiveGetsProtected, NewestIsServed, RotationMends
and Settles TLC alone speaks, on the instances of section 3. All invariants and
action properties of the passing runs are proved.

## 6. Where the code and what is said of it part

Two of these are runs (`allocation_session`, `ports_leak`, with the quoted
text in `PROJECT.json`). The others were found with the same models by dropping
the condition that the property now names, or by stating what the text says;
the properties that remain say how far it holds.

- `allocation_api_server.go:258`, "this should never happen": two requests for
  one session that both miss the cache book two servers, and the session is
  answered with 500 from then on. (`allocation_session`)
- `port_registry.go:236`: the rebuild counts uses but not owners, so
  DeregisterPorts does nothing for a server that outlived a restart, against
  `docs/architecture.md:59`. (`ports_leak`) PortsReturned speaks of the servers
  that the registry knows, and before the first restart of all; if it spoke of
  all servers for good, `ports_live` would find the same leak.
- `controller_utils.go:129`: ports taken for a GameServer whose creation fails
  are not returned (`UsageIsOwned` lists them as owned by it).
- `port_registry.go:186`: close to exhaustion one server can get one port number
  twice; no Node can run its Pod.
- `port_registry.go:82`: after a restart every container port without host port
  costs one free port, because the zeroes of the slice are registered.
- `port_registry.go:274`: a label set on or taken from a Node that stays ready
  does not reach NodeCount with a dedicated pool; nor does the loss of a Node
  between the first count and the start of the watch.
- `gameserverbuild_controller.go:219`: a creation whose reply is lost is not
  expected, so the next reconciliation may pass max
  (`docs/quickstart/allocation-scaling.md:73`); MaxRespected holds until then.
- `gameserverbuild_controller.go:195`: when standingBy and max are lowered
  together the surplus is deleted twice (two StandingBy servers, both lowered
  from 2 to 1: both are deleted), against lines 327-328.
- `gameserverbuild_controller.go:226`: crashes seen by a reconciliation that
  fails later are lost with it; CrashesCountedOnce is a bound from above.
- `gameserverbuild_controller.go:97`: the entry of a deleted build is looked up
  under an empty name and stays; a build of the same name starts with it.
- `gameserver_expectations.go:112`, `gameserver_controller.go:132`: a GameServer
  (a Pod) that somebody deletes before the cache has shown it is awaited for
  ever, until the operator restarts. `build_live` has no such deletion;
  PodIsMade holds until the first one.
- `gameserver_controller.go:183`: a Pod made anew on another Node leaves address,
  Node and label of the old one in the GameServer.
- `nodeagentmanager.go:474`: a patch of a change of health carries the state the
  heartbeat had and may write StandingBy over Active, against
  `docs/gsdk/gameserverlifecycle.md:27`: NeverBackFromActive holds while the
  health stays the same. This is the late heartbeat of Allocation.
- `nodeagentmanager.go:474`: a process that falls ill while its server is being
  allocated has StandingBy and Unhealthy written over Active; when it recovers,
  the server is offered once more with the old session in it, and may be
  allocated for a second session while the process serves the first. Two changes
  of health are enough: with `MaxIllnesses = 2` the run `agent` finds it when
  ServesItsSession does not ask for fewer.
- `nodeagentmanager.go:471`: an agent that restarts after the allocation and
  before the process knows of it writes StandingBy over Active, and takes the
  later Active for one that is already written.
- `nodeagentmanager.go:138`: MarkedUnhealthy is never reset; a server that was
  silent, came back with a change of state or health and falls silent again is
  not marked. SilentAreMarked speaks of servers that have not paused before.
- `nodeagentmanager.go:474`, again: when heartbeats overlap and one says Healthy,
  the other Unhealthy, the agent may remember the one and the object hold the
  other; a server that then falls silent is not marked (SilentAreMarked names
  it).
- `nodeagentmanager.go:542`, "updates the `GameServerDetail` Custom Resource with
  the new number and IDs of connected players"
  (`docs/_includes/gsdkfooter.md:11`): when the last player leaves, both fields
  of the patch are omitted for being empty (`gameserverdetail_types.go:31`), the
  object keeps the old number and players, and the agent remembers 0 (line 586)
  and does not write again. `TestUnitUpdateConnectedPlayers_ZeroPlayers` looks at
  the memory only. No fault is needed: without its condition
  `game.players = {}`, and with `MaxFaults = 0`, CountSettles is violated by one
  player who joins and leaves.
- `nodeagentmanager.go:580`, `:526`: creating the missing GameServerDetail counts
  as a failure, after which players that leave at once stay listed; lists are
  compared by length, so one player who replaces another is not noticed. With
  two players the number may stay wrong after a lost reply or an overlap until
  somebody joins or leaves, which is why CountSettles asks that there was none.
- `cert_watcher.go:134`, `:118`: a file that cannot be read when it is reloaded is
  not read again, and a change between the first load and the first look at the
  times is not seen; RotationMends says that the next rotation repairs both.
- `cmd/standby-forecaster/main.go:150`: any error of a scaling, a conflict with
  another client included, sets the time of the last scale-down to zero, so the
  next one does not wait, against the care of lines 121-122. CoolOffKept holds
  between errors.
- `cmd/standby-forecaster/main.go:187`: with a buffer that is not smaller than
  the step a scale-down takes nothing away, and standingBy grows until the
  webhook refuses it; a target above max is refused as a whole, not cut; the
  minimum is enforced for scale-downs only; and a series shorter than the
  regressions cut from its end (line 257) ends the process.
- `docs/howtos/intelligentscaling.md:16`, "the linear regression forecasters will
  work just fine" without two seasons of data: a Holt-Winters error returns
  before they are computed. `enable...Forecast` of `config.go:26` is read by
  nobody.
- `controller_utils.go:139`: two container ports of one exposed number pass the
  webhook and index beyond the host ports; AdmittedCanRun speaks of templates
  that keep the assumption of line 127.
- `gameserverbuild_webhook.go:179`: an exposed port of number 0 needs no name; in
  a host network it may get a number that is exposed too, and the webhook of the
  GameServer then refuses it for want of a name.
- `controller_utils.go:320`, "this means that this port is in the portsToExpose
  array": also a host port that the user has set on a port that is not exposed.
- `cmd/initcontainer/main.go:128`: metadata with "?" or "," is cut there and may
  end the init container with an index out of range; so does an empty
  `PF_GAMESERVER_PORTS`, which a build gets that exposes nothing, or only ports
  that no container of a host network has. The webhook admits all of these;
  AdmittedCanRun names them as its preconditions.
- `gameserverbuild_webhook.go:124`: only creations look for another build with
  their buildID, in one namespace and in a cache, so two at a time both pass.
- `cmd/gameserverapi/main.go:354`: a patch made from an old copy stores only the
  fields that differ from that copy; the answer is 200 and one of the two
  numbers may be somebody else's.

## 7. What is not modelled

- The numeric forecasts themselves (a library and two regressions over floating
  point numbers) and the query to Prometheus: any three numbers may come.
- The handlers of the GameServer API that only read: one answer of the cache.
- Generated code: the deep copies of the types and the API documentation in
  `cmd/gameserverapi/docs`, over a third of all lines.
- The latency server, metrics, logging, configuration, the load simulator and
  the end-to-end tools: no state that a decision depends on.
- TLS handshakes and HTTP: a handshake reads one variable of the watcher.
- The order in which the heap of `gameserverqueue.go` hands out servers: a pop
  may return any entry that the order allows to be first.
- A request of the forecaster that is on its way when the process ends: it is
  stored before that or never.
- Namespaces: several maps are keyed by a name alone (`PROJECT.json`, hazard at
  `gameserver_expectations.go:73`).
- Clocks: a timeout is an event that may come whenever the code does not rule it
  out.

## 8. The plan

Done, in the order of importance: Allocation with its service, the refinement
and proofs; PortRegistry with proofs and the pool it implements; GameServerBuildController with proofs;
NodeAgent with proofs; GameServerController with proofs; CertificateWatcher; the
composition of webhooks, GameServer API, forecaster and Pod construction, with
proofs.

What could follow:

1. `ServerQueue`, the heap of `gameserverqueue.go` with the order by Node age, as
   a module that implements the queue of Allocation.
2. `Thundernetes`, allocation, agent and build controller over one store of
   objects: BookedOnce and MaxRespected end to end. Each of the three already
   contains what the others write as actions of its surroundings.
