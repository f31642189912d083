---------------------------- MODULE BuildAdmission ---------------------------
(***************************************************************************)
(* How GameServerBuilds of one namespace come to be and change: the        *)
(* GameServer API (cmd/gameserverapi/main.go) and other clients of the API *)
(* server, behind the validating webhook                                   *)
(* (pkg/operator/api/v1alpha1/gameserverbuild_webhook.go).                 *)
(*                                                                         *)
(* The webhook sees the object of the request as it would be stored, but   *)
(* looks for other builds of the same BuildID in the cache of the operator.*)
(* The GameServer API reads a cache of its own, and a patch of it is the   *)
(* difference to what it has read there, without a precondition.           *)
(***************************************************************************)
EXTENDS PodConstruction

CONSTANTS
    Builds,     \* names of GameServerBuilds
    BuildIDs,   \* BuildIDs
    Templates,  \* templates
    None,       \* no object
    Offers,     \* bound: sets of specifications, one of which clients ask for
    Counts,     \* bound: numbers of patches and of the status
    HostPorts,  \* bound: ports that the PortRegistry gives
    Scenarios   \* bound: what is stored at first and how much may happen

(* What a client can ask for, valid or not.                                *)
Specifications == [id : BuildIDs, standingBy : Int, max : Int, template : Templates]

(* The fields of a template, with the types that their Go types give them. *)
TemplateAssumption ==
    \A t \in Templates :
        /\ t.ports \in Seq([number : Int, name : STRING, host : Int])
        /\ t.expose \in Seq(Int)
        /\ t.metadata \in Seq([key : Seq(STRING), value : Seq(STRING)])
        /\ t.hostNetwork \in BOOLEAN /\ t.windows \in BOOLEAN
        /\ t = [ports |-> t.ports, hostNetwork |-> t.hostNetwork,
                expose |-> t.expose, metadata |-> t.metadata,
                windows |-> t.windows, envs |-> t.envs]

ASSUME TemplateAssumption

(* A build with the two numbers of its status that matter here.            *)
Objects == [id : BuildIDs, standingBy : Int, max : Int, template : Templates,
            active : Int, standing : Int]

(* The events that a scenario bounds, and what its clients ask for.        *)
Kinds == {"offer", "creates", "edits", "deletes", "patches", "reports",
          "errors", "restarts", "changes"}

AdmissionAssumption ==
    /\ None \notin Objects
    /\ Counts \subseteq Int
    /\ HostPorts \subseteq Nat \ {0}
    /\ \A i \in DOMAIN Offers : Offers[i] \subseteq Specifications
    /\ \A s \in Scenarios :
         /\ s.stored \in [Builds -> Objects \cup {None}]
         /\ \A b \in Builds :
              s.stored[b] # None =>
                /\ 0 <= s.stored[b].standingBy
                /\ s.stored[b].standingBy <= s.stored[b].max
                /\ ValidateBuildPorts(s.stored[b].template)
         /\ s.left \in [Kinds -> Nat]
         /\ s.left.offer \in DOMAIN Offers

ASSUME AdmissionAssumption

VARIABLES
    stored,     \* the builds in the API server, with the numbers of their status
    known,      \* the BuildIDs that the cache of the webhook shows
    copies,     \* [standingBy, max] in the cache of the GameServer API
    patches,    \* requests of the GameServer API that have read their copy
    shown,      \* the builds whose present incarnation the webhook has seen
    left        \* how often the bounded events may still happen, and
                \* the index of the specifications that clients ask for

admissionVars == <<stored, known, copies, patches, shown, left>>

(* What clients ask for in this scenario.                                  *)
Specs == Offers[left.offer]

WithStatus(spec, active, standing) ==
    [id |-> spec.id, standingBy |-> spec.standingBy, max |-> spec.max,
     template |-> spec.template, active |-> active, standing |-> standing]

Numbers(build) == IF build = None THEN None
                  ELSE [standingBy |-> build.standingBy, max |-> build.max]

BuildID(build) == IF build = None THEN None ELSE build.id

AdmissionInit ==
    \E s \in Scenarios :
        /\ stored = s.stored
        /\ known = [b \in Builds |-> BuildID(stored[b])]
        /\ copies = [b \in Builds |-> Numbers(stored[b])]
        /\ patches = {}
        /\ shown = {b \in Builds : stored[b] # None}
        /\ left = s.left

Spend(kind) == left[kind] > 0 /\ left' = [left EXCEPT ![kind] = @ - 1]

-----------------------------------------------------------------------------
(* Validation: the schema of the type, then the webhook                    *)

SchemaAccepts(build) == build.standingBy >= 0 /\ build.max >= 0

(* Variant of ValidateStandingBy: left to the comparison that the handler  *)
(* of a patch makes.                                                       *)
StandingByTrusted(build) == build.max >= 0

ValidateStandingBy(build) == build.standingBy <= build.max

ValidateCreateBuildID(b, build) == \A a \in Builds \ {b} : known[a] # build.id

(* Variant of ValidateUpdateBuildID: any one may follow.                   *)
BuildIDMayChange(old, build) == TRUE

ValidateUpdateBuildID(old, build) == build.id = old.id

ValidateCreate(b, build) ==
    /\ ValidateCreateBuildID(b, build)
    /\ ValidateBuildPorts(build.template)
    /\ ValidateStandingBy(build)

ValidateUpdate(old, build) ==
    /\ ValidateUpdateBuildID(old, build)
    /\ ValidateBuildPorts(build.template)
    /\ ValidateStandingBy(build)

AcceptsUpdate(b, build) ==
    /\ stored[b] # None
    /\ SchemaAccepts(build)
    /\ ValidateUpdate(stored[b], build)

Store(b, build) == stored' = [stored EXCEPT ![b] = build]

-----------------------------------------------------------------------------
(* Requests                                                                *)

(* createGameServerBuild, or any other client.                             *)
Create(b) ==
    /\ stored[b] = None
    /\ Spend("creates")
    /\ \E spec \in Specs :
         /\ SchemaAccepts(spec)
         /\ ValidateCreate(b, spec)
         /\ Store(b, WithStatus(spec, 0, 0))
    /\ UNCHANGED <<known, copies, patches, shown>>

(* kubectl and other clients write the whole specification.                *)
Edit(b) ==
    /\ Spend("edits")
    /\ \E spec \in Specs :
         /\ AcceptsUpdate(b, spec)
         /\ Store(b, WithStatus(spec, stored[b].active, stored[b].standing))
    /\ UNCHANGED <<known, copies, patches, shown>>

(* deleteGameServerBuild: a build that the cache does not show is answered *)
(* with 404, one that it shows is deleted whatever it has become.          *)
DeleteBuild(b) ==
    /\ copies[b] # None /\ stored[b] # None
    /\ Spend("deletes")
    /\ Store(b, None)
    /\ shown' = shown \ {b}
    /\ UNCHANGED <<known, copies, patches>>

(* patchGameServerBuild up to its request: the copy and the numbers asked  *)
(* for, which the handler compares with each other alone.                  *)
BeginPatch(b) ==
    /\ copies[b] # None
    /\ Spend("patches")
    /\ \E s, m \in Counts :
         /\ s <= m
         /\ patches' = patches \cup {[build |-> b, read |-> copies[b],
                                      asked |-> [standingBy |-> s, max |-> m]]}
    /\ UNCHANGED <<stored, known, copies, shown>>

(* MergeFrom: a number that equals the copy is not sent.                   *)
Merged(build, patch) ==
    LET Sent(field) == IF patch.asked[field] = patch.read[field]
                       THEN build[field] ELSE patch.asked[field]
    IN  [build EXCEPT !.standingBy = Sent("standingBy"), !.max = Sent("max")]

PatchStored(patch) ==
    LET b == patch.build IN
    /\ patch \in patches
    /\ stored[b] # None
    /\ AcceptsUpdate(b, Merged(stored[b], patch))
    /\ Store(b, Merged(stored[b], patch))
    /\ patches' = patches \ {patch}
    /\ UNCHANGED <<known, copies, shown, left>>

(* The build is gone, the webhook refuses the patch, or it does not arrive:*)
(* every error is answered with 500.                                       *)
PatchFails(patch) ==
    /\ patch \in patches
    /\ patches' = patches \ {patch}
    /\ UNCHANGED <<stored, known, copies, shown, left>>

-----------------------------------------------------------------------------
(* The caches, which show a build as it is or as it was                    *)

ShowWebhook(b) ==
    /\ known[b] # BuildID(stored[b]) \/ (stored[b] # None /\ b \notin shown)
    /\ known' = [known EXCEPT ![b] = BuildID(stored[b])]
    /\ shown' = IF stored[b] = None THEN shown ELSE shown \cup {b}
    /\ UNCHANGED <<stored, copies, patches, left>>

ShowApi(b) ==
    /\ copies[b] # Numbers(stored[b])
    /\ copies' = [copies EXCEPT ![b] = Numbers(stored[b])]
    /\ UNCHANGED <<stored, known, patches, shown, left>>

(* The status that the GameServerBuild controller writes.  Report is any   *)
(* change of the servers, Converge the work towards standingBy.            *)
Report(b) ==
    /\ stored[b] # None
    /\ Spend("reports")
    /\ \E a, s \in Counts \cap Nat :
         /\ a + s <= stored[b].max
         /\ Store(b, [stored[b] EXCEPT !.active = a, !.standing = s])
    /\ UNCHANGED <<known, copies, patches, shown>>

Converge(b) ==
    /\ stored[b] # None
    /\ LET room == Max({0, stored[b].max - stored[b].active})
           goal == Min({stored[b].standingBy, room})
       IN  /\ stored[b].standing # goal
           /\ Store(b, [stored[b] EXCEPT !.standing = goal])
    /\ UNCHANGED <<known, copies, patches, shown, left>>

AdmissionNext ==
    \/ \E b \in Builds : \/ Create(b) \/ Edit(b) \/ DeleteBuild(b) \/ BeginPatch(b)
                         \/ ShowWebhook(b) \/ ShowApi(b)
                         \/ Report(b) \/ Converge(b)
    \/ \E patch \in patches : PatchStored(patch) \/ PatchFails(patch)

-----------------------------------------------------------------------------
(* What must hold                                                          *)

(* A stored build can be run: 0 <= standingBy <= max, every exposed port   *)
(* belongs to a named port without a host port.  The GameServer API checks *)
(* its two numbers against each other only, and sends only the one that    *)
(* its copy lacks.                                                         *)
SpecsAreValid ==
    \A b \in Builds :
        stored[b] # None =>
            /\ 0 <= stored[b].standingBy
            /\ stored[b].standingBy <= stored[b].max
            /\ ValidateBuildPorts(stored[b].template)

(* Once the webhook has seen a build, no other build is created with its   *)
(* BuildID: validateCreateBuildID decides on the cached BuildIDs, which    *)
(* only the check that updates keep the BuildID keeps true.                *)
OneBuildPerID ==
    [][\A a, b \in Builds :
          a # b /\ a \in shown /\ stored[b] = None /\ stored'[b] # None
          => stored'[b].id # stored[a].id]_admissionVars

(* What NewGameServerForGameServerBuild assumes of a template: every       *)
(* exposed number once, in one container port of its own, and none is 0,   *)
(* for which the webhook does not ask for a name.                          *)
NumbersExposedOnce(t) ==
    /\ 0 \notin ToSet(t.expose)
    /\ IsInjective(t.expose)
    /\ \A i, k \in Picked(t) : t.ports[i].number = t.ports[k].number => i = k

(* What the init container needs besides: at least one port is exposed, no *)
(* other port brings a host port along, no exposed name is used twice, and *)
(* the metadata has neither separators nor the same key twice.             *)
InitContainerCanRead(t) ==
    /\ Picked(t) # {}
    /\ \A i \in DOMAIN t.ports \ Picked(t) : t.ports[i].host = 0
    /\ \A i, k \in Picked(t) : t.ports[i].name = t.ports[k].name => i = k
    /\ \A m \in ToSet(t.metadata) :
          m.key # <<>> /\ ToSet(m.key \o m.value) \cap {",", "?"} = {}
    /\ \A i, k \in DOMAIN t.metadata : t.metadata[i].key = t.metadata[k].key => i = k

HostPortChoices(t) ==
    {ports \in [1..Len(t.expose) -> HostPorts] : IsInjective(ports)}

(* The process of such a server is told exactly the exposed ports, each by *)
(* its name and with a host port of its own, the one that clients are told.*)
PortsMatch(t, gs, config) ==
    LET configured == ToSet(config.gamePortsConfiguration)
    IN  /\ \A i \in Picked(t) :
             \E c \in configured :
                /\ c.name = t.ports[i].name /\ c.name # ""
                /\ c.serverListeningPort = IF t.hostNetwork
                                           THEN c.clientConnectionPort
                                           ELSE t.ports[i].number
                /\ config.gamePorts[c.name] = c.serverListeningPort
        /\ Cardinality(configured) = Cardinality(Picked(t))
        /\ Cardinality({c.clientConnectionPort : c \in configured})
             = Cardinality(Picked(t))
        /\ \A c \in configured :
             <<c.serverListeningPort, c.clientConnectionPort>> \in ToSet(PortTuples(gs))

(* And the metadata of the build, each value under its key.                *)
MetadataMatches(t, config) ==
    config.buildMetadata
      = [k \in {m.key : m \in ToSet(t.metadata)} |->
           (CHOOSE m \in ToSet(t.metadata) : m.key = k).value]

(* It finds the file in the data volume where the init container has put   *)
(* it, writes its logs there, and sends its heartbeats under its own name, *)
(* whatever environment the template brings along.                         *)
ConfigIsFound(pod) ==
    \A c \in pod.containers :
        /\ InVolume(c, c.env.GSDK_CONFIG_FILE)
        /\ InVolume(pod.init, pod.init.env.GSDK_CONFIG_FILE)
        /\ c.env.GSDK_CONFIG_FILE[2] = pod.init.env.GSDK_CONFIG_FILE[2]
        /\ InVolume(c, GsdkConfig(pod.init).logFolder)
        /\ GsdkConfig(pod.init).sessionHostId = pod.name
        /\ c.env.PF_GAMESERVER_NAME = pod.name

(* What the webhook has admitted can be made, whatever host ports it gets: *)
(* the index into the host ports stays inside, the webhook of the          *)
(* GameServer accepts it, and what the init container leaves behind is     *)
(* where the other containers look for it.                                 *)
AdmittedCanBeMade ==
    \A b \in Builds :
        stored[b] # None /\ NumbersExposedOnce(stored[b].template) =>
            LET t == stored[b].template IN
            /\ EnoughHostPorts(t)
            /\ \A ports \in HostPortChoices(t) :
                 LET gs  == GameServerTemplate(t, ports)
                     pod == PodForGameServer(b, gs)
                 IN  /\ ValidateGameServer(gs)
                     /\ FoldersCreated(pod.init)
                     /\ InitContainerSucceeds(pod.init) => ConfigIsFound(pod)

(* And it can be started: the init container succeeds, and the process     *)
(* reads in its configuration what the build says.                         *)
AdmittedCanRun ==
    /\ AdmittedCanBeMade
    /\ \A b \in Builds :
        stored[b] # None /\ NumbersExposedOnce(stored[b].template) =>
            LET t == stored[b].template IN
            InitContainerCanRead(t) =>
                \A ports \in HostPortChoices(t) :
                    LET gs   == GameServerTemplate(t, ports)
                        init == PodForGameServer(b, gs).init
                    IN  /\ InitContainerSucceeds(init)
                        /\ PortsMatch(t, gs, GsdkConfig(init))
                        /\ MetadataMatches(t, GsdkConfig(init))

=============================================================================
