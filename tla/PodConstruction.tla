--------------------------- MODULE PodConstruction ---------------------------
(***************************************************************************)
(* From the template of a GameServerBuild to the configuration file that   *)
(* the process of a GameServer reads: the port checks of the two webhooks  *)
(* (pkg/operator/api/v1alpha1), the GameServer and the Pod that the        *)
(* controllers make (pkg/operator/controllers/controller_utils.go), the    *)
(* environment of the init container and what the init container makes of  *)
(* it (cmd/initcontainer/main.go).                                         *)
(*                                                                         *)
(* Everything here is a function of its arguments.  A template is a record *)
(*   ports       the ports of all containers in order, [number, name, host]*)
(*   hostNetwork whether the Pod uses the network of its Node              *)
(*   expose      PortsToExpose                                             *)
(*   metadata    BuildMetadata, a sequence of [key, value]                 *)
(*   windows     whether its node selector asks for Windows                *)
(*   envs        the environments that its containers bring along          *)
(* Port 0 and the name "" are absent ones.  Port names cannot hold a       *)
(* separator, so PF_GAMESERVER_PORTS is the sequence of what it joins; keys*)
(* and values of the metadata can, and are sequences of tokens.  A path is *)
(* the directory that it starts with and what follows.                     *)
(***************************************************************************)
EXTENDS Integers, FiniteSets, SequencesExt

Exposed(t, p) == \E i \in DOMAIN t.expose : t.expose[i] = p.number

(* The ports that sliceContainsPortToExpose picks, by their index.         *)
Picked(t) == {i \in DOMAIN t.ports : Exposed(t, t.ports[i])}

-----------------------------------------------------------------------------
(* The webhooks                                                            *)

(* validatePortsToExposeInternal; only a build has its host ports checked. *)
ValidatePorts(t, validateHostPort) ==
    LET Grouped(n) == {p \in ToSet(t.ports) : p.number = n /\ n # 0}
    IN  \A n \in ToSet(t.expose) :
            /\ t.hostNetwork \/ Grouped(n) # {}
            /\ \A p \in Grouped(n) : /\ p.name # ""
                                     /\ validateHostPort => p.host = 0

ValidateBuildPorts(t) == ValidatePorts(t, TRUE)

(* ValidateCreate and ValidateUpdate of a GameServer that has been made for *)
(* a build, and so has a GameServerBuild among its owners.                 *)
ValidateGameServer(t) == ValidatePorts(t, FALSE)

-----------------------------------------------------------------------------
(* NewGameServerForGameServerBuild                                         *)

(* Variant of HostPortIndex: the index is not increased.                   *)
FirstHostPortOnly(t, i) == 1

(* The port at i is the j-th one that is picked, and gets the j-th of the  *)
(* host ports.                                                             *)
HostPortIndex(t, i) == Cardinality({k \in Picked(t) : k <= i})

(* GetNewPorts returns one port per element of PortsToExpose: with more    *)
(* ports to set than that, the index runs out of the slice.                *)
EnoughHostPorts(t) == Cardinality(Picked(t)) <= Len(t.expose)

GameServerTemplate(t, hostPorts) ==
    LET Assigned(i) ==
            LET host == hostPorts[HostPortIndex(t, i)]
            IN  [t.ports[i] EXCEPT !.host = host,
                                   !.number = IF t.hostNetwork THEN host ELSE @]
    IN  [t EXCEPT !.ports = [i \in DOMAIN @ |-> IF i \in Picked(t)
                                                THEN Assigned(i) ELSE @[i]]]

-----------------------------------------------------------------------------
(* The status of the GameServer and what its environment says              *)

(* getContainerHostPortTuples: status.ports, what a client is told.        *)
PortTuples(t) == [i \in DOMAIN t.ports |-> <<t.ports[i].number, t.ports[i].host>>]

(* PF_GAMESERVER_PORTS: of the ports of all containers, in their order,    *)
(* those with a host port.  PortsWritten is what the loop has written after*)
(* so many of them.                                                        *)
PortsWritten(t) ==
    LET env[n \in 0 .. Len(t.ports)] ==
            IF n = 0 THEN <<>>
            ELSE IF t.ports[n].host > 0 THEN Append(env[n - 1], t.ports[n])
            ELSE env[n - 1]
    IN  env

GamePortsEnv(t) == PortsWritten(t)[Len(t.ports)]

(* PF_GAMESERVER_BUILD_METADATA; TrimSuffix takes one separator off.       *)
ItemText(m) == m.key \o <<",">> \o m.value \o <<"?">>

MetadataWritten(t) ==
    LET env[n \in 0 .. Len(t.metadata)] ==
            IF n = 0 THEN <<>> ELSE env[n - 1] \o ItemText(t.metadata[n])
    IN  env

MetadataEnv(t) ==
    LET all == MetadataWritten(t)[Len(t.metadata)]
    IN  IF all = <<>> THEN <<>> ELSE Front(all)

-----------------------------------------------------------------------------
(* NewPodForGameServer.  Each container mounts the data volume somewhere   *)
(* and has an environment; what a template brings along of that is kept.   *)

DataVolumeMountPath(windows) == IF windows THEN "c:/gsdkdata" ELSE "/gsdkdata"
GsdkConfigFile(windows) == <<DataVolumeMountPath(windows), "gsdkConfig.json">>
LogDirectory(windows)   == <<DataVolumeMountPath(windows), "GameLogs">>

(* getGameServerEnvVariables                                               *)
GameServerEnv(name, t) ==
    [PF_GAMESERVER_NAME      |-> name,
     GSDK_CONFIG_FILE        |-> GsdkConfigFile(t.windows),
     PF_SERVER_LOG_DIRECTORY |-> LogDirectory(t.windows)]

(* getInitContainerEnvVariables                                            *)
InitContainerEnv(name, t) ==
    [PF_GAMESERVER_NAME           |-> name,
     GSDK_CONFIG_FILE             |-> GsdkConfigFile(t.windows),
     PF_SERVER_LOG_DIRECTORY      |-> LogDirectory(t.windows),
     PF_GAMESERVER_PORTS          |-> GamePortsEnv(t),
     PF_GAMESERVER_BUILD_METADATA |-> MetadataEnv(t)]

(* attachInitContainer and attachDataVolumeOnContainer                     *)
InitContainer(name, t) == [mount |-> DataVolumeMountPath(t.windows),
                           env   |-> InitContainerEnv(name, t)]

(* Variables that are appended override those of the same name before.     *)
Container(name, t, env) ==
    [mount |-> DataVolumeMountPath(t.windows),
     env   |-> [v \in DOMAIN env \cup DOMAIN GameServerEnv(name, t) |->
                  IF v \in DOMAIN GameServerEnv(name, t)
                  THEN GameServerEnv(name, t)[v] ELSE env[v]]]

(* The Pod has the name of its GameServer.                                 *)
PodForGameServer(name, t) ==
    [name       |-> name,
     init       |-> InitContainer(name, t),
     containers |-> {Container(name, t, env) : env \in ToSet(t.envs)}]

-----------------------------------------------------------------------------
(* The init container                                                      *)

(* strings.Split; it is never used on an empty string.  A separator begins *)
(* a new part, any other token goes to the last one.  PartsRead is what the*)
(* first n tokens are split into.                                          *)
ReadToken(parts, token, separator) ==
    IF token = separator THEN Append(parts, <<>>)
    ELSE [parts EXCEPT ![Len(parts)] = Append(@, token)]

PartsRead(s, separator) ==
    LET parts[n \in 0 .. Len(s)] ==
            IF n = 0 THEN << <<>> >>
            ELSE ReadToken(parts[n - 1], s[n], separator)
    IN  parts

Split(s, separator) == PartsRead(s, separator)[Len(s)]

(* The pieces of each item; empty items are skipped.                       *)
MetadataItems(env) ==
    LET items == Split(env, "?")
    IN  [i \in {j \in DOMAIN items : items[j] # <<>>} |-> Split(items[i], ",")]

(* parseBuildMetadata reads a value behind every key, and panics when      *)
(* there is none.                                                          *)
MetadataParses(env) ==
    LET items == MetadataItems(env)
    IN  \A i \in DOMAIN items : Len(items[i]) > 1

(* The last value of a key is the one that the map keeps.                  *)
BuildMetadata(env) ==
    LET items == MetadataItems(env)
    IN  [k \in {items[i][1] : i \in DOMAIN items} |->
            items[Max({i \in DOMAIN items : items[i][1] = k})][2]]

(* parsePorts                                                              *)
GamePortsConfiguration(env) ==
    [i \in DOMAIN env |-> [name |-> env[i].name,
                           serverListeningPort |-> env[i].number,
                           clientConnectionPort |-> env[i].host]]

GamePorts(env) ==
    [n \in {p.name : p \in ToSet(env)} |->
        env[Max({i \in DOMAIN env : env[i].name = n})].number]

(* What a container finds at a path is in the data volume.                 *)
InVolume(container, path) == path[1] = container.mount

(* createGsdkFolders makes one directory, whose parent must be there.      *)
FoldersCreated(init) == InVolume(init, init.env.PF_SERVER_LOG_DIRECTORY)

(* getGsdkEnvVariables: an empty environment variable is fatal, and so is  *)
(* the panic of the metadata; the Pod then never starts its server.        *)
InitContainerSucceeds(init) ==
    /\ init.env.PF_GAMESERVER_PORTS # <<>>
    /\ FoldersCreated(init)
    /\ MetadataParses(init.env.PF_GAMESERVER_BUILD_METADATA)

(* The file that it leaves at GSDK_CONFIG_FILE.                            *)
GsdkConfig(init) ==
    [sessionHostId          |-> init.env.PF_GAMESERVER_NAME,
     logFolder              |-> init.env.PF_SERVER_LOG_DIRECTORY,
     buildMetadata          |-> BuildMetadata(init.env.PF_GAMESERVER_BUILD_METADATA),
     gamePorts              |-> GamePorts(init.env.PF_GAMESERVER_PORTS),
     gamePortsConfiguration |-> GamePortsConfiguration(init.env.PF_GAMESERVER_PORTS)]

=============================================================================
