------------------------------ MODULE NodeAgent ------------------------------
(***************************************************************************)
(* The NodeAgent of a Node (cmd/nodeagent/nodeagentmanager.go), and one    *)
(* game server that runs there.                                            *)
(*                                                                         *)
(* The game server process tells the agent its state with heartbeats.  The *)
(* agent writes the changes into the GameServer object with patches that   *)
(* no precondition guards, and learns from an informer that the server has *)
(* been allocated, which it tells the process in the answer to a           *)
(* heartbeat.  A goroutine of its own looks for servers that have stopped  *)
(* to send heartbeats.  What the agent remembers is lost when it restarts. *)
(*                                                                         *)
(* The agent keeps an entry per GameServer and nothing that two servers    *)
(* share, so that one is enough here.                                      *)
(***************************************************************************)
EXTENDS Integers, FiniteSets

CONSTANTS
    Handlers,       \* heartbeats that the agent serves at a time
    Sessions,       \* SessionIDs, one for each allocation
    NoSession,      \* the empty SessionID
    Players,        \* who may be connected
    MaxJoins,       \* bound: changes of the connected players
    MaxIllnesses,   \* bound: changes of the health that the process reports
    MaxLapses,      \* bound: pauses of the heartbeats
    MaxRefused,     \* bound: requests that the API server refuses
    MaxLost,        \* bound: requests carried out, the reply lost
    MaxRestarts,    \* bound: restarts of the agent
    MaxOverlaps,    \* bound: heartbeats sent before the last is answered
    MaxFaults       \* bound: all of these together, but for the joins

ASSUME AgentAssumption ==
    /\ IsFiniteSet(Handlers) /\ Handlers # {}
    /\ IsFiniteSet(Players)
    /\ NoSession \notin Sessions
    /\ \A bound \in {MaxJoins, MaxIllnesses, MaxLapses, MaxRefused, MaxLost,
                     MaxRestarts, MaxOverlaps, MaxFaults} : bound \in Nat

VARIABLES
    gs,         \* the GameServer object in the API server
    detail,     \* its GameServerDetail object
    seen,       \* the last version that the informer has delivered
    session,    \* the allocation that the informer's handler is recording
    info,       \* the entry of gameServerMap
    late,       \* whether the last heartbeat is too long ago
    checker,    \* where HeartbeatTimeChecker is
    pc, hb,     \* where each heartbeat handler is, and what it serves
    game,       \* the game server process
    faults      \* how often the bounded events have happened

object   == <<gs, detail>>
informer == <<seen, session>>
handler  == <<pc, hb>>
vars     == <<object, informer, info, late, checker, handler, game, faults>>

GameStates == {"", "Initializing", "StandingBy", "Active"}
Healths    == {"", "Healthy", "Unhealthy"}

(* The object that is not there, or not known to the agent.                *)
Gone     == [state |-> "none", health |-> "", session |-> NoSession]
NoDetail == [count |-> -1, players |-> {}]

(* A new GameServerInfo.  Who works on an entry goes on with it when it is *)
(* no longer in the map.                                                   *)
NewInfo  == [known |-> TRUE, state |-> "", health |-> "", isActive |-> FALSE,
             session |-> NoSession, count |-> 0, marked |-> FALSE]
NoInfo   == [NewInfo EXCEPT !.known = FALSE]

NoHeartbeat == [state |-> "", health |-> "", players |-> {}]

Init ==
    /\ gs = [state |-> "", health |-> "", session |-> NoSession]
    /\ detail = NoDetail
    /\ seen = Gone
    /\ session = NoSession
    /\ info = NoInfo
    /\ late = FALSE
    /\ checker = "wait"
    /\ pc = [h \in Handlers |-> "idle"]
    /\ hb = [h \in Handlers |-> NoHeartbeat]
    /\ game \in [running : {TRUE}, state : {"Initializing", "StandingBy"},
                 health : {"Healthy"}, session : {NoSession}, players : {{}}]
    /\ faults = [joins |-> 0, illnesses |-> 0, lapses |-> 0, refused |-> 0,
                 lost |-> 0, restarts |-> 0, overlaps |-> 0]

Happens(kind, bound) ==
    /\ faults[kind] < bound
    /\ kind # "joins" =>
          faults.illnesses + faults.lapses + faults.refused + faults.lost
             + faults.restarts + faults.overlaps < MaxFaults
    /\ faults' = [faults EXCEPT ![kind] = @ + 1]

Goto(h, label) == pc' = [pc EXCEPT ![h] = label]

-----------------------------------------------------------------------------
(* The informer and its handlers                                           *)

(* gameServerCreatedOrUpdated, up to the creation of the GameServerDetail  *)
(* of a server that is Active and Healthy.                                 *)
CreatedOrUpdated ==
    /\ session = NoSession
    /\ gs # seen
    /\ gs # Gone
    /\ seen' = gs
    /\ info' = IF info.known THEN info ELSE NewInfo
    /\ late' = (late /\ info.known)
    /\ session' = IF gs.state = "Active" /\ gs.health = "Healthy"
                  THEN gs.session ELSE NoSession
    /\ UNCHANGED <<object, checker, handler, game, faults>>

Recorded(s) == [info EXCEPT !.isActive = TRUE, !.session = s]

(* Variant of Record: the entry is made Active before its session is there.*)
RecordLater ==
    /\ info' = IF info.isActive THEN Recorded(session)
                                ELSE [info EXCEPT !.isActive = TRUE]
    /\ session' = IF info.isActive THEN NoSession ELSE session

(* The session is recorded in one step, behind the mutex of the entry.     *)
Record ==
    /\ info' = Recorded(session)
    /\ session' = NoSession

(* createGameServerDetails, with no players.  That the object exists, or   *)
(* any other error, is only logged.                                        *)
Activate ==
    /\ session # NoSession
    /\ \/ /\ detail' = IF detail = NoDetail /\ gs # Gone
                       THEN [count |-> 0, players |-> {}] ELSE detail
          /\ UNCHANGED faults
       \/ Happens("refused", MaxRefused) /\ UNCHANGED detail
    /\ Record
    /\ UNCHANGED <<gs, seen, late, checker, handler, game>>

(* gameServerDeleted                                                       *)
Deleted ==
    /\ session = NoSession
    /\ gs = Gone
    /\ seen # Gone
    /\ seen' = Gone
    /\ info' = [info EXCEPT !.known = FALSE]
    /\ UNCHANGED <<object, session, late, checker, handler, game, faults>>

-----------------------------------------------------------------------------
(* heartbeatHandler                                                        *)

(* The process sends a heartbeat.  It waits for the answer, unless it has  *)
(* given it up: then two heartbeats overlap.  Without an entry the answer  *)
(* is an error.                                                            *)
Send(h) ==
    /\ game.running
    /\ pc[h] = "idle"
    /\ info.known
    /\ hb' = [hb EXCEPT ![h] = [state |-> game.state, health |-> game.health,
                                players |-> game.players]]
    /\ late' = FALSE
    /\ Goto(h, "update")
    /\ \/ /\ \A k \in Handlers : pc[k] = "idle"
          /\ UNCHANGED faults
       \/ /\ \E k \in Handlers : pc[k] # "idle"
          /\ Happens("overlaps", MaxOverlaps)
    /\ UNCHANGED <<object, informer, info, checker, game>>

(* The answer is sent; on an error the process sends the heartbeat again.  *)
Finish(h) == Goto(h, "idle") /\ hb' = [hb EXCEPT ![h] = NoHeartbeat]

IsValidStateTransition(old, new) ==
    \/ old = "" /\ new \in {"Initializing", "StandingBy"}
    \/ old = "Initializing" /\ new = "StandingBy"
    \/ old = "StandingBy" /\ new = "Active"
    \/ old = new

(* The state of the previous heartbeat; an Active server that the agent    *)
(* does not know was Active before the agent restarted.                    *)
Previous(h) == IF hb[h].state = "Active" /\ info.state = "" THEN "Active"
                                                            ELSE info.state

Unchanged(h) == info.state = hb[h].state /\ info.health = hb[h].health

(* The first heartbeat of an allocated server repeats what the object      *)
(* says.                                                                   *)
JustAllocated(h) ==
    /\ Previous(h) = "StandingBy"
    /\ hb[h].state = "Active"
    /\ info.health = hb[h].health

(* updateHealthAndStateIfNeeded, up to the patch.                          *)
Update(h) ==
    /\ pc[h] = "update"
    /\ info' = IF Unchanged(h) THEN info
                               ELSE [info EXCEPT !.state = Previous(h)]
    /\ \/ Unchanged(h) /\ Goto(h, "players") /\ UNCHANGED hb
       \/ /\ ~ Unchanged(h)
          /\ ~ IsValidStateTransition(Previous(h), hb[h].state)
          /\ Finish(h)
       \/ /\ ~ Unchanged(h)
          /\ IsValidStateTransition(Previous(h), hb[h].state)
          /\ Goto(h, IF JustAllocated(h) THEN "remember" ELSE "patch")
          /\ UNCHANGED hb
    /\ UNCHANGED <<object, informer, late, checker, game, faults>>

(* The merge patch with the state and the health of the heartbeat.         *)
WriteStatus(h) ==
    gs' = [gs EXCEPT !.state = hb[h].state, !.health = hb[h].health]

Patch(h) ==
    /\ pc[h] = "patch"
    /\ gs # Gone
    /\ WriteStatus(h)
    /\ Goto(h, "remember")
    /\ UNCHANGED <<detail, informer, info, late, checker, hb, game, faults>>

PatchFails(h) ==
    /\ pc[h] = "patch"
    /\ \/ gs = Gone /\ UNCHANGED <<gs, faults>>
       \/ Happens("refused", MaxRefused) /\ UNCHANGED gs
       \/ gs # Gone /\ Happens("lost", MaxLost) /\ WriteStatus(h)
    /\ Finish(h)
    /\ UNCHANGED <<detail, informer, info, late, checker, game>>

(* Variant of Remember: only the health is stored.                         *)
RememberHealth(h) ==
    /\ pc[h] = "remember"
    /\ info' = [info EXCEPT !.health = hb[h].health]
    /\ Goto(h, "players")
    /\ UNCHANGED <<object, informer, late, checker, hb, game, faults>>

Remember(h) ==
    /\ pc[h] = "remember"
    /\ info' = [info EXCEPT !.state = hb[h].state, !.health = hb[h].health]
    /\ Goto(h, "players")
    /\ UNCHANGED <<object, informer, late, checker, hb, game, faults>>

(* updateConnectedPlayersIfNeeded: it compares the numbers.                *)
SamePlayers(h) ==
    hb[h].state # "Active" \/ info.count = Cardinality(hb[h].players)

Detail(h) == [count   |-> Cardinality(hb[h].players),
              players |-> hb[h].players]

(* The merge patch.  Both fields of a GameServerDetailSpec are omitted when*)
(* they are empty: a patch without players has nothing in it, and leaves   *)
(* the number and the players that are there.                              *)
PatchedDetail(h) == IF hb[h].players = {} THEN detail ELSE Detail(h)

(* Variant of UpdatePlayersFails: an error is logged, and the number stored*)
(* as if the patch had been made.                                          *)
UpdatePlayersFailsUnnoticed(h) ==
    /\ pc[h] = "players"
    /\ ~ SamePlayers(h)
    /\ Happens("refused", MaxRefused)
    /\ Goto(h, "count")
    /\ UNCHANGED <<object, informer, info, late, checker, hb, game>>

UpdatePlayers(h) ==
    /\ pc[h] = "players"
    /\ \/ SamePlayers(h) /\ Goto(h, "answer") /\ UNCHANGED <<detail, hb>>
       \/ /\ ~ SamePlayers(h)
          /\ detail # NoDetail
          /\ detail' = PatchedDetail(h)
          /\ Goto(h, "count")
          /\ UNCHANGED hb
       \/ (* NotFound: the object is created, the heartbeat fails.         *)
          /\ ~ SamePlayers(h)
          /\ detail = NoDetail
          /\ detail' = IF gs # Gone THEN Detail(h) ELSE NoDetail
          /\ Finish(h)
    /\ UNCHANGED <<gs, informer, info, late, checker, game, faults>>

UpdatePlayersFails(h) ==
    /\ pc[h] = "players"
    /\ ~ SamePlayers(h)
    /\ \/ Happens("refused", MaxRefused) /\ UNCHANGED detail
       \/ /\ detail # NoDetail
          /\ Happens("lost", MaxLost)
          /\ detail' = PatchedDetail(h)
    /\ Finish(h)
    /\ UNCHANGED <<gs, informer, info, late, checker, game>>

Count(h) ==
    /\ pc[h] = "count"
    /\ info' = [info EXCEPT !.count = Cardinality(hb[h].players)]
    /\ Goto(h, "answer")
    /\ UNCHANGED <<object, informer, late, checker, hb, game, faults>>

(* Variant of Operation: the state that the agent remembers is asked.      *)
OperationOfEntry(h) == IF info.state = "" /\ info.isActive THEN "Active"
                                                           ELSE "Continue"

(* The process learns that it is Active, and its session.                  *)
Operation(h) == IF hb[h].state = "StandingBy" /\ info.isActive THEN "Active"
                                                               ELSE "Continue"

Answer(h) ==
    /\ pc[h] = "answer"
    /\ game' = IF /\ Operation(h) = "Active"
                  /\ game.running
                  /\ game.state = "StandingBy"
               THEN [game EXCEPT !.state = "Active", !.session = info.session]
               ELSE game
    /\ Finish(h)
    /\ UNCHANGED <<object, informer, info, late, checker, faults>>

AnswerLost(h) ==
    /\ pc[h] = "answer"
    /\ Happens("lost", MaxLost)
    /\ Finish(h)
    /\ UNCHANGED <<object, informer, info, late, checker, game>>

-----------------------------------------------------------------------------
(* HeartbeatTimeChecker                                                    *)

Overdue == info.known /\ late /\ info.health # "Unhealthy" /\ ~ info.marked

Check ==
    /\ checker = "wait"
    /\ Overdue
    /\ checker' = "patch"
    /\ UNCHANGED <<object, informer, info, late, handler, game, faults>>

(* markGameServerUnhealthy: a merge patch with the health alone.           *)
MarkUnhealthy ==
    /\ checker = "patch"
    /\ gs # Gone
    /\ gs' = [gs EXCEPT !.health = "Unhealthy"]
    /\ checker' = "mark"
    /\ UNCHANGED <<detail, informer, info, late, handler, game, faults>>

(* Variant of MarkFails: the server counts as marked all the same.         *)
MarkFailsUnnoticed ==
    /\ checker = "patch"
    /\ \/ gs = Gone /\ UNCHANGED faults
       \/ gs # Gone /\ Happens("refused", MaxRefused)
    /\ checker' = "mark"
    /\ UNCHANGED <<object, informer, info, late, handler, game>>

MarkFails ==
    /\ checker = "patch"
    /\ \/ gs = Gone /\ UNCHANGED <<gs, faults>>
       \/ Happens("refused", MaxRefused) /\ UNCHANGED gs
       \/ /\ gs # Gone
          /\ Happens("lost", MaxLost)
          /\ gs' = [gs EXCEPT !.health = "Unhealthy"]
    /\ checker' = "wait"
    /\ UNCHANGED <<detail, informer, info, late, handler, game>>

Mark ==
    /\ checker = "mark"
    /\ info' = [info EXCEPT !.marked = TRUE]
    /\ checker' = "wait"
    /\ UNCHANGED <<object, informer, late, handler, game, faults>>

-----------------------------------------------------------------------------
(* The agent restarts: its entries and the heartbeats in it are lost.      *)
Restart ==
    /\ Happens("restarts", MaxRestarts)
    /\ seen' = Gone
    /\ session' = NoSession
    /\ info' = NoInfo
    /\ late' = FALSE
    /\ checker' = "wait"
    /\ pc' = [h \in Handlers |-> "idle"]
    /\ hb' = [h \in Handlers |-> NoHeartbeat]
    /\ UNCHANGED <<object, game>>

-----------------------------------------------------------------------------
(* The game server process                                                 *)

Process(next) ==
    /\ game.running
    /\ game' = next
    /\ UNCHANGED <<object, informer, info, late, checker, handler>>

(* The GSDK's ReadyForPlayers.                                             *)
Ready ==
    /\ game.state = "Initializing"
    /\ Process([game EXCEPT !.state = "StandingBy"])
    /\ UNCHANGED faults

Join ==
    /\ game.state = "Active"
    /\ Happens("joins", MaxJoins)
    /\ \E players \in SUBSET Players \ {game.players} :
          Process([game EXCEPT !.players = players])

FallIll ==
    /\ Happens("illnesses", MaxIllnesses)
    /\ \E health \in {"Healthy", "Unhealthy"} \ {game.health} :
          Process([game EXCEPT !.health = health])

(* The process sends nothing any more.                                     *)
Hang == Process([game EXCEPT !.running = FALSE]) /\ UNCHANGED faults

(* A timeout expires: for a process that has been slow, or is silent.  The *)
(* patch of the last heartbeat has been given up by then (defaultTimeout   *)
(* is less than heartbeatTimeout).                                         *)
Expire ==
    /\ info.known
    /\ ~ late
    /\ \A h \in Handlers : pc[h] \notin {"update", "patch", "remember"}
    /\ late' = TRUE
    /\ UNCHANGED <<object, informer, info, checker, handler, game>>

Lapse   == game.running /\ Expire /\ Happens("lapses", MaxLapses)
Silence == ~ game.running /\ Expire /\ UNCHANGED faults

(* The allocation API books the server.                                    *)
Allocate ==
    /\ gs.state = "StandingBy"
    /\ gs.health = "Healthy"
    /\ \E s \in Sessions \ {gs.session} :
          gs' = [gs EXCEPT !.state = "Active", !.session = s]
    /\ UNCHANGED <<detail, informer, info, late, checker, handler, game, faults>>

(* The object is deleted, and its GameServerDetail with it.                *)
Delete ==
    /\ gs # Gone
    /\ gs' = Gone
    /\ detail' = NoDetail
    /\ UNCHANGED <<informer, info, late, checker, handler, game, faults>>

-----------------------------------------------------------------------------
Handle(h) ==
    \/ Update(h)
    \/ Patch(h)
    \/ PatchFails(h)
    \/ Remember(h)
    \/ UpdatePlayers(h)
    \/ UpdatePlayersFails(h)
    \/ Count(h)
    \/ Answer(h)
    \/ AnswerLost(h)

Informer == CreatedOrUpdated \/ Activate \/ Deleted
Checker  == Check \/ MarkUnhealthy \/ MarkFails \/ Mark

Next ==
    \/ Informer
    \/ \E h \in Handlers : Send(h) \/ Handle(h)
    \/ Checker
    \/ Restart
    \/ Ready \/ Join \/ FallIll \/ Hang
    \/ Lapse \/ Silence
    \/ Allocate
    \/ Delete

Spec == Init /\ [][Next]_vars

(* The goroutines of the agent go on, a process that runs sends heartbeats *)
(* and time passes for one that does not.                                  *)
FairSpec ==
    /\ Spec
    /\ WF_vars(Informer)
    /\ WF_vars(Checker)
    /\ WF_vars(Silence)
    /\ \A h \in Handlers : WF_vars(Send(h)) /\ WF_vars(Handle(h))

-----------------------------------------------------------------------------
(* Properties                                                              *)

Labels == {"idle", "update", "patch", "remember", "players", "count", "answer"}

(* The type of every variable; a handler that is idle serves nothing, only *)
(* an Active process has a session or connected players, and the count of  *)
(* a GameServerDetail is the number of players in its list.                *)
TypeOK ==
    /\ gs = Gone \/ gs \in [state : GameStates, health : Healths,
                            session : Sessions \cup {NoSession}]
    /\ detail = NoDetail \/ /\ detail.players \subseteq Players
                            /\ detail.count = Cardinality(detail.players)
    /\ seen = Gone \/ seen \in [state : GameStates, health : Healths,
                                session : Sessions \cup {NoSession}]
    /\ session \in Sessions \cup {NoSession}
    /\ info \in
          [known : BOOLEAN, state : GameStates, health : Healths,
           isActive : BOOLEAN, session : Sessions \cup {NoSession},
           count : 0 .. Cardinality(Players), marked : BOOLEAN]
    /\ late \in BOOLEAN
    /\ checker \in {"wait", "patch", "mark"}
    /\ pc \in [Handlers -> Labels]
    /\ \A h \in Handlers : pc[h] = "idle" <=> hb[h] = NoHeartbeat
    /\ game.state = "Active" \/ (game.session = NoSession /\ game.players = {})

(* Heartbeats come one at a time, no reply is lost and the agent does not  *)
(* restart: nothing else orders a patch before an allocation.              *)
InTurn == \A kind \in {"lost", "restarts", "overlaps"} : faults[kind] = 0

(* "When the server is in this state, it can never go back to the          *)
(* Initializing or StandingBy state" (docs/gsdk/gameserverlifecycle.md,    *)
(* 27): no heartbeat takes an allocated server back, as long as the health *)
(* of its process stays the same.  A change of health is patched with the  *)
(* state that the heartbeat had, and may land after the allocation.        *)
NeverBackFromActive ==
    [][(gs.state = "Active" /\ InTurn /\ faults.illnesses = 0)
          => gs'.state \in {"Active", "none"}]_vars

(* A process that has become Active serves the session that its server has *)
(* been allocated for: the answer never holds half of what the informer's  *)
(* handler records.  (A server that is taken back may be allocated again   *)
(* for another session, while the entry, or the process, is left with the  *)
(* first: one whose heartbeats do not come in turn, or whose process falls *)
(* ill while it is being allocated and recovers.)                          *)
ServesItsSession ==
    (/\ InTurn /\ faults.illnesses <= 1
     /\ game.state = "Active" /\ gs # Gone) => game.session = gs.session

(* A process whose server has been allocated learns of it.                 *)
LearnsOfAllocation ==
    (gs.state = "Active" /\ gs.health = "Healthy") ~>
        (\/ game.state = "Active" \/ ~ game.running
         \/ gs.state # "Active" \/ gs.health # "Healthy")

(* A server that sends no heartbeats any more is marked Unhealthy.  (When  *)
(* heartbeats of different health overlap, the agent may remember an       *)
(* Unhealthy server whose object says Healthy: that one it leaves alone.   *)
(* And a server is marked once: one that was marked after a pause and has  *)
(* recovered is left alone when it falls silent for good.)                 *)
SilentAreMarked ==
    ~ game.running ~>
        (\/ gs.health = "Unhealthy" \/ gs = Gone
         \/ faults.lapses > 0
         \/ faults.illnesses > 0 /\ faults.overlaps > 0)

(* While somebody is connected, the GameServerDetail ends with the number  *)
(* of the connected players (docs/_includes/gsdkfooter.md, 11), also when  *)
(* it could not be made at first, a patch was refused or the agent has     *)
(* restarted: the number that the agent has in mind is one that is written,*)
(* or differs from that in the heartbeat.  After a lost reply, or when an  *)
(* older list lands last, it stays wrong for as long as the two in mind and*)
(* in the heartbeat agree; and when the last one leaves nothing is written *)
(* at all (see PatchedDetail).                                             *)
CountSettles ==
    <>[](\/ gs = Gone \/ ~ game.running \/ game.state # "Active"
         \/ faults.lost > 0 \/ faults.overlaps > 0
         \/ game.players = {}
         \/ detail.count = Cardinality(game.players))

=============================================================================
