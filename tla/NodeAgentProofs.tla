--------------------------- MODULE NodeAgentProofs ---------------------------
(***************************************************************************)
(* Theorems about NodeAgent: its types, that an allocated server is not    *)
(* taken back, and that a process serves the session of its server.        *)
(***************************************************************************)
EXTENDS NodeAgent, FiniteSetTheorems, TLAPS

ProcessStates  == {"Initializing", "StandingBy", "Active"}
ProcessHealths == {"Healthy", "Unhealthy"}
FaultKinds     == {"joins", "illnesses", "lapses", "refused", "lost",
                   "restarts", "overlaps"}

Objects    == [state : GameStates, health : Healths,
               session : Sessions \cup {NoSession}]
Heartbeats == [state : ProcessStates, health : ProcessHealths,
               players : SUBSET Players]

(* The types, in parts that different actions change.                      *)
ObjectsOK ==
    /\ gs = Gone \/ gs \in Objects
    /\ detail = NoDetail \/ /\ detail.players \subseteq Players
                            /\ detail.count = Cardinality(detail.players)
    /\ seen = Gone \/ seen \in Objects
    /\ session \in Sessions \cup {NoSession}

Entries == [known : BOOLEAN, state : GameStates, health : Healths,
            isActive : BOOLEAN, session : Sessions \cup {NoSession},
            count : 0 .. Cardinality(Players), marked : BOOLEAN]

EntryOK ==
    /\ info \in Entries
    /\ late \in BOOLEAN
    /\ checker \in {"wait", "patch", "mark"}

HandlersOK ==
    /\ pc \in [Handlers -> Labels]
    /\ hb \in [Handlers -> Heartbeats \cup {NoHeartbeat}]
    /\ \A h \in Handlers : pc[h] = "idle" <=> hb[h] = NoHeartbeat

GameOK ==
    /\ game \in [running : BOOLEAN, state : ProcessStates,
                 health : ProcessHealths, session : Sessions \cup {NoSession},
                 players : SUBSET Players]
    /\ game.state = "Active" \/ (game.session = NoSession /\ game.players = {})

FaultsOK == faults \in [FaultKinds -> Nat]

TypeInv == ObjectsOK /\ EntryOK /\ HandlersOK /\ GameOK /\ FaultsOK

LEMMA TypeInvIsTypeOK == TypeInv => TypeOK
  BY DEF TypeInv, ObjectsOK, EntryOK, Entries, HandlersOK, GameOK, TypeOK, Objects

LEMMA HappensTyped ==
    ASSUME FaultsOK, NEW kind \in FaultKinds, NEW bound, Happens(kind, bound)
    PROVE  FaultsOK'
  BY DEF FaultsOK, Happens

LEMMA BusyHeartbeat ==
    ASSUME HandlersOK, NEW h \in Handlers, pc[h] # "idle"
    PROVE  hb[h] \in Heartbeats
  BY DEF HandlersOK

LEMMA CountTyped ==
    ASSUME AgentAssumption, HandlersOK, NEW h \in Handlers, pc[h] # "idle"
    PROVE  Cardinality(hb[h].players) \in 0 .. Cardinality(Players)
<1>1. hb[h].players \in SUBSET Players /\ IsFiniteSet(Players)
  BY BusyHeartbeat DEF Heartbeats, AgentAssumption
<1>2. /\ IsFiniteSet(hb[h].players)
      /\ Cardinality(hb[h].players) <= Cardinality(Players)
  BY <1>1, FS_Subset
<1> QED
  BY <1>1, <1>2, FS_CardinalityType

LEMMA WrittenStatus ==
    ASSUME ObjectsOK, HandlersOK, NEW h \in Handlers, pc[h] # "idle",
           gs # Gone, WriteStatus(h)
    PROVE  gs' \in Objects
<1>1. hb[h] \in Heartbeats
  BY BusyHeartbeat
<1> QED
  BY <1>1 DEF ObjectsOK, WriteStatus, Objects, Heartbeats, GameStates, Healths,
              ProcessStates, ProcessHealths

LEMMA WrittenDetail ==
    ASSUME HandlersOK, NEW h \in Handlers, pc[h] # "idle"
    PROVE  /\ Detail(h).players \subseteq Players
           /\ Detail(h).count = Cardinality(Detail(h).players)
  BY BusyHeartbeat DEF Detail, Heartbeats

LEMMA ObjectsStep ==
    ASSUME ObjectsOK, HandlersOK, [Next]_vars
    PROVE  ObjectsOK'
<1> USE DEF object, informer, handler
<1>1. CASE CreatedOrUpdated
  BY <1>1 DEF CreatedOrUpdated, ObjectsOK, Objects
<1>2. CASE Activate
  <2>1. detail' \in {detail, [count |-> 0, players |-> {}]}
    BY <1>2 DEF Activate
  <2>2. detail'.count = Cardinality(detail'.players) \/ detail' = detail
    BY <2>1, FS_EmptySet
  <2> QED
    BY <1>2, <2>1, <2>2 DEF Activate, Record, ObjectsOK
<1>3. CASE Deleted
  BY <1>3 DEF Deleted, ObjectsOK
<1>4. ASSUME NEW h \in Handlers, Patch(h) \/ PatchFails(h)
      PROVE  ObjectsOK'
  <2>1. CASE gs' = gs
    BY <1>4, <2>1 DEF Patch, PatchFails, ObjectsOK
  <2>2. CASE gs' # gs
    <3>1. gs # Gone /\ pc[h] # "idle" /\ WriteStatus(h)
      BY <1>4, <2>2 DEF Patch, PatchFails
    <3> QED
      BY <1>4, <3>1, WrittenStatus DEF Patch, PatchFails, ObjectsOK
  <2> QED
    BY <2>1, <2>2
<1>5. ASSUME NEW h \in Handlers, UpdatePlayers(h) \/ UpdatePlayersFails(h)
      PROVE  ObjectsOK'
  <2>1. pc[h] # "idle"
    BY <1>5 DEF UpdatePlayers, UpdatePlayersFails
  <2>2. detail' \in {detail, NoDetail, Detail(h)}
    BY <1>5 DEF UpdatePlayers, UpdatePlayersFails, PatchedDetail
  <2> QED
    BY <1>5, <2>1, <2>2, WrittenDetail
       DEF UpdatePlayers, UpdatePlayersFails, ObjectsOK
<1>6. CASE MarkUnhealthy \/ MarkFails
  BY <1>6 DEF MarkUnhealthy, MarkFails, ObjectsOK, Objects, Healths
<1>7. CASE Restart
  BY <1>7 DEF Restart, ObjectsOK
<1>8. CASE Allocate
  <2>1. gs.state = "StandingBy" /\ Gone.state = "none"
    BY <1>8 DEF Allocate, Gone
  <2>2. gs \in Objects
    BY <2>1 DEF ObjectsOK
  <2> QED
    BY <1>8, <2>2 DEF Allocate, ObjectsOK, Objects, GameStates
<1>9. CASE Delete
  BY <1>9 DEF Delete, ObjectsOK
<1>10. CASE UNCHANGED <<object, informer>>
  BY <1>10 DEF ObjectsOK
<1> QED
  BY <1>1, <1>2, <1>3, <1>4, <1>5, <1>6, <1>7, <1>8, <1>9, <1>10
     DEF Next, vars, Informer, Handle, Checker, Send, Update, Remember, Count,
         Answer, AnswerLost, Check, Mark, Ready, Join, FallIll, Hang, Process,
         Lapse, Silence, Expire

LEMMA NewEntries ==
    ASSUME AgentAssumption
    PROVE  NewInfo \in Entries /\ NoInfo \in Entries
<1>1. Cardinality(Players) \in Nat
  BY FS_CardinalityType DEF AgentAssumption
<1>2. NewInfo \in Entries
  BY <1>1 DEF NewInfo, Entries, GameStates, Healths
<1> QED
  BY <1>2 DEF NoInfo, Entries

LEMMA EntryStep ==
    ASSUME AgentAssumption, ObjectsOK, EntryOK, HandlersOK, [Next]_vars
    PROVE  EntryOK'
<1> USE DEF object, informer, handler
<1>1. CASE CreatedOrUpdated
  BY <1>1, NewEntries DEF CreatedOrUpdated, EntryOK
<1>2. CASE Activate
  BY <1>2 DEF Activate, Record, Recorded, EntryOK, Entries, ObjectsOK
<1>3. CASE Deleted
  BY <1>3 DEF Deleted, EntryOK, Entries
<1>4. ASSUME NEW h \in Handlers, Update(h)
      PROVE  EntryOK'
  BY <1>4 DEF Update, Previous, EntryOK, Entries, GameStates
<1>5. ASSUME NEW h \in Handlers, Remember(h)
      PROVE  EntryOK'
  <2>1. hb[h].state \in GameStates /\ hb[h].health \in Healths
    BY <1>5, BusyHeartbeat DEF Remember, Heartbeats, GameStates, Healths,
                               ProcessStates, ProcessHealths
  <2> QED
    BY <1>5, <2>1 DEF Remember, EntryOK, Entries
<1>6. ASSUME NEW h \in Handlers, Count(h)
      PROVE  EntryOK'
  BY <1>6, CountTyped DEF Count, EntryOK, Entries
<1>7. CASE Checker
  BY <1>7 DEF Checker, Check, MarkUnhealthy, MarkFails, Mark, EntryOK, Entries
<1>8. CASE Restart
  BY <1>8, NewEntries DEF Restart, EntryOK
<1>9. ASSUME UNCHANGED <<info, checker>>, late' \in BOOLEAN
       PROVE  EntryOK'
  BY <1>9 DEF EntryOK
<1> QED
  BY <1>1, <1>2, <1>3, <1>4, <1>5, <1>6, <1>7, <1>8, <1>9
     DEF Next, vars, EntryOK, Informer, Handle, Send, Patch, PatchFails,
         UpdatePlayers, UpdatePlayersFails, Answer, AnswerLost, Ready, Join,
         FallIll, Hang, Process, Lapse, Silence, Expire, Allocate, Delete

LEMMA HandlersStep ==
    ASSUME HandlersOK, GameOK, [Next]_vars
    PROVE  HandlersOK'
<1> USE DEF object, informer, handler
<1>1. NoHeartbeat \notin Heartbeats
  BY DEF NoHeartbeat, Heartbeats, ProcessStates
<1>2. ASSUME NEW h \in Handlers, Send(h)
      PROVE  HandlersOK'
  <2>1. /\ hb' = [hb EXCEPT ![h] = [state |-> game.state, health |-> game.health,
                                    players |-> game.players]]
        /\ pc' = [pc EXCEPT ![h] = "update"]
    BY <1>2 DEF Send, Goto
  <2>2. [state |-> game.state, health |-> game.health,
         players |-> game.players] \in Heartbeats
    BY DEF GameOK, Heartbeats
  <2> QED
    BY <1>1, <2>1, <2>2 DEF HandlersOK, Labels
<1>3. ASSUME NEW h \in Handlers, NEW l \in Labels \ {"idle"},
             pc[h] # "idle", Goto(h, l), hb' = hb
      PROVE  HandlersOK'
  BY <1>3 DEF Goto, HandlersOK
<1>4. ASSUME NEW h \in Handlers, Finish(h)
      PROVE  HandlersOK'
  BY <1>4 DEF Finish, Goto, HandlersOK, Labels
<1>5. CASE Restart
  BY <1>5 DEF Restart, HandlersOK, Labels
<1>6. CASE UNCHANGED handler
  BY <1>6 DEF HandlersOK
<1>7. ASSUME NEW h \in Handlers, Handle(h)
      PROVE  HandlersOK'
  BY <1>3, <1>4, <1>7
     DEF Handle, Update, Patch, PatchFails, Remember, UpdatePlayers,
         UpdatePlayersFails, Count, Answer, AnswerLost, Labels
<1> QED
  BY <1>2, <1>5, <1>6, <1>7
     DEF Next, vars, Informer, CreatedOrUpdated, Activate, Deleted, Checker,
         Check, MarkUnhealthy, MarkFails, Mark, Ready, Join, FallIll, Hang,
         Process, Lapse, Silence, Expire, Allocate, Delete

LEMMA GameStep ==
    ASSUME EntryOK, GameOK, [Next]_vars
    PROVE  GameOK'
<1> USE DEF object, informer, handler
<1>1. ASSUME NEW h \in Handlers, Answer(h)
      PROVE  GameOK'
  BY <1>1 DEF Answer, GameOK, EntryOK, Entries, ProcessStates
<1>2. CASE Ready
  BY <1>2 DEF Ready, Process, GameOK, ProcessStates
<1>3. CASE Join
  BY <1>3 DEF Join, Process, GameOK
<1>4. CASE FallIll
  BY <1>4 DEF FallIll, Process, GameOK, ProcessHealths
<1>5. CASE Hang
  BY <1>5 DEF Hang, Process, GameOK
<1>6. CASE UNCHANGED game
  BY <1>6 DEF GameOK
<1> QED
  BY <1>1, <1>2, <1>3, <1>4, <1>5, <1>6
     DEF Next, vars, Informer, CreatedOrUpdated, Activate, Deleted, Handle,
         Send, Update, Patch, PatchFails, Remember, UpdatePlayers,
         UpdatePlayersFails, Count, AnswerLost, Checker, Check, MarkUnhealthy,
         MarkFails, Mark, Restart, Lapse, Silence, Expire, Allocate, Delete

LEMMA FaultsStep ==
    ASSUME FaultsOK, [Next]_vars
    PROVE  FaultsOK'
<1> USE DEF object, informer, handler
<1>1. ASSUME NEW kind \in FaultKinds, NEW bound, Happens(kind, bound)
      PROVE  FaultsOK'
  BY <1>1, HappensTyped
<1>2. CASE UNCHANGED faults
  BY <1>2 DEF FaultsOK
<1> QED
  BY <1>1, <1>2
     DEF Next, vars, Informer, CreatedOrUpdated, Activate, Deleted, Handle,
         Send, Update, Patch, PatchFails, Remember, UpdatePlayers,
         UpdatePlayersFails, Count, Answer, AnswerLost, Checker, Check,
         MarkUnhealthy, MarkFails, Mark, Restart, Ready, Join, FallIll, Hang,
         Process, Lapse, Silence, Expire, Allocate, Delete, FaultKinds

LEMMA TypeInit == AgentAssumption /\ Init => TypeInv
<1> SUFFICES ASSUME AgentAssumption, Init
             PROVE  TypeInv
  OBVIOUS
<1>1. ObjectsOK
  BY DEF Init, ObjectsOK, Objects, GameStates, Healths
<1>2. EntryOK
  BY NewEntries DEF Init, EntryOK
<1>3. HandlersOK
  BY DEF Init, HandlersOK, Labels
<1>4. GameOK
  BY DEF Init, GameOK, ProcessStates, ProcessHealths
<1>5. FaultsOK
  <2> DEFINE none == [joins |-> 0, illnesses |-> 0, lapses |-> 0, refused |-> 0,
                      lost |-> 0, restarts |-> 0, overlaps |-> 0]
  <2>1. none \in [joins : Nat, illnesses : Nat, lapses : Nat, refused : Nat,
                  lost : Nat, restarts : Nat, overlaps : Nat]
    OBVIOUS
  <2>2. DOMAIN none = FaultKinds
    BY <2>1 DEF FaultKinds
  <2>3. \A kind \in FaultKinds : none[kind] = 0
    BY DEF FaultKinds
  <2>4. none = [kind \in DOMAIN none |-> none[kind]]
    OBVIOUS
  <2>5. none \in [FaultKinds -> Nat]
    BY <2>2, <2>3, <2>4
  <2> QED
    BY <2>5 DEF Init, FaultsOK
<1> QED
  BY <1>1, <1>2, <1>3, <1>4, <1>5 DEF TypeInv

LEMMA TypeStep == AgentAssumption /\ TypeInv /\ [Next]_vars => TypeInv'
  BY ObjectsStep, EntryStep, HandlersStep, GameStep, FaultsStep DEF TypeInv

(* All variables keep their types, whatever is refused, lost or restarted, *)
(* and for any number of heartbeats that overlap.                          *)
THEOREM TypeCorrect == Spec => []TypeOK
<1>1. Init => TypeInv
  BY AgentAssumption, TypeInit
<1>2. TypeInv /\ [Next]_vars => TypeInv'
  BY AgentAssumption, TypeStep
<1> QED
  BY <1>1, <1>2, TypeInvIsTypeOK, PTL DEF Spec

-----------------------------------------------------------------------------
Busy(h) == pc[h] # "idle"

(* Heartbeats come in turn, and the process has not recovered from an      *)
(* illness.                                                                *)
Orderly == InTurn /\ faults.illnesses <= 1

(* The object is on offer to the allocation API, or has been allocated.    *)
Allocatable == gs.state = "StandingBy" /\ gs.health = "Healthy"
Offered     == Allocatable \/ gs.session # NoSession

(* A state and a health that put the object on offer, or keep it so.       *)
Able(x) == x.state \in {"StandingBy", "Active"} /\ x.health = "Healthy"

(* A session is the one of the object, as long as there is one.            *)
OfObject(s) == gs = Gone \/ (s # NoSession /\ gs.session = s)

OneHeartbeat == \A h, k \in Handlers : Busy(h) /\ Busy(k) => h = k

(* Before the first illness everybody says Healthy.                        *)
HealthAgrees ==
    IF faults.illnesses = 0
    THEN /\ game.health = "Healthy"
         /\ \A h \in Handlers : Busy(h) => hb[h].health = "Healthy"
    ELSE game.health = "Unhealthy"

(* Without an entry no heartbeat has been served, or the object is gone.   *)
EntryAgrees ==
    ~ info.known => \/ gs = Gone
                    \/ ~ Offered /\ \A h \in Handlers : ~ Busy(h)

(* Whoever knows a session knows the one of the object, and an object with *)
(* a session is not allocated again.                                       *)
SessionsAgree ==
    /\ session # NoSession => OfObject(session)
    /\ info.isActive => OfObject(info.session)
    /\ game.state = "Active" => OfObject(game.session)
    /\ gs.state = "Active" => gs.session # NoSession
    /\ gs.session # NoSession => ~ Allocatable

(* Once the object is on offer the agent remembers that it has made it so, *)
(* and no heartbeat of a healthy process has a reason to patch it.         *)
OfferIsKnown ==
    Offered =>
      /\ game.health = "Healthy" =>
            Able(info) \/ \E h \in Handlers : pc[h] = "remember"
      /\ \A h \in Handlers : hb[h].health = "Healthy" =>
            /\ pc[h] = "update" => Able(info)
            /\ pc[h] # "patch"
            /\ pc[h] = "remember" => Able(hb[h])

(* A process that has been Active in a heartbeat still is.                 *)
StateAgrees ==
    \A h \in Handlers : Busy(h) /\ hb[h].state = "Active" => game.state = "Active"

AgentInv ==
    /\ OneHeartbeat
    /\ HealthAgrees
    /\ StateAgrees
    /\ EntryAgrees
    /\ SessionsAgree
    /\ OfferIsKnown

SessionInv == Orderly => AgentInv

-----------------------------------------------------------------------------
(* What an orderly step is                                                 *)

LEMMA HappensAdds ==
    ASSUME FaultsOK, NEW kind \in FaultKinds, NEW bound, Happens(kind, bound)
    PROVE  /\ faults'[kind] = faults[kind] + 1
           /\ \A k \in FaultKinds \ {kind} : faults'[k] = faults[k]
  BY DEF FaultsOK, Happens

LEMMA FaultsGrow ==
    ASSUME FaultsOK, [Next]_vars
    PROVE  \A k \in FaultKinds : faults'[k] >= faults[k]
<1> USE DEF object, informer, handler
<1>1. ASSUME NEW kind \in FaultKinds, NEW bound, Happens(kind, bound)
      PROVE  \A k \in FaultKinds : faults'[k] >= faults[k]
  BY <1>1, HappensAdds DEF FaultsOK
<1>2. CASE UNCHANGED faults
  BY <1>2 DEF FaultsOK
<1> QED
  BY <1>1, <1>2
     DEF Next, vars, Informer, CreatedOrUpdated, Activate, Deleted, Handle,
         Send, Update, Patch, PatchFails, Remember, UpdatePlayers,
         UpdatePlayersFails, Count, Answer, AnswerLost, Checker, Check,
         MarkUnhealthy, MarkFails, Mark, Restart, Ready, Join, FallIll, Hang,
         Process, Lapse, Silence, Expire, Allocate, Delete, FaultKinds

(* An orderly state had orderly ones before it.                            *)
LEMMA OrderlyBefore ==
    ASSUME FaultsOK, FaultsOK', [Next]_vars, Orderly'
    PROVE  Orderly
<1>1. \A k \in FaultKinds :
         faults'[k] >= faults[k] /\ faults[k] \in Nat /\ faults'[k] \in Nat
  BY FaultsGrow DEF FaultsOK
<1> QED
  BY <1>1 DEF Orderly, InTurn, FaultKinds

LEMMA NothingOutOfTurn ==
    ASSUME FaultsOK, Orderly, Orderly', NEW kind \in {"lost", "restarts", "overlaps"},
           NEW bound
    PROVE  ~ Happens(kind, bound)
<1>1. faults[kind] = 0 /\ faults'[kind] = 0
  BY DEF Orderly, InTurn
<1> QED
  BY <1>1, HappensAdds DEF FaultKinds

(* What a heartbeat handler does to the handlers.                          *)
LEMMA HandleMeans ==
    ASSUME HandlersOK, NEW h \in Handlers, Handle(h)
    PROVE  /\ Busy(h)
           /\ \A k \in Handlers \ {h} : pc'[k] = pc[k] /\ hb'[k] = hb[k]
           /\ \/ ~ Busy(h)' /\ hb'[h] = NoHeartbeat
              \/ hb'[h] = hb[h] /\ pc'[h] \notin {"idle", "update"}
  BY DEF Handle, Update, Patch, PatchFails, Remember, UpdatePlayers,
         UpdatePlayersFails, Count, Answer, AnswerLost, Goto, Finish, Busy,
         HandlersOK

LEMMA SendMeans ==
    ASSUME FaultsOK, Orderly, Orderly', HandlersOK, NEW h \in Handlers, Send(h)
    PROVE  /\ \A k \in Handlers : ~ Busy(k)
           /\ pc' = [pc EXCEPT ![h] = "update"]
           /\ hb'[h].state = game.state
           /\ hb'[h].health = game.health
           /\ \A k \in Handlers \ {h} : hb'[k] = hb[k]
  BY NothingOutOfTurn DEF Send, Goto, Busy, HandlersOK

(* Every other step leaves the handlers alone.                             *)
Elsewhere ==
    \/ Informer \/ Checker \/ Ready \/ Join \/ FallIll \/ Hang
    \/ Lapse \/ Silence \/ Allocate \/ Delete \/ UNCHANGED vars

LEMMA OrderlySteps ==
    ASSUME FaultsOK, Orderly, Orderly', [Next]_vars
    PROVE  \/ \E h \in Handlers : Send(h)
           \/ \E h \in Handlers : Handle(h)
           \/ Elsewhere
  BY NothingOutOfTurn DEF Next, Restart, Elsewhere

LEMMA ElsewhereMeans ==
    ASSUME Elsewhere
    PROVE  UNCHANGED handler
  BY DEF Elsewhere, vars, Informer, CreatedOrUpdated, Activate, Deleted,
         Checker, Check, MarkUnhealthy, MarkFails, Mark, Ready, Join, FallIll,
         Hang, Process, Lapse, Silence, Expire, Allocate, Delete

-----------------------------------------------------------------------------
(* The invariant, part by part                                             *)

LEMMA OneHeartbeatStep ==
    ASSUME TypeInv, Orderly, Orderly', AgentInv, [Next]_vars
    PROVE  OneHeartbeat'
<1> USE DEF TypeInv, AgentInv, OneHeartbeat
<1>1. ASSUME NEW h \in Handlers, Send(h)
      PROVE  OneHeartbeat'
  BY <1>1, SendMeans DEF Busy, HandlersOK
<1>2. ASSUME NEW h \in Handlers, Handle(h)
      PROVE  OneHeartbeat'
  BY <1>2, HandleMeans DEF Busy
<1>3. CASE Elsewhere
  BY <1>3, ElsewhereMeans DEF Busy, handler
<1> QED
  BY <1>1, <1>2, <1>3, OrderlySteps

LEMMA HealthStep ==
    ASSUME TypeInv, Orderly, Orderly', AgentInv, [Next]_vars
    PROVE  HealthAgrees'
<1> USE DEF TypeInv, AgentInv, HealthAgrees
<1>1. ASSUME NEW h \in Handlers, Send(h)
      PROVE  HealthAgrees'
  <2>1. game' = game
    BY <1>1 DEF Send
  <2>2. faults' = faults
    BY <1>1, NothingOutOfTurn DEF Send
  <2> QED
    BY <1>1, <2>1, <2>2, SendMeans DEF Busy, HandlersOK
<1>2. ASSUME NEW h \in Handlers, Handle(h)
      PROVE  HealthAgrees'
  <2>1. game'.health = game.health
    BY <1>2 DEF Handle, Update, Patch, PatchFails, Remember, UpdatePlayers,
                UpdatePlayersFails, Count, Answer, AnswerLost, GameOK
  <2>2. faults'.illnesses = faults.illnesses
    BY <1>2, HappensAdds
       DEF Handle, Update, Patch, PatchFails, Remember, UpdatePlayers,
           UpdatePlayersFails, Count, Answer, AnswerLost, FaultKinds
  <2> QED
    BY <1>2, <2>1, <2>2, HandleMeans DEF Busy
<1>3. CASE FallIll
  <2>1. faults'.illnesses = faults.illnesses + 1
    BY <1>3, HappensAdds DEF FallIll, FaultKinds
  <2>2. faults.illnesses = 0 /\ faults'.illnesses = 1
    BY <2>1 DEF Orderly, FaultsOK, FaultKinds
  <2> QED
    BY <1>3, <2>2 DEF FallIll, Process, GameOK
<1>4. CASE Elsewhere /\ ~ FallIll
  <2>1. game'.health = game.health /\ faults'.illnesses = faults.illnesses
    BY <1>4, HappensAdds
       DEF Elsewhere, vars, Informer, CreatedOrUpdated, Activate, Deleted,
           Checker, Check, MarkUnhealthy, MarkFails, Mark, Ready, Join, Hang,
           Process, Lapse, Silence, Expire, Allocate, Delete, FaultKinds, GameOK
  <2> QED
    BY <1>4, <2>1, ElsewhereMeans DEF Busy, handler
<1> QED
  BY <1>1, <1>2, <1>3, <1>4, OrderlySteps

LEMMA StateStep ==
    ASSUME TypeInv, Orderly, Orderly', AgentInv, [Next]_vars
    PROVE  StateAgrees'
<1> USE DEF TypeInv, AgentInv, StateAgrees
<1>1. game.state = "Active" => game'.state = "Active"
  BY DEF Next, vars, Informer, CreatedOrUpdated, Activate, Deleted, Handle,
         Send, Update, Patch, PatchFails, Remember, UpdatePlayers,
         UpdatePlayersFails, Count, Answer, AnswerLost, Checker, Check,
         MarkUnhealthy, MarkFails, Mark, Restart, Ready, Join, FallIll, Hang,
         Process, Lapse, Silence, Expire, Allocate, Delete, GameOK
<1>2. ASSUME NEW h \in Handlers, Send(h)
      PROVE  StateAgrees'
  <2>1. game' = game
    BY <1>2 DEF Send
  <2> QED
    BY <1>2, <2>1, SendMeans DEF Busy, HandlersOK
<1>3. ASSUME NEW h \in Handlers, Handle(h)
      PROVE  StateAgrees'
  BY <1>1, <1>3, HandleMeans DEF Busy
<1>4. CASE Elsewhere
  BY <1>1, <1>4, ElsewhereMeans DEF Busy, handler
<1> QED
  BY <1>2, <1>3, <1>4, OrderlySteps

(* The ways in which the object changes.                                   *)
LEMMA ObjectMeans ==
    ASSUME FaultsOK, Orderly, Orderly', [Next]_vars
    PROVE  \/ gs' = gs
           \/ Delete /\ gs' = Gone
           \/ Allocate
           \/ MarkUnhealthy
           \/ \E h \in Handlers : Patch(h)
<1>1. ASSUME NEW h \in Handlers, PatchFails(h)
      PROVE  gs' = gs
  BY <1>1, NothingOutOfTurn DEF PatchFails
<1>2. CASE MarkFails
  BY <1>2, NothingOutOfTurn DEF MarkFails
<1> QED
  BY <1>1, <1>2, OrderlySteps
     DEF Elsewhere, vars, object, Informer, CreatedOrUpdated, Activate, Deleted,
         Handle, Send, Update, Remember, UpdatePlayers, UpdatePlayersFails,
         Count, Answer, AnswerLost, Checker, Check, Mark, Ready, Join, FallIll,
         Hang, Process, Lapse, Silence, Expire, Delete

(* A patch says Healthy before the object is on offer, or not at all.      *)
LEMMA PatchMeans ==
    ASSUME TypeInv, AgentInv, NEW h \in Handlers, Patch(h)
    PROVE  /\ gs # Gone /\ gs' \in Objects
           /\ gs'.session = gs.session
           /\ gs'.state = hb[h].state
           /\ gs'.health = hb[h].health
           /\ hb[h].health = "Healthy" => ~ Offered
           /\ gs'.state = "Active" => gs.session # NoSession
<1> USE DEF TypeInv, AgentInv
<1>1. /\ gs # Gone /\ pc[h] = "patch" /\ Busy(h)
      /\ gs' = [gs EXCEPT !.state = hb[h].state, !.health = hb[h].health]
  BY DEF Patch, WriteStatus, Busy
<1>2. gs \in Objects /\ gs' \in Objects
  BY <1>1, WrittenStatus DEF Busy, ObjectsOK, Patch
<1>3. hb[h].health = "Healthy" => ~ Offered
  BY <1>1 DEF OfferIsKnown
<1>4. hb[h].state = "Active" => gs.session # NoSession
  BY <1>1 DEF StateAgrees, SessionsAgree, OfObject
<1> QED
  BY <1>1, <1>2, <1>3, <1>4 DEF Objects

LEMMA AllocateMeans ==
    ASSUME AgentAssumption, TypeInv, Allocate
    PROVE  /\ Allocatable /\ gs # Gone
           /\ gs'.state = "Active"
           /\ gs'.session # NoSession
<1>1. gs.state = "StandingBy" /\ Gone.state = "none"
  BY DEF Allocate, Gone
<1>2. gs \in Objects
  BY <1>1 DEF TypeInv, ObjectsOK
<1> QED
  BY <1>1, <1>2 DEF Allocate, Allocatable, Objects, AgentAssumption

LEMMA MarkMeans ==
    ASSUME TypeInv, MarkUnhealthy
    PROVE  /\ gs # Gone
           /\ gs'.state = gs.state
           /\ gs'.session = gs.session
           /\ gs'.health = "Unhealthy"
  BY DEF MarkUnhealthy, TypeInv, ObjectsOK, Objects

LEMMA GoneMeans == /\ Gone.state = "none"
                   /\ Gone.session = NoSession
                   /\ gs = Gone => ~ Offered
<1>1. Gone.state = "none" /\ Gone.session = NoSession
  BY DEF Gone
<1> QED
  BY <1>1 DEF Offered, Allocatable

(* Apart from an update and from what it remembers, a handler leaves the   *)
(* state and the health in the entry alone; known and session it always    *)
(* does.                                                                   *)
LEMMA EntryMeans ==
    ASSUME TypeInv, NEW h \in Handlers, Handle(h)
    PROVE  /\ info'.known = info.known
           /\ info'.isActive = info.isActive
           /\ info'.session = info.session
           /\ \/ info'.state = info.state /\ info'.health = info.health
              \/ Update(h)
              \/ Remember(h)
  BY DEF TypeInv, EntryOK, Entries, Handle, Update, Patch, PatchFails, Remember,
         UpdatePlayers, UpdatePlayersFails, Count, Answer, AnswerLost

LEMMA EntryAgreesStep ==
    ASSUME AgentAssumption, TypeInv, Orderly, Orderly', AgentInv, [Next]_vars
    PROVE  EntryAgrees'
<1> USE DEF TypeInv, AgentInv, EntryAgrees
<1>1. gs = Gone => gs' = Gone
  <2>1. Gone.state # "StandingBy"
    BY DEF Gone
  <2> QED
    BY <2>1, ObjectMeans DEF Delete, Allocate, MarkUnhealthy, Patch
<1>2. ASSUME NEW h \in Handlers, Send(h) \/ Handle(h)
      PROVE  EntryAgrees'
  BY <1>1, <1>2, EntryMeans, HandleMeans DEF Send
<1>3. CASE CreatedOrUpdated
  BY <1>3 DEF CreatedOrUpdated, NewInfo
<1>4. CASE Deleted
  BY <1>4 DEF Deleted, object
<1>5. ASSUME Elsewhere, info'.known = info.known
      PROVE  EntryAgrees'
  <2>1. UNCHANGED handler
    BY <1>5, ElsewhereMeans
  <2>2. ~ info.known => gs = Gone \/ ~ Offered'
    <3>1. CASE gs' = gs
      BY <3>1 DEF Offered, Allocatable
    <3>2. CASE gs' = Gone
      BY <3>2 DEF Gone, Offered, Allocatable
    <3>3. CASE Allocate
      BY <3>3, AllocateMeans DEF Offered
    <3>4. CASE MarkUnhealthy
      BY <3>4, MarkMeans DEF Offered, Allocatable
    <3>5. ASSUME NEW h \in Handlers, Patch(h)
          PROVE  ~ info.known => gs = Gone
      BY <3>5 DEF Patch, Busy
    <3> QED
      BY <3>1, <3>2, <3>3, <3>4, <3>5, ObjectMeans
  <2> QED
    BY <1>1, <1>5, <2>1, <2>2 DEF handler, Busy
<1>6. CASE Elsewhere /\ ~ CreatedOrUpdated /\ ~ Deleted
  <2>1. info'.known = info.known
    BY <1>6 DEF Elsewhere, vars, Informer, Activate, Record, Recorded, Checker,
                Check, MarkUnhealthy, MarkFails, Mark, Ready, Join, FallIll,
                Hang, Process, Lapse, Silence, Expire, Allocate, Delete,
                EntryOK, Entries
  <2> QED
    BY <1>5, <1>6, <2>1
<1> QED
  BY <1>2, <1>3, <1>4, <1>6, OrderlySteps

LEMMA SessionsStep ==
    ASSUME AgentAssumption, TypeInv, Orderly, Orderly', AgentInv, [Next]_vars
    PROVE  SessionsAgree'
<1> USE DEF TypeInv, AgentInv
<1>1. CASE Delete /\ gs' = Gone
  <2>1. session' = session /\ info' = info /\ game' = game
    BY <1>1 DEF Delete, informer
  <2> QED
    BY <1>1, <2>1, GoneMeans DEF SessionsAgree, OfObject, Allocatable
<1>2. CASE Allocate
  <2>1. session' = session /\ info' = info /\ game' = game
    BY <1>2 DEF Allocate, informer
  <2>2. gs # Gone /\ gs.session = NoSession /\ Allocatable
    BY <1>2, AllocateMeans DEF SessionsAgree
  <2>3. session = NoSession /\ ~ info.isActive /\ game.state # "Active"
    BY <2>2 DEF SessionsAgree, OfObject
  <2> QED
    BY <1>2, <2>1, <2>3, AllocateMeans DEF SessionsAgree, Allocatable
<1>3. CASE MarkUnhealthy
  <2>1. session' = session /\ info' = info /\ game' = game
    BY <1>3 DEF MarkUnhealthy, informer
  <2> QED
    BY <1>3, <2>1, MarkMeans DEF SessionsAgree, OfObject, Allocatable
<1>4. ASSUME NEW h \in Handlers, Patch(h)
      PROVE  SessionsAgree'
  <2>1. session' = session /\ info' = info /\ game' = game
    BY <1>4 DEF Patch, informer
  <2>2. gs'.session # NoSession => gs'.health # "Healthy"
    BY <1>4, PatchMeans DEF Offered
  <2> QED
    BY <1>4, <2>1, <2>2, PatchMeans DEF SessionsAgree, OfObject, Allocatable
<1>5. ASSUME gs' = gs, session' = session, info'.isActive = info.isActive,
             info'.session = info.session, game' = game
      PROVE  SessionsAgree'
  BY <1>5 DEF SessionsAgree, OfObject, Allocatable
<1>6. CASE CreatedOrUpdated
  <2>1. gs' = gs /\ game' = game
    BY <1>6 DEF CreatedOrUpdated, object
  <2>2. info' = info \/ info' = NewInfo
    BY <1>6 DEF CreatedOrUpdated
  <2>3. session' = NoSession \/ (gs.state = "Active" /\ session' = gs.session)
    BY <1>6 DEF CreatedOrUpdated
  <2>4. ~ NewInfo.isActive
    BY DEF NewInfo
  <2> QED
    BY <2>1, <2>2, <2>3, <2>4 DEF SessionsAgree, OfObject, Allocatable
<1>7. CASE Activate
  <2>1. /\ gs' = gs /\ game' = game /\ session # NoSession
        /\ session' = NoSession /\ info'.session = session
    BY <1>7 DEF Activate, Record, Recorded, EntryOK, Entries
  <2> QED
    BY <2>1 DEF SessionsAgree, OfObject, Allocatable
<1>8. ASSUME NEW h \in Handlers, Answer(h)
      PROVE  SessionsAgree'
  <2>1. /\ gs' = gs /\ session' = session /\ info' = info
        /\ \/ game' = game
           \/ info.isActive /\ game'.session = info.session
    BY <1>8 DEF Answer, Operation, object, informer, GameOK
  <2> QED
    BY <2>1 DEF SessionsAgree, OfObject, Allocatable
<1>9. ASSUME gs' = gs, session' = session, info' = info,
             game'.session = game.session,
             game'.state = "Active" => game.state = "Active"
      PROVE  SessionsAgree'
  BY <1>9 DEF SessionsAgree, OfObject, Allocatable
<1>10. CASE Ready \/ Join \/ FallIll \/ Hang
  BY <1>9, <1>10 DEF Ready, Join, FallIll, Hang, Process, object, informer, GameOK
<1>11. ASSUME gs' = gs, NEW h \in Handlers, Handle(h), ~ Answer(h)
       PROVE  SessionsAgree'
  <2>1. session' = session /\ game' = game
    BY <1>11 DEF Handle, Update, Patch, PatchFails, Remember, UpdatePlayers,
                 UpdatePlayersFails, Count, AnswerLost, informer
  <2> QED
    BY <1>5, <1>11, <2>1, EntryMeans
<1>12. ASSUME gs' = gs, NEW h \in Handlers, Send(h)
       PROVE  SessionsAgree'
  BY <1>5, <1>12 DEF Send, informer
<1>13. ASSUME gs' = gs, \/ Deleted \/ Checker \/ Lapse \/ Silence
                       \/ UNCHANGED vars
       PROVE  SessionsAgree'
  BY <1>5, <1>13
     DEF Deleted, Checker, Check, MarkUnhealthy, MarkFails, Mark, Lapse, Silence,
         Expire, vars, informer, EntryOK, Entries
<1> QED
  BY <1>1, <1>2, <1>3, <1>4, <1>6, <1>7, <1>8, <1>10, <1>11, <1>12, <1>13,
     ObjectMeans, OrderlySteps
     DEF Elsewhere, Informer, Delete, Allocate

(* An update of an able entry with a healthy heartbeat needs no patch.     *)
LEMMA UpdateMeans ==
    ASSUME TypeInv, NEW h \in Handlers, Update(h), Able(info),
           hb[h].health = "Healthy"
    PROVE  /\ Able(info')
           /\ pc'[h] # "patch"
           /\ pc'[h] = "remember" => Able(hb[h])
<1>1. hb[h] \in Heartbeats /\ Busy(h)
  BY BusyHeartbeat DEF TypeInv, Update, Busy
<1>2. Previous(h) = info.state
  BY DEF Previous, Able
<1>3. info'.state = info.state /\ info'.health = info.health
  BY <1>2 DEF Update, TypeInv, EntryOK, Entries
<1>4. /\ info.health = "Healthy" /\ info.state \in {"StandingBy", "Active"}
      /\ hb[h].state \in {"Initializing", "StandingBy", "Active"}
  BY <1>1 DEF Able, Heartbeats, ProcessStates
<1>5. CASE Unchanged(h)
  <2>1. pc'[h] = "players"
    BY <1>5 DEF Update, Goto, TypeInv, HandlersOK
  <2> QED
    BY <1>3, <2>1 DEF Able
<1>6. CASE ~ Unchanged(h) /\ ~ IsValidStateTransition(Previous(h), hb[h].state)
  <2>1. pc'[h] = "idle"
    BY <1>6 DEF Update, Finish, Goto, TypeInv, HandlersOK
  <2> QED
    BY <1>3, <2>1 DEF Able
<1>7. CASE ~ Unchanged(h) /\ IsValidStateTransition(Previous(h), hb[h].state)
  <2>1. info.state = "StandingBy" /\ hb[h].state = "Active"
    BY <1>2, <1>4, <1>7 DEF Unchanged, IsValidStateTransition
  <2>2. JustAllocated(h)
    BY <1>2, <1>4, <2>1 DEF JustAllocated
  <2>3. pc'[h] = "remember"
    BY <1>7, <2>2 DEF Update, Goto, TypeInv, HandlersOK
  <2> QED
    BY <1>3, <1>4, <2>1, <2>3 DEF Able
<1> QED
  BY <1>5, <1>6, <1>7

(* A handler that finds the object on offer.                               *)
LEMMA OfferedHandle ==
    ASSUME TypeInv, AgentInv, NEW h \in Handlers, Handle(h), ~ Patch(h), Offered
    PROVE  /\ game.health = "Healthy" =>
                Able(info)' \/ \E k \in Handlers : pc'[k] = "remember"
           /\ \A k \in Handlers : hb'[k].health = "Healthy" =>
                /\ pc'[k] = "update" => Able(info)'
                /\ pc'[k] # "patch"
                /\ pc'[k] = "remember" => Able(hb'[k])
<1> USE DEF TypeInv, AgentInv
<1>1. Busy(h) /\ hb[h] \in Heartbeats
  BY HandleMeans, BusyHeartbeat DEF Busy
<1>2. game.health = "Healthy" => hb[h].health = "Healthy"
  BY <1>1 DEF HealthAgrees, Heartbeats, ProcessHealths
<1>3. \A k \in Handlers \ {h} : pc'[k] = "idle"
  BY <1>1, HandleMeans DEF OneHeartbeat, Busy
<1>4. hb'[h] = hb[h] \/ pc'[h] = "idle"
  BY HandleMeans DEF Busy
<1>5. CASE Update(h)
  <2>1. pc[h] = "update"
    BY <1>5 DEF Update
  <2>2. hb[h].health = "Healthy" =>
            Able(info)' /\ pc'[h] # "patch" /\ (pc'[h] = "remember" => Able(hb[h]))
    BY <1>5, <2>1, UpdateMeans DEF OfferIsKnown, Able
  <2> QED
    BY <1>2, <1>3, <1>4, <2>2
<1>6. CASE Remember(h)
  <2>1. pc[h] = "remember" /\ pc'[h] = "players"
    BY <1>6 DEF Remember, Goto, HandlersOK
  <2>2. hb[h].health = "Healthy" => Able(hb[h])
    BY <2>1 DEF OfferIsKnown
  <2>3. info'.state = hb[h].state /\ info'.health = hb[h].health
    BY <1>6 DEF Remember, EntryOK, Entries
  <2> QED
    BY <1>2, <1>3, <2>1, <2>2, <2>3 DEF Able
<1>7. CASE ~ Update(h) /\ ~ Remember(h)
  <2>1. Able(info)' <=> Able(info)
    BY <1>7, EntryMeans DEF Able
  <2>2. pc[h] # "remember" /\ pc'[h] \in {"idle", "players", "count", "answer"}
    BY <1>7 DEF Handle, PatchFails, UpdatePlayers, UpdatePlayersFails, Count,
                Answer, AnswerLost, Goto, Finish, HandlersOK
  <2>3. game.health = "Healthy" => Able(info)
    BY <1>1, <2>2 DEF OfferIsKnown, OneHeartbeat, Busy
  <2> QED
    BY <1>3, <2>1, <2>2, <2>3
<1> QED
  BY <1>5, <1>6, <1>7

LEMMA OfferStep ==
    ASSUME AgentAssumption, TypeInv, Orderly, Orderly', AgentInv, [Next]_vars
    PROVE  OfferIsKnown'
<1> USE DEF TypeInv, AgentInv
<1>1. ASSUME NEW h \in Handlers, Patch(h)
      PROVE  OfferIsKnown'
  <2>1. /\ pc[h] = "patch" /\ pc'[h] = "remember"
        /\ Busy(h) /\ hb' = hb /\ game' = game
    BY <1>1 DEF Patch, Goto, Busy, HandlersOK
  <2>2. hb[h].health = "Healthy" \/ game.health = "Unhealthy"
    BY <2>1 DEF HealthAgrees
  <2>3. \A k \in Handlers \ {h} : pc'[k] = "idle"
    BY <1>1, <2>1, HandleMeans DEF OneHeartbeat, Busy, Handle
  <2>4. Offered' /\ hb[h].health = "Healthy" => Able(hb[h])
    BY <1>1, PatchMeans DEF Offered, Allocatable, Able
  <2> QED
    BY <2>1, <2>2, <2>3, <2>4 DEF OfferIsKnown
<1>2. (\A h \in Handlers : ~ Patch(h)) => (Offered' => Offered)
  <2>1. CASE gs' = gs
    BY <2>1 DEF Offered, Allocatable
  <2>2. CASE gs' = Gone
    BY <2>2, GoneMeans DEF Offered, Allocatable
  <2>3. CASE Allocate
    BY <2>3, AllocateMeans DEF Offered
  <2>4. CASE MarkUnhealthy
    BY <2>4, MarkMeans DEF Offered, Allocatable
  <2> QED
    BY <2>1, <2>2, <2>3, <2>4, ObjectMeans
<1>3. ASSUME NEW h \in Handlers, Send(h), Offered
      PROVE  OfferIsKnown'
  <2>1. info' = info /\ game' = game
    BY <1>3 DEF Send
  <2>2. \A k \in Handlers : pc[k] = "idle"
    BY <1>3, SendMeans DEF Busy
  <2>3. game.health = "Healthy" => Able(info)
    BY <1>3, <2>2 DEF OfferIsKnown
  <2>4. /\ pc'[h] = "update" /\ hb'[h].health = game.health
        /\ \A k \in Handlers \ {h} : pc'[k] = "idle"
    BY <1>3, <2>2, SendMeans DEF HandlersOK
  <2> QED
    BY <2>1, <2>3, <2>4 DEF OfferIsKnown, Able
<1>4. ASSUME NEW h \in Handlers, Handle(h), ~ Patch(h), Offered
      PROVE  OfferIsKnown'
  <2>1. game'.health = game.health
    BY <1>4 DEF Handle, Update, PatchFails, Remember, UpdatePlayers,
                UpdatePlayersFails, Count, Answer, AnswerLost, GameOK
  <2> QED
    BY <1>4, <2>1, OfferedHandle DEF OfferIsKnown
<1>5. ASSUME Elsewhere, Offered
      PROVE  OfferIsKnown'
  <2>1. UNCHANGED handler
    BY <1>5, ElsewhereMeans
  <2>2. game'.health = "Healthy" => game.health = "Healthy"
    <3>1. CASE FallIll
      <4>1. faults'.illnesses = faults.illnesses + 1
        BY <3>1, HappensAdds DEF FallIll, FaultKinds
      <4>2. faults.illnesses = 0
        BY <4>1 DEF Orderly, FaultsOK, FaultKinds
      <4> QED
        BY <4>2 DEF HealthAgrees
    <3>2. CASE ~ FallIll
      BY <1>5, <3>2
         DEF Elsewhere, vars, Informer, CreatedOrUpdated, Activate, Deleted,
             Checker, Check, MarkUnhealthy, MarkFails, Mark, Ready, Join, Hang,
             Process, Lapse, Silence, Expire, Allocate, Delete, GameOK
    <3> QED
      BY <3>1, <3>2
  <2>3. info'.state = info.state /\ info'.health = info.health
    <3>1. CASE CreatedOrUpdated
      <4>1. gs # Gone /\ info' = IF info.known THEN info ELSE NewInfo
        BY <3>1 DEF CreatedOrUpdated
      <4>2. info.known
        BY <1>5, <4>1 DEF EntryAgrees
      <4> QED
        BY <4>1, <4>2
    <3>2. CASE ~ CreatedOrUpdated
      BY <1>5, <3>2
         DEF Elsewhere, vars, Informer, Activate, Deleted, Record, Recorded,
             Checker, Check, MarkUnhealthy, MarkFails, Mark, Ready, Join,
             FallIll, Hang, Process, Lapse, Silence, Expire, Allocate, Delete,
             EntryOK, Entries
    <3> QED
      BY <3>1, <3>2
  <2> QED
    BY <1>5, <2>1, <2>2, <2>3 DEF OfferIsKnown, Able, handler
<1>6. CASE ~ Offered'
  BY <1>6 DEF OfferIsKnown
<1> QED
  BY <1>1, <1>2, <1>3, <1>4, <1>5, <1>6, OrderlySteps

-----------------------------------------------------------------------------
LEMMA SessionInit == Init => SessionInv
<1> SUFFICES ASSUME Init
             PROVE  AgentInv
  BY DEF SessionInv
<1>1. /\ gs.state = "" /\ gs.session = NoSession
      /\ session = NoSession /\ ~ info.isActive
      /\ game.state # "Active" /\ game.health = "Healthy"
      /\ faults.illnesses = 0
      /\ \A h \in Handlers : pc[h] = "idle"
  BY DEF Init, NoInfo, NewInfo
<1>2. ~ Offered
  BY <1>1 DEF Offered, Allocatable
<1> QED
  BY <1>1, <1>2 DEF AgentInv, OneHeartbeat, HealthAgrees, StateAgrees,
                    EntryAgrees, SessionsAgree, OfferIsKnown, Busy

LEMMA SessionStep ==
    ASSUME AgentAssumption, TypeInv, TypeInv', SessionInv, [Next]_vars
    PROVE  SessionInv'
<1> SUFFICES ASSUME Orderly'
             PROVE  AgentInv'
  BY DEF SessionInv
<1>1. Orderly
  BY OrderlyBefore DEF TypeInv
<1>2. AgentInv
  BY <1>1 DEF SessionInv
<1> QED
  BY <1>1, <1>2, OneHeartbeatStep, HealthStep, StateStep, EntryAgreesStep,
     SessionsStep, OfferStep
     DEF AgentInv

LEMMA Invariants == Spec => [](TypeInv /\ SessionInv)
<1>1. Init => TypeInv /\ SessionInv
  BY AgentAssumption, TypeInit, SessionInit
<1>2. TypeInv /\ SessionInv /\ [Next]_vars => TypeInv' /\ SessionInv'
  BY AgentAssumption, TypeStep, SessionStep
<1> QED
  BY <1>1, <1>2, PTL DEF Spec

(* As long as heartbeats come in turn and the process does not recover     *)
(* from an illness, it is Active for the session of its server, for any    *)
(* number of refused requests, joins, pauses and sessions.                 *)
THEOREM SessionCorrect == Spec => []ServesItsSession
<1>1. SessionInv => ServesItsSession
  BY DEF SessionInv, Orderly, AgentInv, SessionsAgree, OfObject, ServesItsSession
<1> QED
  BY <1>1, Invariants, PTL

(* And no step takes an allocated server back while its process reports    *)
(* the health it had: the agent never patches what it has put on offer.    *)
THEOREM NeverBackCorrect == Spec => NeverBackFromActive
<1>1. ASSUME TypeInv, SessionInv, [Next]_vars,
             gs.state = "Active", InTurn, faults.illnesses = 0
      PROVE  gs'.state \in {"Active", "none"}
  <2>1. Orderly /\ AgentInv
    BY <1>1 DEF Orderly, SessionInv
  <2>2. Offered
    BY <1>1, <2>1 DEF AgentInv, SessionsAgree, Offered
  <2>3. ASSUME NEW h \in Handlers, pc[h] = "patch"
        PROVE  FALSE
    BY <1>1, <2>1, <2>2, <2>3 DEF AgentInv, HealthAgrees, OfferIsKnown, Busy
  <2>4. CASE gs' = gs
    BY <1>1, <2>4
  <2>5. CASE Delete
    BY <2>5 DEF Delete, Gone
  <2>6. CASE Allocate
    BY <1>1, <2>6 DEF Allocate
  <2>7. CASE MarkUnhealthy \/ MarkFails
    BY <1>1, <2>7 DEF MarkUnhealthy, MarkFails, TypeInv, ObjectsOK, Objects
  <2> QED
    BY <1>1, <2>3, <2>4, <2>5, <2>6, <2>7
       DEF Next, vars, object, Informer, CreatedOrUpdated, Activate, Deleted,
           Handle, Send, Update, Patch, PatchFails, Remember, UpdatePlayers,
           UpdatePlayersFails, Count, Answer, AnswerLost, Checker, Check, Mark,
           Restart, Ready, Join, FallIll, Hang, Process, Lapse, Silence, Expire
<1>2. TypeInv /\ SessionInv /\ [Next]_vars =>
        [(gs.state = "Active" /\ InTurn /\ faults.illnesses = 0)
           => gs'.state \in {"Active", "none"}]_vars
  BY <1>1
<1> QED
  BY <1>2, Invariants, PTL DEF Spec, NeverBackFromActive

=============================================================================
