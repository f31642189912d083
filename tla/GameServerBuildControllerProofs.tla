------------------ MODULE GameServerBuildControllerProofs ------------------
(***************************************************************************)
(* Theorems about GameServerBuildController, for any number of servers and *)
(* any bounds: its types; that a crash is counted once; that Unhealthy is  *)
(* final; that the max of the build is respected.                          *)
(***************************************************************************)
EXTENDS GameServerBuildController, FiniteSetTheorems, TLAPS

FaultKinds == {"changes", "vanished", "refused", "lost", "restarts"}
Plans == [finished : SUBSET GameServers, victims : SUBSET GameServers,
          create : Nat, counts : IsCounts, crashed : SUBSET GameServers,
          failed : BOOLEAN]
Builds == [standingBy : Nat, max : Nat, counts : IsCounts, crashes : Nat,
           health : {"", "Healthy", "Unhealthy"}]

LEMMA Naturals ==
    /\ CrashesToMarkUnhealthy \in Nat \cup {-1}
    /\ MaxToAdd \in Nat \ {0} /\ MaxToDelete \in Nat \ {0}
BY BuildAssumption

-----------------------------------------------------------------------------
(* Records and counts                                                      *)

(* The fields of the plan and of the build that stand for none.            *)
LEMMA NoneFields ==
    /\ NoPlan.finished = {} /\ NoPlan.victims = {} /\ NoPlan.create = 0
    /\ NoPlan.crashed = {} /\ NoPlan \in Plans
    /\ NoCounts \in IsCounts
BY DEF NoPlan, NoCounts, Plans, IsCounts

LEMMA NewBuildTyped ==
    ASSUME NEW spec \in Specs
    PROVE  /\ NewBuild(spec) \in Builds
           /\ NewBuild(spec).standingBy = spec.standingBy
           /\ NewBuild(spec).max = spec.max
           /\ NewBuild(spec).crashes = 0
           /\ NewBuild(spec).health = ""
<1>1. spec \in [standingBy : Nat, max : Nat]
  BY BuildAssumption
<1>. QED  BY <1>1, NoneFields DEF NewBuild, Builds

(* No build of the program is the value that stands for none.              *)
LEMMA BuildsExist == NoBuild \notin Builds
<1>1. NoBuild.standingBy = -1
  BY DEF NoBuild
<1>2. \A b \in Builds : b.standingBy \in Nat
  BY DEF Builds
<1>. QED  BY <1>1, <1>2

LEMMA IsBuildMeans ==
    ASSUME NEW b
    PROVE  IsBuild(b) <=> \/ b = NoBuild
                          \/ /\ b \in Builds
                             /\ [standingBy |-> b.standingBy, max |-> b.max]
                                   \in Specs
BY DEF IsBuild, Builds

LEMMA Subfinite ==
    ASSUME NEW S \in SUBSET GameServers
    PROVE  IsFiniteSet(S) /\ Cardinality(S) \in Nat
BY BuildAssumption, FS_Subset, FS_CardinalityType

LEMMA CountsTyped == ASSUME NEW list PROVE Counts(list) \in IsCounts
<1>1. \A S \in SUBSET GameServers : Cardinality(S) \in Nat
  BY Subfinite
<1>2. NumberOf(list, Pending) \in Nat
  BY <1>1 DEF NumberOf, Present
<1>3. NumberOf(list, LAMBDA o : Healthy(o, "Initializing")) \in Nat
  BY <1>1 DEF NumberOf, Present
<1>4. NumberOf(list, LAMBDA o : Healthy(o, "StandingBy")) \in Nat
  BY <1>1 DEF NumberOf, Present
<1>5. NumberOf(list, LAMBDA o : Healthy(o, "Active")) \in Nat
  BY <1>1 DEF NumberOf, Present
<1>. QED  BY <1>2, <1>3, <1>4, <1>5 DEF Counts, IsCounts

(* What a patch makes of the stored build.                                 *)
LEMMA PatchedFields ==
    ASSUME NEW total \in Nat, build \in Builds, gsb \in Builds, plan \in Plans
    PROVE  /\ Patched(total) \in Builds
           /\ Patched(total).standingBy = build.standingBy
           /\ Patched(total).max = build.max
           /\ Patched(total).crashes =
                 IF total = gsb.crashes THEN build.crashes ELSE total
           /\ Patched(total).health =
                 IF Health(total) = gsb.health THEN build.health
                                               ELSE Health(total)
<1>. DEFINE new == [gsb EXCEPT !.crashes = total, !.health = Health(total)]
            merged == Merge(build, gsb, new)
            counts == Merge(build.counts, gsb.counts, plan.counts)
<1>1. /\ new.standingBy = gsb.standingBy /\ new.max = gsb.max
      /\ new.crashes = total /\ new.health = Health(total)
      /\ DOMAIN new = {"standingBy", "max", "counts", "crashes", "health"}
  BY DEF Builds
<1>2. Health(total) \in {"", "Healthy", "Unhealthy"}
  BY DEF Health
<1>. HIDE DEF new
<1>3. /\ DOMAIN merged = {"standingBy", "max", "counts", "crashes", "health"}
      /\ merged = [f \in DOMAIN merged |-> merged[f]]
      /\ merged.standingBy = build.standingBy
      /\ merged.max = build.max
      /\ merged.crashes = IF total = gsb.crashes THEN build.crashes ELSE total
      /\ merged.health = IF Health(total) = gsb.health THEN build.health
                                                       ELSE Health(total)
  BY <1>1 DEF Merge
<1>4. counts \in IsCounts
  <2>1. /\ build.counts \in IsCounts /\ plan.counts \in IsCounts
        /\ DOMAIN plan.counts = {"pending", "initializing", "standingBy",
                                 "active"}
    BY DEF Builds, Plans, IsCounts
  <2>2. /\ counts = [f \in {"pending", "initializing", "standingBy", "active"} |->
                       counts[f]]
        /\ counts.pending \in Nat /\ counts.initializing \in Nat
        /\ counts.standingBy \in Nat /\ counts.active \in Nat
    BY <2>1 DEF Merge, IsCounts
  <2>. HIDE DEF counts
  <2>. QED  BY <2>2 DEF IsCounts
<1>5. Patched(total) = [merged EXCEPT !.counts = counts]
  BY DEF Patched, new
<1>. HIDE DEF merged, counts
<1>6. /\ build.standingBy \in Nat /\ build.max \in Nat /\ build.crashes \in Nat
      /\ build.health \in {"", "Healthy", "Unhealthy"}
  BY DEF Builds
<1>7. /\ merged.standingBy \in Nat /\ merged.max \in Nat
      /\ merged.crashes \in Nat
      /\ merged.health \in {"", "Healthy", "Unhealthy"}
  BY <1>2, <1>3, <1>6
<1>8. Patched(total) \in Builds
  BY <1>3, <1>4, <1>5, <1>7 DEF Builds
<1>9. /\ Patched(total).standingBy = merged.standingBy
      /\ Patched(total).max = merged.max
      /\ Patched(total).crashes = merged.crashes
      /\ Patched(total).health = merged.health
  BY <1>3, <1>5
<1>. QED  BY <1>3, <1>8, <1>9

-----------------------------------------------------------------------------
(* Types                                                                   *)

LEMMA TypeFacts ==
    ASSUME TypeOK
    PROVE  /\ plan \in Plans
           /\ faults \in [FaultKinds -> Nat]
           /\ build # NoBuild => build \in Builds
           /\ buildCache # NoBuild => buildCache \in Builds
           /\ gsb # NoBuild => gsb \in Builds
           /\ crashes \in Nat /\ deaths \in Nat
BY IsBuildMeans DEF TypeOK, Plans, FaultKinds

LEMMA HappensTyped ==
    ASSUME TypeOK, NEW kind \in FaultKinds, NEW bound, Happens(kind, bound)
    PROVE  /\ faults' \in [FaultKinds -> Nat]
           /\ faults' = [faults EXCEPT ![kind] = @ + 1]
           /\ faults'.lost = IF kind = "lost" THEN faults.lost + 1
                                              ELSE faults.lost
BY TypeFacts DEF Happens, FaultKinds

(* The part of the types that a write of an object can disturb.            *)
ObjectsTyped ==
    /\ server \in [GameServers -> Object \cup {NoServer}]
    /\ cache \in [GameServers -> Object \cup {NoServer}]
    /\ current \subseteq GameServers
    /\ \A g \in current : cache[g] = server[g]
    /\ intact \subseteq Present(server)

LEMMA WriteTyped ==
    ASSUME TypeOK, NEW g \in GameServers,
           NEW object \in Object \cup {NoServer}, Write(g, object),
           cache' = cache
    PROVE  ObjectsTyped'
BY DEF TypeOK, ObjectsTyped, Write, Present

LEMMA KeptTyped ==
    ASSUME TypeOK, UNCHANGED <<server, cache, current, intact>>
    PROVE  ObjectsTyped'
BY DEF TypeOK, ObjectsTyped, Present

LEMMA RemoveTyped ==
    ASSUME TypeOK, NEW g \in GameServers, Remove(g), cache' = cache
    PROVE  ObjectsTyped' /\ deaths' \in Nat
BY WriteTyped DEF Remove, TypeOK

(* The part that belongs to the reconciliation.                            *)
WorkTyped ==
    /\ step \in Steps
    /\ (step = "idle") <=> (gsb = NoBuild)
    /\ plan \in Plans
    /\ step \in {"idle", "list"} => plan = NoPlan
    /\ step \notin {"idle", "list"} => step = NextStep(plan)

LEMMA StopTyped == ASSUME Stop PROVE WorkTyped'
BY NoneFields DEF Stop, WorkTyped, Steps

LEMMA NextStepTyped ==
    ASSUME NEW p
    PROVE  NextStep(p) \in Steps \ {"idle", "list"}
BY DEF NextStep, Steps

LEMMA ProceedTyped ==
    ASSUME TypeOK, step # "idle", NEW p \in Plans, Proceed(p), gsb' = gsb
    PROVE  WorkTyped'
BY NextStepTyped DEF Proceed, WorkTyped, TypeOK, Steps

LEMMA AllDoneTyped ==
    ASSUME TypeOK, step # "idle", NEW p \in Plans, AllDone(p)
    PROVE  /\ WorkTyped' /\ requested' \in BOOLEAN
           /\ gsb' \in {gsb, NoBuild}
BY ProceedTyped, StopTyped DEF AllDone, Requeue, Stop, TypeOK

LEMMA WorkKeptTyped ==
    ASSUME TypeOK, UNCHANGED work
    PROVE  WorkTyped'
<1>1. step' = step /\ gsb' = gsb /\ plan' = plan
  BY DEF work
<1>. QED  BY <1>1 DEF TypeOK, WorkTyped, Plans, NextStep

LEMMA TypesTogether ==
    ASSUME IsBuild(build'), IsBuild(buildCache'), IsBuild(gsb'),
           ObjectsTyped', WorkTyped', requested' \in BOOLEAN,
           underCreation' \subseteq GameServers,
           underDeletion' \subseteq GameServers,
           crashes' \in Nat, deaths' \in Nat,
           faults' \in [FaultKinds -> Nat]
    PROVE  TypeOK'
BY DEF TypeOK, ObjectsTyped, WorkTyped, FaultKinds, Plans

(* The plans that follow a plan.                                           *)
LEMMA PlanChanges ==
    ASSUME NEW p \in Plans, NEW S \in SUBSET GameServers
    PROVE  /\ [p EXCEPT !.finished = S] \in Plans
           /\ [p EXCEPT !.victims = S] \in Plans
           /\ [p EXCEPT !.victims = S, !.failed = TRUE] \in Plans
           /\ [p EXCEPT !.finished = S].finished = S
           /\ [p EXCEPT !.finished = S].crashed = p.crashed
           /\ [p EXCEPT !.finished = S].create = p.create
           /\ [p EXCEPT !.victims = S].finished = p.finished
           /\ [p EXCEPT !.victims = S].crashed = p.crashed
           /\ [p EXCEPT !.victims = S].create = p.create
           /\ [p EXCEPT !.victims = S, !.failed = TRUE].finished = p.finished
           /\ [p EXCEPT !.victims = S, !.failed = TRUE].crashed = p.crashed
           /\ [p EXCEPT !.victims = S, !.failed = TRUE].create = p.create
BY DEF Plans

LEMMA CreateChanges ==
    ASSUME NEW p \in Plans, p.create # 0
    PROVE  /\ [p EXCEPT !.create = @ - 1] \in Plans
           /\ [p EXCEPT !.create = @ - 1, !.failed = TRUE] \in Plans
           /\ [p EXCEPT !.create = @ - 1].finished = p.finished
           /\ [p EXCEPT !.create = @ - 1].crashed = p.crashed
           /\ [p EXCEPT !.create = @ - 1].create = p.create - 1
           /\ [p EXCEPT !.create = @ - 1, !.failed = TRUE].finished = p.finished
           /\ [p EXCEPT !.create = @ - 1, !.failed = TRUE].crashed = p.crashed
           /\ [p EXCEPT !.create = @ - 1, !.failed = TRUE].create = p.create - 1
<1>1. PICK n \in Nat : n = p.create - 1
  BY DEF Plans
<1>2. /\ [p EXCEPT !.create = n] \in Plans
      /\ [p EXCEPT !.create = n].finished = p.finished
      /\ [p EXCEPT !.create = n].crashed = p.crashed
      /\ [p EXCEPT !.create = n].create = n
  BY DEF Plans
<1>3. /\ [p EXCEPT !.create = n, !.failed = TRUE] \in Plans
      /\ [p EXCEPT !.create = n, !.failed = TRUE].finished = p.finished
      /\ [p EXCEPT !.create = n, !.failed = TRUE].crashed = p.crashed
      /\ [p EXCEPT !.create = n, !.failed = TRUE].create = n
  BY DEF Plans
<1>4. /\ [p EXCEPT !.create = @ - 1] = [p EXCEPT !.create = n]
      /\ [p EXCEPT !.create = @ - 1, !.failed = TRUE] =
            [p EXCEPT !.create = n, !.failed = TRUE]
  BY <1>1
<1>. QED  BY <1>1, <1>2, <1>3, <1>4

(* What a step of the reconciliation says of its plan.                     *)
LEMMA StepMeans ==
    ASSUME TypeOK
    PROVE  /\ step = "create" => plan.finished = {} /\ plan.create > 0
           /\ step = "scaleDown" => plan.finished = {}
           /\ step = "updateStatus" => plan.finished = {} /\ plan.create = 0
<1>1. step \notin {"idle", "list"} => step = NextStep(plan)
  BY DEF TypeOK
<1>2. plan.create \in Nat
  BY TypeFacts DEF Plans
<1>. QED  BY <1>1, <1>2 DEF NextStep

-----------------------------------------------------------------------------
(* What the surroundings do, in the terms that the invariants need         *)

(* A server that may count towards max, now or later.                      *)
MayCount(o) == o.state \in {"", "Initializing", "StandingBy", "Active"}

(* A server beyond its first state has reported its health.                *)
HasReported(o) ==
    o.state \in {"Initializing", "StandingBy", "Active"} => o.health # ""

Surrounded ==
    /\ UNCHANGED <<buildCache, cache, requested, knowledge, work, deaths>>
    /\ faults' \in [FaultKinds -> Nat]
    /\ faults'.lost = faults.lost
    /\ \/ /\ build' = build
          /\ \E g \in GameServers, o \in Object \cup {NoServer} :
                /\ Write(g, o)
                /\ MayCount(o) => MayCount(server[g])
                /\ HasReported(server[g]) => HasReported(o)
       \/ /\ UNCHANGED <<server, current, intact>>
          /\ IsBuild(build')
          /\ \/ build' = NoBuild
             \/ /\ NoBuild \notin {build, build'}
                /\ build'.crashes = build.crashes
                /\ build'.health = build.health

LEMMA BecomesMeans ==
    ASSUME TypeOK, NEW g \in GameServers, NEW o \in Object, Becomes(g, o),
           MayCount(o) => MayCount(server[g]),
           HasReported(server[g]) => HasReported(o)
    PROVE  Surrounded
<1>1. faults' \in [FaultKinds -> Nat] /\ faults'.lost = faults.lost
  BY HappensTyped DEF Becomes, FaultKinds
<1>. QED  BY <1>1 DEF Becomes, Surrounded

LEMMA SurroundingsMean == ASSUME TypeOK, Surroundings PROVE Surrounded
<1>0. \A g \in GameServers : /\ server[g] \in Object \cup {NoServer}
                             /\ server[g] # NoServer => server[g] \in Object
  BY DEF TypeOK
<1>1. ASSUME NEW g \in GameServers, Heartbeat(g) PROVE Surrounded
  <2>1. PICK state \in {"Initializing", "StandingBy", "Active"} :
           /\ <<server[g].state, state>> \in Transitions
           /\ Becomes(g, [state |-> state, health |-> "Healthy"])
    BY <1>1 DEF Heartbeat
  <2>2. MayCount(server[g])
    BY <2>1 DEF Transitions, MayCount
  <2>3. [state |-> state, health |-> "Healthy"] \in Object
    BY DEF Object, States
  <2>4. HasReported([state |-> state, health |-> "Healthy"])
    BY DEF HasReported
  <2>. QED  BY <2>1, <2>2, <2>3, <2>4, BecomesMeans
<1>2. ASSUME NEW g \in GameServers, Allocate(g) PROVE Surrounded
  <2>1. [state |-> "Active", health |-> "Healthy"] \in Object
    BY DEF Object, States
  <2>2. MayCount(server[g])
    BY <1>2 DEF Allocate, MayCount
  <2>3. HasReported([state |-> "Active", health |-> "Healthy"])
    BY DEF HasReported
  <2>. QED  BY <1>2, <2>1, <2>2, <2>3, BecomesMeans DEF Allocate
<1>3. ASSUME NEW g \in GameServers, Exit(g) PROVE Surrounded
  <2>1. PICK state \in {"GameCompleted", "Crashed"} :
           /\ MayCount(server[g])
           /\ Becomes(g, [server[g] EXCEPT !.state = state])
    BY <1>3 DEF Exit, MayCount
  <2>2. server[g] \in Object
    <3>1. ~ MayCount(NoServer)
      BY DEF MayCount, NoServer
    <3>. QED  BY <1>0, <2>1, <3>1
  <2>3. /\ [server[g] EXCEPT !.state = state] \in Object
        /\ [server[g] EXCEPT !.state = state].state = state
    BY <2>2 DEF Object, States
  <2>. QED  BY <2>1, <2>3, BecomesMeans DEF MayCount, HasReported
<1>4. ASSUME NEW g \in GameServers, MarkUnhealthy(g) PROVE Surrounded
  <2>1. server[g] \in Object
    BY <1>0, <1>4 DEF MarkUnhealthy
  <2>2. /\ [server[g] EXCEPT !.health = "Unhealthy"] \in Object
        /\ [server[g] EXCEPT !.health = "Unhealthy"].state = server[g].state
        /\ [server[g] EXCEPT !.health = "Unhealthy"].health = "Unhealthy"
    BY <2>1 DEF Object
  <2>. QED  BY <1>4, <2>2, BecomesMeans DEF MarkUnhealthy, MayCount, HasReported
<1>5. ASSUME NEW g \in GameServers, NeverHeard(g) PROVE Surrounded
  <2>1. [state |-> "GameCompleted", health |-> "Unhealthy"] \in Object
    BY DEF Object, States
  <2>2. /\ ~ MayCount([state |-> "GameCompleted", health |-> "Unhealthy"])
        /\ HasReported([state |-> "GameCompleted", health |-> "Unhealthy"])
    BY DEF MayCount, HasReported
  <2>. QED  BY <1>5, <2>1, <2>2, TypeFacts DEF NeverHeard, Surrounded
<1>6. ASSUME NEW g \in GameServers, Touch(g) PROVE Surrounded
  BY <1>0, <1>6, BecomesMeans DEF Touch
<1>7. /\ ~ MayCount(NoServer)
      /\ HasReported(NoServer)
  BY DEF MayCount, HasReported, NoServer
<1>8. ASSUME NEW g \in GameServers, Vanish(g) PROVE Surrounded
  <2>1. faults' \in [FaultKinds -> Nat] /\ faults'.lost = faults.lost
    BY <1>8, HappensTyped DEF Vanish, FaultKinds
  <2>. QED  BY <1>7, <1>8, <2>1 DEF Vanish, Surrounded
<1>9. ASSUME NEW g \in GameServers, Collect(g) PROVE Surrounded
  BY <1>7, <1>9, TypeFacts DEF Collect, Surrounded
<1>10. ASSUME ChangeSpec PROVE Surrounded
  <2>1. faults' \in [FaultKinds -> Nat] /\ faults'.lost = faults.lost
    BY <1>10, HappensTyped DEF ChangeSpec, FaultKinds
  <2>2. PICK spec \in Specs :
           build' = [build EXCEPT !.standingBy = spec.standingBy,
                                  !.max = spec.max]
    BY <1>10 DEF ChangeSpec
  <2>3. spec \in [standingBy : Nat, max : Nat]
    BY BuildAssumption
  <2>4. build \in Builds
    BY <1>10, TypeFacts DEF ChangeSpec
  <2>5. /\ build' \in Builds
        /\ build'.standingBy = spec.standingBy /\ build'.max = spec.max
        /\ build'.crashes = build.crashes /\ build'.health = build.health
    BY <2>2, <2>3, <2>4 DEF Builds
  <2>6. [standingBy |-> spec.standingBy, max |-> spec.max] = spec
    BY <2>3
  <2>7. IsBuild(build')
    BY <2>5, <2>6, IsBuildMeans
  <2>. QED  BY <1>10, <2>1, <2>4, <2>5, <2>7, BuildsExist
            DEF ChangeSpec, Surrounded, copies
<1>11. ASSUME DeleteBuild PROVE Surrounded
  BY <1>11, TypeFacts DEF DeleteBuild, Surrounded, copies, IsBuild
<1>. QED  BY <1>1, <1>2, <1>3, <1>4, <1>5, <1>6, <1>8, <1>9, <1>10, <1>11
          DEF Surroundings

-----------------------------------------------------------------------------
(* The steps of the controller keep the types                              *)

LEMMA InitTypes == Init => TypeOK
<1>. SUFFICES ASSUME Init PROVE TypeOK
  OBVIOUS
<1>1. PICK spec \in Specs : build = NewBuild(spec)
  BY DEF Init
<1>2. [standingBy |-> spec.standingBy, max |-> spec.max] = spec
  BY BuildAssumption
<1>3. IsBuild(build) /\ IsBuild(buildCache) /\ IsBuild(gsb)
  BY <1>1, <1>2, NewBuildTyped, IsBuildMeans DEF Init
<1>4. faults \in [FaultKinds -> Nat]
  BY DEF Init, FaultKinds
<1>5. plan \in Plans /\ plan = NoPlan
  BY NoneFields DEF Init
<1>6. server \in [GameServers -> Object \cup {NoServer}]
  BY DEF Init
<1>. QED  BY <1>3, <1>4, <1>5, <1>6 DEF Init, TypeOK, Steps, FaultKinds, Plans

LEMMA BeginTypes == ASSUME TypeOK, Begin PROVE TypeOK'
<1>1. /\ UNCHANGED <<build, buildCache, server, cache, current, intact, deaths,
                     faults, crashes>>
      /\ requested' = FALSE
  BY DEF Begin, BuildGone, copies, knowledge
<1>2. underCreation' \subseteq GameServers
  BY DEF Begin, BuildGone, knowledge, CreationsSeen, CreationsMissing, TypeOK
<1>3. underDeletion' \subseteq GameServers
  BY DEF Begin, BuildGone, knowledge, StillCached, TypeOK
<1>4. \/ UNCHANGED <<step, gsb, plan>>
      \/ /\ step' = "list" /\ gsb' = buildCache /\ buildCache # NoBuild
         /\ plan' = plan /\ step = "idle"
  BY DEF Begin, BuildGone, work
<1>5. WorkTyped'
  BY <1>4, WorkKeptTyped, TypeFacts DEF TypeOK, work, WorkTyped, Steps
<1>6. IsBuild(build') /\ IsBuild(buildCache') /\ IsBuild(gsb')
  BY <1>1, <1>4 DEF TypeOK
<1>. QED  BY <1>1, <1>2, <1>3, <1>5, <1>6, KeptTyped, TypesTogether, TypeFacts

LEMMA PlanOfList ==
    ASSUME TypeOK, List
    PROVE  /\ plan' \in Plans
           /\ Proceed(plan')
           /\ plan'.finished = FinishedIn(cache)
           /\ plan'.crashed = {g \in Present(cache) : Failed(cache[g])}
           /\ plan'.create = NumberToCreate(Counts(cache), gsb)
           /\ intact' \subseteq Present(cache) \cap current
<1>1. PICK V \in Victims(cache, NumberToDelete(Counts(cache), gsb)) :
         /\ Proceed([finished |-> FinishedIn(cache),
                     victims  |-> V,
                     create   |-> NumberToCreate(Counts(cache), gsb),
                     counts   |-> Counts(cache),
                     crashed  |-> {g \in Present(cache) : Failed(cache[g])},
                     failed   |-> FALSE])
         /\ intact' = IntactOf(V)
  BY DEF List
<1>2. V \subseteq Present(cache) /\ Present(cache) \subseteq GameServers
  BY DEF Victims, Present
<1>3. FinishedIn(cache) \subseteq GameServers
  BY DEF FinishedIn, Present
<1>4. gsb \in Builds
  BY TypeFacts DEF List, TypeOK
<1>5. NumberToCreate(Counts(cache), gsb) \in Nat
  <2>1. Counts(cache) \in IsCounts
    BY CountsTyped
  <2>2. /\ Counts(cache).pending \in Nat /\ Counts(cache).initializing \in Nat
        /\ Counts(cache).standingBy \in Nat /\ Counts(cache).active \in Nat
        /\ gsb.standingBy \in Nat /\ gsb.max \in Nat
    BY <1>4, <2>1 DEF IsCounts, Builds
  <2>. QED  BY <2>2, Naturals DEF NumberToCreate, Positive, Minimum, Waiting
<1>6. plan' = [finished |-> FinishedIn(cache),
               victims  |-> V,
               create   |-> NumberToCreate(Counts(cache), gsb),
               counts   |-> Counts(cache),
               crashed  |-> {g \in Present(cache) : Failed(cache[g])},
               failed   |-> FALSE]
  BY <1>1 DEF Proceed
<1>7. plan' \in Plans
  BY <1>2, <1>3, <1>5, <1>6, CountsTyped DEF Plans
<1>. QED  BY <1>1, <1>2, <1>6, <1>7 DEF IntactOf

LEMMA ListTypes == ASSUME TypeOK, List PROVE TypeOK'
<1>1. UNCHANGED <<build, buildCache, server, cache, current, requested,
                  underCreation, underDeletion, crashes, gsb, deaths, faults>>
  BY DEF List, copies, knowledge
<1>2. intact' \subseteq Present(server')
  BY <1>1, PlanOfList DEF TypeOK, Present
<1>3. ObjectsTyped'
  BY <1>1, <1>2 DEF TypeOK, ObjectsTyped, Present
<1>4. WorkTyped'
  BY <1>1, PlanOfList, ProceedTyped DEF List
<1>5. IsBuild(build') /\ IsBuild(buildCache') /\ IsBuild(gsb')
  BY <1>1 DEF TypeOK
<1>. QED  BY <1>1, <1>3, <1>4, <1>5, TypesTogether, TypeFacts DEF TypeOK

LEMMA DeleteFinishedTypes ==
    ASSUME TypeOK, NEW g \in GameServers,
           DeleteFinished(g) \/ DeleteFinishedFails(g)
    PROVE  TypeOK'
<1>1. /\ UNCHANGED <<build, buildCache, cache, underCreation, crashes>>
      /\ gsb' \in {gsb, NoBuild}
      /\ requested' \in BOOLEAN
  BY DEF DeleteFinished, DeleteFinishedFails, knowledge, Requeue, Stop, TypeOK
<1>2. underDeletion' \subseteq GameServers
  BY DEF DeleteFinished, DeleteFinishedFails, Expect, knowledge, TypeOK
<1>3. ObjectsTyped' /\ deaths' \in Nat
  BY <1>1, KeptTyped, RemoveTyped, TypeFacts
     DEF DeleteFinished, DeleteFinishedFails
<1>4. faults' \in [FaultKinds -> Nat]
  BY HappensTyped, TypeFacts
     DEF DeleteFinished, DeleteFinishedFails, FaultKinds
<1>5. WorkTyped'
  <2>1. CASE DeleteFinished(g)
    <3>1. [plan EXCEPT !.finished = plan.finished \ {g}] \in Plans
      BY TypeFacts, PlanChanges DEF Plans
    <3>. QED  BY <2>1, <3>1, ProceedTyped DEF DeleteFinished
  <2>2. CASE DeleteFinishedFails(g)
    BY <2>2, StopTyped DEF DeleteFinishedFails, Requeue
  <2>. QED  BY <2>1, <2>2
<1>6. IsBuild(build') /\ IsBuild(buildCache') /\ IsBuild(gsb')
  BY <1>1 DEF TypeOK, IsBuild
<1>. QED  BY <1>1, <1>2, <1>3, <1>4, <1>5, <1>6, TypesTogether DEF TypeOK

LEMMA ScaleDownTypes ==
    ASSUME TypeOK, NEW g \in GameServers, ScaleDown(g) \/ ScaleDownFails(g)
    PROVE  TypeOK'
<1>1. /\ UNCHANGED <<build, buildCache, cache, underCreation, crashes>>
      /\ step # "idle"
  BY DEF ScaleDown, ScaleDownFails, knowledge
<1>2. underDeletion' \subseteq GameServers
  BY DEF ScaleDown, ScaleDownFails, Expect, knowledge, TypeOK
<1>3. ObjectsTyped' /\ deaths' \in Nat
  BY <1>1, KeptTyped, RemoveTyped, TypeFacts DEF ScaleDown, ScaleDownFails
<1>4. faults' \in [FaultKinds -> Nat]
  BY HappensTyped, TypeFacts DEF ScaleDown, ScaleDownFails, FaultKinds
<1>5. /\ [plan EXCEPT !.victims = plan.victims \ {g}] \in Plans
      /\ [plan EXCEPT !.victims = plan.victims \ {g}, !.failed = TRUE] \in Plans
  BY TypeFacts, PlanChanges DEF Plans
<1>6. WorkTyped' /\ requested' \in BOOLEAN /\ gsb' \in {gsb, NoBuild}
  BY <1>1, <1>5, AllDoneTyped DEF ScaleDown, ScaleDownFails
<1>7. IsBuild(build') /\ IsBuild(buildCache') /\ IsBuild(gsb')
  BY <1>1, <1>6 DEF TypeOK, IsBuild
<1>. QED  BY <1>1, <1>2, <1>3, <1>4, <1>6, <1>7, TypesTogether DEF TypeOK

LEMMA CreateTypes ==
    ASSUME TypeOK, CreateFails \/ \E g \in GameServers : Create(g)
    PROVE  TypeOK'
<1>1. /\ UNCHANGED <<build, buildCache, cache, underDeletion, crashes, deaths>>
      /\ step = "create"
  BY DEF Create, CreateFails, knowledge
<1>2. underCreation' \subseteq GameServers
  BY DEF Create, CreateFails, knowledge, TypeOK
<1>3. NewServer \in Object
  BY DEF NewServer, Object, States
<1>4. ObjectsTyped'
  <2>1. CASE UNCHANGED <<server, current, intact>>
    BY <1>1, <2>1, KeptTyped
  <2>2. ASSUME NEW g \in GameServers, Write(g, NewServer) PROVE ObjectsTyped'
    BY <1>1, <1>3, <2>2, WriteTyped
  <2>3. Unused \subseteq GameServers
    BY DEF Unused
  <2>4. CASE CreateFails
    BY <2>1, <2>2, <2>3, <2>4 DEF CreateFails
  <2>5. ASSUME NEW g \in GameServers, Create(g) PROVE ObjectsTyped'
    BY <2>2, <2>5 DEF Create
  <2>. QED  BY <2>4, <2>5
<1>5. faults' \in [FaultKinds -> Nat]
  BY HappensTyped, TypeFacts DEF Create, CreateFails, FaultKinds
<1>6. /\ [plan EXCEPT !.create = @ - 1] \in Plans
      /\ [plan EXCEPT !.create = @ - 1, !.failed = TRUE] \in Plans
  <2>1. plan.create # 0 /\ plan \in Plans
    BY <1>1, TypeFacts, StepMeans
  <2>. QED  BY <2>1, CreateChanges
<1>7. WorkTyped' /\ requested' \in BOOLEAN /\ gsb' \in {gsb, NoBuild}
  BY <1>1, <1>6, AllDoneTyped DEF Create, CreateFails
<1>8. IsBuild(build') /\ IsBuild(buildCache') /\ IsBuild(gsb')
  BY <1>1, <1>7 DEF TypeOK, IsBuild
<1>. QED  BY <1>1, <1>2, <1>4, <1>5, <1>7, <1>8, TypesTogether DEF TypeOK

LEMMA TotalTyped ==
    ASSUME TypeOK
    PROVE  TotalCrashes(Cardinality(plan.crashed)) \in Nat
<1>1. Cardinality(plan.crashed) \in Nat
  BY TypeFacts, Subfinite DEF Plans
<1>. QED  BY <1>1, TypeFacts DEF TotalCrashes

LEMMA UpdateTypes ==
    ASSUME TypeOK, UpdateStatus \/ UpdateStatusFails
    PROVE  TypeOK'
<1>1. /\ UNCHANGED <<buildCache, server, cache, current, intact, underCreation,
                     underDeletion, deaths>>
      /\ Stop
      /\ step = "updateStatus"
      /\ requested' \in BOOLEAN
  BY DEF UpdateStatus, UpdateStatusFails, copies, Requeue, TypeOK
<1>2. crashes' \in Nat
  BY TypeFacts, TotalTyped DEF UpdateStatus, UpdateStatusFails
<1>3. faults' \in [FaultKinds -> Nat]
  BY HappensTyped, TypeFacts DEF UpdateStatus, UpdateStatusFails, FaultKinds
<1>4. IsBuild(build')
  <2>1. CASE build' = build
    BY <2>1 DEF TypeOK
  <2>2. CASE build # NoBuild /\ build' = Patched(crashes')
    <3>1. build \in Builds /\ gsb \in Builds
      BY <1>1, <2>2, TypeFacts DEF TypeOK
    <3>2. /\ build' \in Builds
          /\ build'.standingBy = build.standingBy /\ build'.max = build.max
      BY <1>2, <2>2, <3>1, PatchedFields, TypeFacts
    <3>. QED  BY <3>1, <3>2, <2>2, IsBuildMeans DEF TypeOK
  <2>. QED  BY <2>1, <2>2 DEF UpdateStatus, UpdateStatusFails
<1>5. IsBuild(buildCache') /\ IsBuild(gsb')
  BY <1>1 DEF TypeOK, Stop, IsBuild
<1>6. ObjectsTyped' /\ WorkTyped'
  BY <1>1, KeptTyped, StopTyped
<1>. QED  BY <1>1, <1>2, <1>3, <1>4, <1>5, <1>6, TypesTogether DEF TypeOK

LEMMA InformerTypes ==
    ASSUME TypeOK, Informer \/ Restart
    PROVE  TypeOK'
<1>1. IsBuild(build') /\ IsBuild(buildCache') /\ IsBuild(gsb')
  BY DEF TypeOK, Informer, DeliverBuild, Deliver, Restart, Stop, work, IsBuild
<1>2. ObjectsTyped'
  BY DEF TypeOK, ObjectsTyped, Informer, DeliverBuild, Deliver, Restart, Present
<1>3. WorkTyped'
  BY WorkKeptTyped, StopTyped DEF Informer, DeliverBuild, Deliver, Restart
<1>4. requested' \in BOOLEAN
  BY DEF Informer, DeliverBuild, Deliver, Restart
<1>5. /\ underCreation' \subseteq GameServers
      /\ underDeletion' \subseteq GameServers
      /\ crashes' \in Nat /\ deaths' \in Nat
  BY DEF TypeOK, Informer, DeliverBuild, Deliver, Restart, knowledge
<1>6. faults' \in [FaultKinds -> Nat]
  BY HappensTyped, TypeFacts
     DEF Informer, DeliverBuild, Deliver, Restart, FaultKinds
<1>. QED  BY <1>1, <1>2, <1>3, <1>4, <1>5, <1>6, TypesTogether

LEMMA SurroundingsTypes == ASSUME TypeOK, Surroundings PROVE TypeOK'
<1>1. Surrounded
  BY SurroundingsMean
<1>2. IsBuild(build')
  BY <1>1 DEF Surrounded, TypeOK
<1>3. ObjectsTyped'
  BY <1>1, WriteTyped, KeptTyped DEF Surrounded
<1>4. WorkTyped' /\ IsBuild(buildCache') /\ IsBuild(gsb')
  BY <1>1, WorkKeptTyped DEF Surrounded, TypeOK, work, IsBuild
<1>5. /\ UNCHANGED <<requested, underCreation, underDeletion, crashes, deaths>>
      /\ faults' \in [FaultKinds -> Nat]
  BY <1>1 DEF Surrounded, knowledge
<1>. QED  BY <1>2, <1>3, <1>4, <1>5, TypesTogether, TypeFacts DEF TypeOK

LEMMA StepTypes == TypeOK /\ [Next]_vars => TypeOK'
<1>. SUFFICES ASSUME TypeOK, [Next]_vars PROVE TypeOK'
  OBVIOUS
<1>1. CASE Controller
  BY <1>1, BeginTypes, ListTypes, DeleteFinishedTypes, ScaleDownTypes,
     CreateTypes, UpdateTypes DEF Controller
<1>2. CASE Informer \/ Restart
  BY <1>2, InformerTypes
<1>3. CASE Surroundings
  BY <1>3, SurroundingsTypes
<1>4. CASE UNCHANGED vars
  <2>1. IsBuild(build') /\ IsBuild(buildCache') /\ IsBuild(gsb')
    BY <1>4 DEF vars, copies, work, TypeOK
  <2>. QED  BY <1>4, <2>1, KeptTyped, WorkKeptTyped, TypesTogether, TypeFacts
            DEF vars, copies, knowledge, TypeOK
<1>. QED  BY <1>1, <1>2, <1>3, <1>4 DEF Next

(* Every variable keeps its type, and the plan of a reconciliation says    *)
(* which of its steps is next.                                             *)
THEOREM TypeCorrect == Spec => []TypeOK
BY InitTypes, StepTypes, PTL DEF Spec

-----------------------------------------------------------------------------
(* Crashes are counted once                                                *)

(* A reconciliation owes to crashes what it has listed as failed; a server *)
(* enters the history when its deletion leaves finished.                   *)
CountedDeaths == crashes + Cardinality(plan.crashed \ plan.finished) <= deaths

(* What any copy of the build says.                                        *)
NoMoreThan(b, n) == b # NoBuild => b.crashes <= n

CrashInv ==
    /\ CountedDeaths
    /\ NoMoreThan(build, deaths)
    /\ NoMoreThan(buildCache, deaths)
    /\ NoMoreThan(gsb, deaths)

LEMMA EmptyCount == Cardinality({}) = 0
BY FS_EmptySet

LEMMA StopCounts ==
    ASSUME TypeOK, CrashInv, Stop, crashes' = crashes, deaths' >= deaths,
           deaths' \in Nat
    PROVE  CountedDeaths' /\ NoMoreThan(gsb', deaths')
<1>1. plan'.crashed \ plan'.finished = {}
  BY NoneFields DEF Stop
<1>2. Cardinality(plan.crashed \ plan.finished) \in Nat
  BY TypeFacts, Subfinite DEF Plans
<1>3. crashes <= deaths
  BY <1>2, TypeFacts DEF CrashInv, CountedDeaths
<1>4. CountedDeaths'
  BY <1>1, <1>3, EmptyCount, TypeFacts DEF CountedDeaths
<1>5. NoMoreThan(gsb', deaths')
  BY DEF Stop, NoMoreThan
<1>. QED  BY <1>4, <1>5

LEMMA NoMoreThanGrows ==
    ASSUME NEW b, b = NoBuild \/ b \in Builds, NEW m \in Nat, NEW n \in Nat,
           m <= n, NoMoreThan(b, m)
    PROVE  NoMoreThan(b, n)
<1>1. b \in Builds => b.crashes \in Nat
  BY DEF Builds
<1>. QED  BY <1>1 DEF NoMoreThan

(* Nothing but an update writes what a build says.                         *)
LEMMA CopiesCount ==
    ASSUME TypeOK, CrashInv, UNCHANGED <<build, buildCache>>,
           gsb' \in {gsb, buildCache, NoBuild},
           deaths' >= deaths, deaths' \in Nat
    PROVE  /\ NoMoreThan(build', deaths')
           /\ NoMoreThan(buildCache', deaths')
           /\ NoMoreThan(gsb', deaths')
<1>1. /\ NoMoreThan(build, deaths') /\ NoMoreThan(buildCache, deaths')
      /\ NoMoreThan(gsb, deaths')
  BY NoMoreThanGrows, TypeFacts DEF CrashInv
<1>. QED  BY <1>1 DEF NoMoreThan

LEMMA RemoveCounts ==
    ASSUME TypeOK, NEW g, Remove(g)
    PROVE  /\ deaths' >= deaths /\ deaths' \in Nat
           /\ deaths' = IF g \in plan.finished \cap plan.crashed
                        THEN deaths + 1 ELSE deaths
BY TypeFacts DEF Remove

LEMMA ControllerCounts ==
    ASSUME TypeOK, CrashInv, Controller
    PROVE  CrashInv'
<1>1. CASE Begin
  <2>1. /\ UNCHANGED <<build, buildCache, crashes, deaths, plan>>
        /\ gsb' \in {gsb, buildCache, NoBuild}
    BY <1>1 DEF Begin, BuildGone, copies, knowledge, work
  <2>. QED  BY <2>1, CopiesCount, TypeFacts DEF CrashInv, CountedDeaths
<1>2. CASE List
  <2>1. UNCHANGED <<build, buildCache, crashes, deaths, gsb>>
    BY <1>2 DEF List, copies, knowledge
  <2>2. plan'.crashed \ plan'.finished = {}
    BY <1>2, PlanOfList DEF FinishedIn, Finished
  <2>3. crashes <= deaths
    <3>1. Cardinality(plan.crashed \ plan.finished) \in Nat
      BY TypeFacts, Subfinite DEF Plans
    <3>. QED  BY <3>1, TypeFacts DEF CrashInv, CountedDeaths
  <2>4. CountedDeaths'
    BY <2>1, <2>2, <2>3, EmptyCount, TypeFacts DEF CountedDeaths
  <2>. QED  BY <2>1, <2>4, CopiesCount, TypeFacts DEF CrashInv
<1>3. ASSUME NEW g \in GameServers, DeleteFinished(g) PROVE CrashInv'
  <2>1. UNCHANGED <<build, buildCache, crashes, gsb>>
    BY <1>3 DEF DeleteFinished
  <2>2. /\ plan' = [plan EXCEPT !.finished = plan.finished \ {g}]
        /\ g \in plan.finished
    BY <1>3 DEF DeleteFinished, Proceed
  <2>3. plan'.finished = plan.finished \ {g} /\ plan'.crashed = plan.crashed
    BY <2>2, TypeFacts, PlanChanges DEF Plans
  <2>4. /\ deaths' >= deaths /\ deaths' \in Nat
        /\ deaths' = IF g \in plan.finished \cap plan.crashed
                     THEN deaths + 1 ELSE deaths
    BY <1>3, RemoveCounts DEF DeleteFinished
  <2>. DEFINE old == plan.crashed \ plan.finished
  <2>5. IsFiniteSet(old) /\ Cardinality(old) \in Nat
    BY TypeFacts, Subfinite DEF Plans
  <2>6. plan'.crashed \ plan'.finished =
           IF g \in plan.crashed THEN old \cup {g} ELSE old
    BY <2>2, <2>3
  <2>7. Cardinality(old \cup {g}) = Cardinality(old) + 1
    BY <2>2, <2>5, FS_AddElement
  <2>8. crashes + Cardinality(old) <= deaths
    BY DEF CrashInv, CountedDeaths
  <2>9. CountedDeaths'
    <3>1. Cardinality(plan'.crashed \ plan'.finished) =
             IF g \in plan.crashed THEN Cardinality(old) + 1
                                   ELSE Cardinality(old)
      BY <2>6, <2>7
    <3>2. deaths' = IF g \in plan.crashed THEN deaths + 1 ELSE deaths
      BY <2>2, <2>4
    <3>. QED  BY <2>1, <2>5, <2>8, <3>1, <3>2, TypeFacts DEF CountedDeaths
  <2>. QED  BY <2>1, <2>4, <2>9, CopiesCount DEF CrashInv
<1>4. ASSUME NEW g \in GameServers, DeleteFinishedFails(g) PROVE CrashInv'
  <2>1. UNCHANGED <<build, buildCache, crashes>> /\ Stop
    BY <1>4 DEF DeleteFinishedFails, knowledge, Requeue
  <2>2. deaths' >= deaths /\ deaths' \in Nat
    BY <1>4, RemoveCounts, TypeFacts DEF DeleteFinishedFails
  <2>. QED  BY <2>1, <2>2, StopCounts, CopiesCount DEF CrashInv, Stop
<1>5. ASSUME NEW p \in Plans, AllDone(p), p.crashed = plan.crashed,
             p.finished = plan.finished, deaths' >= deaths, deaths' \in Nat,
             UNCHANGED <<build, buildCache, crashes>>
      PROVE  CrashInv'
  <2>1. CASE Stop
    BY <1>5, <2>1, StopCounts, CopiesCount DEF CrashInv, Stop
  <2>2. CASE plan' = p /\ gsb' = gsb
    <3>1. Cardinality(plan.crashed \ plan.finished) \in Nat
      BY TypeFacts, Subfinite DEF Plans
    <3>2. CountedDeaths'
      BY <1>5, <2>2, <3>1, TypeFacts DEF CrashInv, CountedDeaths
    <3>. QED  BY <1>5, <2>2, <3>2, CopiesCount DEF CrashInv
  <2>. QED  BY <1>5, <2>1, <2>2 DEF AllDone, Requeue, Proceed
<1>6. ASSUME NEW g \in GameServers, ScaleDown(g) \/ ScaleDownFails(g)
      PROVE  CrashInv'
  <2>1. UNCHANGED <<build, buildCache, crashes>>
    BY <1>6 DEF ScaleDown, ScaleDownFails, knowledge
  <2>2. deaths' >= deaths /\ deaths' \in Nat
    BY <1>6, RemoveCounts, TypeFacts DEF ScaleDown, ScaleDownFails
  <2>3. plan \in Plans /\ plan.victims \ {g} \in SUBSET GameServers
    BY TypeFacts DEF Plans
  <2>4. \/ AllDone([plan EXCEPT !.victims = plan.victims \ {g}])
        \/ AllDone([plan EXCEPT !.victims = plan.victims \ {g}, !.failed = TRUE])
    BY <1>6 DEF ScaleDown, ScaleDownFails
  <2>. QED  BY <1>5, <2>1, <2>2, <2>3, <2>4, PlanChanges
<1>7. ASSUME CreateFails \/ \E g \in GameServers : Create(g)
      PROVE  CrashInv'
  <2>1. /\ UNCHANGED <<build, buildCache, crashes, deaths>>
        /\ step = "create"
    BY <1>7 DEF Create, CreateFails, knowledge
  <2>2. plan.create # 0 /\ plan \in Plans
    BY <2>1, TypeFacts, StepMeans
  <2>3. \/ AllDone([plan EXCEPT !.create = @ - 1])
        \/ AllDone([plan EXCEPT !.create = @ - 1, !.failed = TRUE])
    BY <1>7 DEF Create, CreateFails
  <2>4. deaths' >= deaths /\ deaths' \in Nat
    BY <2>1, TypeFacts
  <2>5. ASSUME NEW p \in Plans, AllDone(p), p.crashed = plan.crashed,
               p.finished = plan.finished
        PROVE  CrashInv'
    BY <1>5, <2>1, <2>4, <2>5
  <2>. QED  BY <2>2, <2>3, <2>5, CreateChanges
<1>8. CASE UpdateStatus \/ UpdateStatusFails
  <2>1. UNCHANGED <<buildCache, deaths>> /\ Stop /\ step = "updateStatus"
    BY <1>8 DEF UpdateStatus, UpdateStatusFails, copies, Requeue
  <2>2. plan.finished = {} /\ gsb \in Builds
    BY <2>1, StepMeans, TypeFacts DEF TypeOK
  <2>. DEFINE total == TotalCrashes(Cardinality(plan.crashed))
  <2>3. total <= deaths /\ crashes <= deaths /\ total \in Nat
    <3>1. plan.crashed \ plan.finished = plan.crashed
      BY <2>2
    <3>2. Cardinality(plan.crashed) \in Nat
      BY TypeFacts, Subfinite DEF Plans
    <3>. QED  BY <3>1, <3>2, TypeFacts DEF CrashInv, CountedDeaths, TotalCrashes
  <2>4. crashes' \in {crashes, total}
    BY <1>8 DEF UpdateStatus, UpdateStatusFails
  <2>5. build' = build \/ (build # NoBuild /\ build' = Patched(total))
    BY <1>8 DEF UpdateStatus, UpdateStatusFails
  <2>6. NoMoreThan(build', deaths')
    <3>1. CASE build' = build
      BY <2>1, <3>1 DEF CrashInv, NoMoreThan
    <3>2. CASE build # NoBuild /\ build' = Patched(total)
      BY <2>1, <2>2, <2>3, <3>2, PatchedFields, TypeFacts
         DEF CrashInv, NoMoreThan
    <3>. QED  BY <2>5, <3>1, <3>2
  <2>7. CountedDeaths'
    <3>1. plan'.crashed \ plan'.finished = {}
      BY <2>1, NoneFields DEF Stop
    <3>. QED  BY <2>1, <2>3, <2>4, <3>1, EmptyCount, TypeFacts DEF CountedDeaths
  <2>8. NoMoreThan(buildCache', deaths') /\ NoMoreThan(gsb', deaths')
    BY <2>1 DEF CrashInv, NoMoreThan, Stop
  <2>. QED  BY <2>6, <2>7, <2>8 DEF CrashInv
<1>. QED  BY <1>1, <1>2, <1>3, <1>4, <1>6, <1>7, <1>8 DEF Controller

LEMMA StepCounts == TypeOK /\ CrashInv /\ [Next]_vars => CrashInv'
<1>. SUFFICES ASSUME TypeOK, CrashInv, [Next]_vars PROVE CrashInv'
  OBVIOUS
<1>1. CASE Controller
  BY <1>1, ControllerCounts
<1>2. CASE Informer
  BY <1>2 DEF Informer, DeliverBuild, Deliver, knowledge, work, CrashInv,
              CountedDeaths, NoMoreThan
<1>3. CASE Restart
  <2>1. /\ UNCHANGED <<build, deaths>> /\ buildCache' = build
        /\ Stop /\ crashes' = 0
    BY <1>3 DEF Restart
  <2>2. plan'.crashed \ plan'.finished = {}
    BY <2>1, NoneFields DEF Stop
  <2>. QED  BY <2>1, <2>2, EmptyCount, TypeFacts
            DEF CrashInv, CountedDeaths, NoMoreThan, Stop
<1>4. CASE Surroundings
  BY <1>4, SurroundingsMean
     DEF Surrounded, knowledge, work, CrashInv, CountedDeaths, NoMoreThan
<1>5. CASE UNCHANGED vars
  BY <1>5 DEF vars, copies, knowledge, work, CrashInv, CountedDeaths, NoMoreThan
<1>. QED  BY <1>1, <1>2, <1>3, <1>4, <1>5 DEF Next

LEMMA InitCounts == Init => CrashInv
<1>. SUFFICES ASSUME Init PROVE CrashInv
  OBVIOUS
<1>1. build.crashes = 0
  BY NewBuildTyped DEF Init
<1>2. plan.crashed \ plan.finished = {}
  BY NoneFields DEF Init
<1>. QED  BY <1>1, <1>2, EmptyCount DEF Init, CrashInv, CountedDeaths, NoMoreThan

(* However often a deletion is repeated, a crash is counted at most once,  *)
(* by the operator and by the status that the build is judged by.          *)
THEOREM CrashesCorrect == Spec => []CrashesCountedOnce
<1>1. TypeOK /\ CrashInv => CrashesCountedOnce
  <2>. SUFFICES ASSUME TypeOK, CrashInv PROVE CrashesCountedOnce
    OBVIOUS
  <2>1. Cardinality(plan.crashed \ plan.finished) \in Nat
    BY TypeFacts, Subfinite DEF Plans
  <2>. QED  BY <2>1, TypeFacts
            DEF CrashInv, CountedDeaths, NoMoreThan, CrashesCountedOnce
<1>. QED  BY <1>1, TypeCorrect, InitCounts, StepCounts, PTL DEF Spec

-----------------------------------------------------------------------------
(* Unhealthy is final                                                      *)

(* The health of any copy of the build follows from its crashes.           *)
Judged(b) ==
    b # NoBuild =>
       /\ b.health = "Unhealthy" => /\ CrashesToMarkUnhealthy # -1
                                    /\ b.crashes >= CrashesToMarkUnhealthy
       /\ /\ CrashesToMarkUnhealthy > 0
          /\ b.crashes >= CrashesToMarkUnhealthy
          => b.health = "Unhealthy"

(* When the build is Unhealthy the operator knows it: it remembers the     *)
(* crashes, or, after a restart, its copy of the build shows them.         *)
Remembered ==
    (build # NoBuild /\ build.health = "Unhealthy") =>
       \/ crashes >= CrashesToMarkUnhealthy
       \/ buildCache # NoBuild /\ Abandoned(buildCache) /\ gsb = NoBuild

HealthInv ==
    /\ Judged(build) /\ Judged(buildCache)
    /\ gsb # NoBuild => Judged(gsb) /\ ~ Abandoned(gsb)
    /\ Remembered

(* The steps that leave the stored build and what is known of it alone.    *)
LEMMA HealthKept ==
    ASSUME TypeOK, HealthInv, UNCHANGED <<build, buildCache, crashes>>,
           gsb' \in {gsb, NoBuild}
    PROVE  HealthInv'
<1>1. Remembered'
  BY DEF HealthInv, Remembered, Abandoned
<1>. QED  BY <1>1 DEF HealthInv, Judged, Abandoned

(* The status that an update writes.                                       *)
LEMMA PatchedHealth ==
    ASSUME TypeOK, HealthInv, build # NoBuild, gsb # NoBuild,
           NEW total \in Nat, total >= crashes
    PROVE  /\ Judged(Patched(total))
           /\ build.health = "Unhealthy" => Patched(total).health = "Unhealthy"
           /\ Patched(total).health = "Unhealthy" =>
                 total >= CrashesToMarkUnhealthy
<1>1. /\ build \in Builds /\ gsb \in Builds /\ plan \in Plans
      /\ crashes \in Nat
  BY TypeFacts
<1>2. build.crashes \in Nat /\ gsb.crashes \in Nat
  BY <1>1 DEF Builds
<1>3. gsb.health # "Unhealthy"
  BY DEF HealthInv, Judged, Abandoned
<1>4. Judged(build) /\ Judged(gsb)
  BY DEF HealthInv
<1>5. build.health = "Unhealthy" =>
         crashes >= CrashesToMarkUnhealthy /\ CrashesToMarkUnhealthy # -1
  BY <1>4 DEF HealthInv, Remembered, Judged
<1>6. build.health = "Unhealthy" => Health(total) = "Unhealthy"
  BY <1>1, <1>5, Naturals DEF Health
<1>7. Health(total) = "Unhealthy" => /\ total >= CrashesToMarkUnhealthy
                                     /\ CrashesToMarkUnhealthy # -1
  BY DEF Health
<1>8. total >= CrashesToMarkUnhealthy /\ CrashesToMarkUnhealthy > 0
         => Health(total) = "Unhealthy"
  BY Naturals DEF Health
<1>9. /\ Patched(total).crashes =
            IF total = gsb.crashes THEN build.crashes ELSE total
      /\ Patched(total).health =
            IF Health(total) = gsb.health THEN build.health ELSE Health(total)
  BY <1>1, PatchedFields
<1>10. Patched(total).health = "Unhealthy" <=> Health(total) = "Unhealthy"
  BY <1>3, <1>6, <1>9
<1>11. Judged(Patched(total))
  <2>1. CASE total = gsb.crashes
    <3>1. Patched(total).health = "Unhealthy" =>
             /\ CrashesToMarkUnhealthy # -1
             /\ build.crashes >= CrashesToMarkUnhealthy
      BY <1>2, <1>3, <1>4, <1>7, <1>10, <2>1, Naturals DEF Judged
    <3>2. CrashesToMarkUnhealthy > 0 /\ build.crashes >= CrashesToMarkUnhealthy
             => Patched(total).health = "Unhealthy"
      BY <1>4, <1>6, <1>10 DEF Judged
    <3>. QED  BY <1>9, <2>1, <3>1, <3>2 DEF Judged
  <2>2. CASE total # gsb.crashes
    BY <1>7, <1>8, <1>9, <1>10, <2>2 DEF Judged
  <2>. QED  BY <2>1, <2>2
<1>. QED  BY <1>6, <1>7, <1>10, <1>11

LEMMA UpdateHealth ==
    ASSUME TypeOK, HealthInv, UpdateStatus \/ UpdateStatusFails
    PROVE  /\ HealthInv'
           /\ NoBuild \notin {build, build'} /\ build.health = "Unhealthy"
                 => build'.health = "Unhealthy"
<1>1. /\ buildCache' = buildCache /\ gsb' = NoBuild
      /\ gsb # NoBuild
  BY DEF UpdateStatus, UpdateStatusFails, copies, Requeue, Stop, TypeOK
<1>. DEFINE total == TotalCrashes(Cardinality(plan.crashed))
<1>2. total \in Nat /\ crashes \in Nat /\ total >= crashes
  <2>1. Cardinality(plan.crashed) \in Nat
    BY TypeFacts, Subfinite DEF Plans
  <2>. QED  BY <2>1, TypeFacts DEF TotalCrashes
<1>3. \/ UNCHANGED <<build, crashes>>
      \/ build' = build /\ crashes' = total
      \/ build # NoBuild /\ build' = Patched(total) /\ crashes' = total
  BY DEF UpdateStatus, UpdateStatusFails
<1>. HIDE DEF total
<1>4. CASE UNCHANGED <<build, crashes>>
  BY <1>1, <1>4, HealthKept
<1>5. CASE build' = build /\ crashes' = total
  <2>1. Remembered'
    BY <1>1, <1>2, <1>5, Naturals DEF HealthInv, Remembered, Abandoned
  <2>. QED  BY <1>1, <1>5, <2>1 DEF HealthInv, Judged
<1>6. CASE build # NoBuild /\ build' = Patched(total) /\ crashes' = total
  <2>1. /\ Judged(build')
        /\ build.health = "Unhealthy" => build'.health = "Unhealthy"
        /\ build'.health = "Unhealthy" => crashes' >= CrashesToMarkUnhealthy
    BY <1>1, <1>2, <1>6, PatchedHealth
  <2>2. Judged(build)'
    BY <2>1 DEF Judged
  <2>3. Remembered'
    BY <2>1 DEF Remembered
  <2>. QED  BY <1>1, <2>1, <2>2, <2>3 DEF HealthInv, Judged
<1>. QED  BY <1>3, <1>4, <1>5, <1>6

LEMMA StepHealth ==
    ASSUME TypeOK, HealthInv, [Next]_vars
    PROVE  /\ HealthInv'
           /\ NoBuild \notin {build, build'} /\ build.health = "Unhealthy"
                 => build'.health = "Unhealthy"
<1>1. CASE Begin
  <2>1. /\ UNCHANGED <<build, buildCache, crashes>>
        /\ \/ gsb' = gsb
           \/ /\ gsb' = buildCache /\ buildCache # NoBuild
              /\ ~ Abandoned(buildCache) /\ gsb = NoBuild
    BY <1>1 DEF Begin, BuildGone, copies, knowledge, work, TypeOK
  <2>2. Remembered'
    BY <2>1 DEF HealthInv, Remembered, Abandoned
  <2>. QED  BY <2>1, <2>2 DEF HealthInv, Judged, Abandoned
<1>2. CASE List \/ CreateFails
           \/ \E g \in GameServers : \/ DeleteFinished(g)
                                     \/ DeleteFinishedFails(g)
                                     \/ ScaleDown(g)
                                     \/ ScaleDownFails(g)
                                     \/ Create(g)
  <2>1. UNCHANGED <<build, buildCache, crashes>> /\ gsb' \in {gsb, NoBuild}
    BY <1>2 DEF List, CreateFails, DeleteFinished, DeleteFinishedFails,
                ScaleDown, ScaleDownFails, Create, AllDone, Requeue, Stop,
                copies, knowledge
  <2>. QED  BY <2>1, HealthKept
<1>3. CASE UpdateStatus \/ UpdateStatusFails
  BY <1>3, UpdateHealth
<1>4. CASE \E g \in GameServers : Deliver(g)
  <2>1. UNCHANGED <<build, buildCache, crashes, gsb>>
    BY <1>4 DEF Deliver, knowledge, work
  <2>. QED  BY <2>1, HealthKept
<1>5. CASE DeliverBuild \/ Restart
  <2>1. build' = build /\ buildCache' = build
    BY <1>5 DEF DeliverBuild, Restart
  <2>2. \/ UNCHANGED <<crashes, gsb>>
        \/ gsb' = NoBuild
    BY <1>5 DEF DeliverBuild, Restart, Stop, knowledge, work
  <2>3. build # NoBuild /\ build.health = "Unhealthy" => Abandoned(build)
    BY DEF HealthInv, Judged, Abandoned
  <2>4. Remembered'
    BY <2>1, <2>2, <2>3 DEF HealthInv, Remembered, Abandoned
  <2>. QED  BY <2>1, <2>2, <2>4 DEF HealthInv, Judged, Abandoned
<1>6. CASE Surroundings
  <2>1. Surrounded
    BY <1>6, SurroundingsMean
  <2>2. UNCHANGED <<buildCache, crashes, gsb>>
    BY <2>1 DEF Surrounded, knowledge, work
  <2>3. \/ build' = build
        \/ build' = NoBuild
        \/ /\ NoBuild \notin {build, build'}
           /\ build'.crashes = build.crashes
           /\ build'.health = build.health
    BY <2>1 DEF Surrounded
  <2>4. Remembered' /\ Judged(build)'
    BY <2>2, <2>3 DEF HealthInv, Remembered, Judged, Abandoned
  <2>. QED  BY <2>2, <2>3, <2>4 DEF HealthInv, Judged, Abandoned
<1>7. CASE UNCHANGED vars
  BY <1>7, HealthKept DEF vars, copies, knowledge, work
<1>. QED  BY <1>1, <1>2, <1>3, <1>4, <1>5, <1>6, <1>7
          DEF Next, Controller, Informer

LEMMA InitHealth == Init => HealthInv
<1>. SUFFICES ASSUME Init PROVE HealthInv
  OBVIOUS
<1>1. build.crashes = 0 /\ build.health = "" /\ build.health # "Unhealthy"
  BY NewBuildTyped DEF Init
<1>2. buildCache = NoBuild /\ gsb = NoBuild
  BY DEF Init
<1>3. ~ (CrashesToMarkUnhealthy > 0 /\ build.crashes >= CrashesToMarkUnhealthy)
  <2>1. \A n \in Int : ~ (n > 0 /\ 0 >= n)
    OBVIOUS
  <2>2. CrashesToMarkUnhealthy \in Int
    BY Naturals
  <2>3. build.crashes = 0
    BY <1>1
  <2>. QED  BY <2>1, <2>2, <2>3
<1>4. Judged(build)
  BY <1>1, <1>3 DEF Judged
<1>5. Judged(buildCache)
  BY <1>2 DEF Judged
<1>6. Remembered
  BY <1>1 DEF Remembered
<1>. QED  BY <1>2, <1>4, <1>5, <1>6 DEF HealthInv

(* A build once Unhealthy stays Unhealthy, although status patches are     *)
(* made from old copies and a restart forgets the crashes.                 *)
THEOREM HealthCorrect == Spec => UnhealthyIsFinal
<1>1. TypeOK /\ HealthInv /\ [Next]_vars => HealthInv'
  BY StepHealth
<1>2. TypeOK /\ HealthInv /\ [Next]_vars =>
         [NoBuild \notin {build, build'} =>
            (build.health = "Unhealthy" => build'.health = "Unhealthy")]_vars
  BY StepHealth
<1>3. Spec => [](TypeOK /\ HealthInv)
  BY <1>1, InitHealth, TypeCorrect, PTL DEF Spec
<1>. QED  BY <1>2, <1>3, PTL DEF Spec, UnhealthyIsFinal

-----------------------------------------------------------------------------
(* The max is respected                                                    *)

OneMax == \A s, t \in Specs : s.max = t.max
Most   == (CHOOSE s \in Specs : TRUE).max

LEMMA MostMeans ==
    ASSUME OneMax
    PROVE  Most \in Nat /\ \A s \in Specs : s.max = Most
<1>1. (CHOOSE s \in Specs : TRUE) \in Specs
  BY BuildAssumption
<1>. QED  BY <1>1, BuildAssumption DEF OneMax, Most

MayCountIn(list) == {g \in GameServers : MayCount(list[g])}

(* Nothing counts any more when the cache shows its end; what may count is *)
(* in the cache or awaited there; a reconciliation looks at a cache that   *)
(* shows all that was created; and it creates no more than there is room   *)
(* for, when what it has found finished is gone.                           *)
MaxInv ==
    /\ \A g \in GameServers :
          /\ HasReported(server[g]) /\ HasReported(cache[g])
          /\ cache[g].state \in {"GameCompleted", "Crashed"}
                => ~ MayCount(server[g])
    /\ step = "list" => underCreation = {}
    /\ faults.lost = 0 =>
          /\ MayCountIn(server) \subseteq MayCountIn(cache) \cup underCreation
          /\ Cardinality(MayCountIn(server)) <= Most
          /\ Cardinality(MayCountIn(server) \ plan.finished) + plan.create
                <= Most

LEMMA SmallerSet ==
    ASSUME NEW T \in SUBSET GameServers, NEW S \in SUBSET T
    PROVE  Cardinality(S) <= Cardinality(T)
BY Subfinite, FS_Subset

LEMMA CountsMean ==
    ASSUME NEW list
    PROVE  /\ Counts(list).pending =
                 Cardinality({g \in Present(list) : Pending(list[g])})
           /\ Counts(list).initializing =
                 Cardinality({g \in Present(list) :
                                Healthy(list[g], "Initializing")})
           /\ Counts(list).standingBy =
                 Cardinality({g \in Present(list) :
                                Healthy(list[g], "StandingBy")})
           /\ Counts(list).active =
                 Cardinality({g \in Present(list) : Healthy(list[g], "Active")})
BY DEF Counts, NumberOf

LEMMA UnionAtMost ==
    ASSUME NEW S \in SUBSET GameServers, NEW T \in SUBSET GameServers
    PROVE  Cardinality(S \cup T) <= Cardinality(S) + Cardinality(T)
<1>1. Cardinality(S \cup T) =
         Cardinality(S) + Cardinality(T) - Cardinality(S \cap T)
  BY Subfinite, FS_Union
<1>2. /\ Cardinality(S) \in Nat /\ Cardinality(T) \in Nat
      /\ Cardinality(S \cap T) \in Nat
  BY Subfinite
<1>. QED  BY <1>1, <1>2

(* A server that may count is counted, or finished.                        *)
LEMMA CountedOrFinished ==
    ASSUME NEW list \in [GameServers -> Object \cup {NoServer}],
           \A g \in GameServers : HasReported(list[g])
    PROVE  Cardinality(MayCountIn(list) \ FinishedIn(list)) <=
              Waiting(Counts(list)) + Counts(list).active
<1>. DEFINE P == {g \in Present(list) : Pending(list[g])}
            I == {g \in Present(list) : Healthy(list[g], "Initializing")}
            S == {g \in Present(list) : Healthy(list[g], "StandingBy")}
            A == {g \in Present(list) : Healthy(list[g], "Active")}
            R == MayCountIn(list) \ FinishedIn(list)
<1>1. /\ P \in SUBSET GameServers /\ I \in SUBSET GameServers
      /\ S \in SUBSET GameServers /\ A \in SUBSET GameServers
  BY DEF Present
<1>2. ASSUME NEW g \in R PROVE g \in P \cup I \cup (S \cup A)
  <2>1. g \in GameServers /\ MayCount(list[g])
    BY DEF MayCountIn
  <2>2. list[g] \in Object /\ g \in Present(list)
    <3>1. ~ MayCount(NoServer)
      BY DEF MayCount, NoServer
    <3>. QED  BY <2>1, <3>1 DEF Present
  <2>3. ~ Failed(list[g])
    BY <2>2 DEF FinishedIn, Finished
  <2>4. /\ list[g].health \in {"", "Healthy"}
        /\ list[g].state # "" => list[g].health = "Healthy"
    BY <2>1, <2>2, <2>3 DEF Failed, Object, HasReported, MayCount
  <2>. QED  BY <2>1, <2>2, <2>4 DEF Pending, Healthy, MayCount
<1>3. /\ Cardinality(P) \in Nat /\ Cardinality(I) \in Nat
      /\ Cardinality(S) \in Nat /\ Cardinality(A) \in Nat
  BY <1>1, Subfinite
<1>4. Waiting(Counts(list)) + Counts(list).active =
         Cardinality(P) + Cardinality(I) + Cardinality(S) + Cardinality(A)
  BY CountsMean DEF Waiting
<1>. HIDE DEF P, I, S, A
<1>5. Cardinality(R) <= Cardinality(P \cup I \cup (S \cup A))
  BY <1>1, <1>2, SmallerSet
<1>6. /\ Cardinality(P \cup I \cup (S \cup A)) <=
            Cardinality(P \cup I) + Cardinality(S \cup A)
      /\ Cardinality(P \cup I) <= Cardinality(P) + Cardinality(I)
      /\ Cardinality(S \cup A) <= Cardinality(S) + Cardinality(A)
  <2>1. P \cup I \in SUBSET GameServers /\ S \cup A \in SUBSET GameServers
    BY <1>1
  <2>. QED  BY <1>1, <2>1, UnionAtMost
<1>7. /\ Cardinality(R) \in Nat
      /\ Cardinality(P \cup I \cup (S \cup A)) \in Nat
      /\ Cardinality(P \cup I) \in Nat /\ Cardinality(S \cup A) \in Nat
  BY <1>1, Subfinite DEF MayCountIn
<1>. QED  BY <1>3, <1>4, <1>5, <1>6, <1>7

(* What a plan creates has room.                                           *)
LEMMA RoomToCreate ==
    ASSUME OneMax, TypeOK, gsb # NoBuild,
           NumberToCreate(Counts(cache), gsb) > 0
    PROVE  NumberToCreate(Counts(cache), gsb) <=
              Most - (Waiting(Counts(cache)) + Counts(cache).active)
<1>1. Counts(cache) \in IsCounts
  BY CountsTyped
<1>2. /\ Counts(cache).pending \in Nat /\ Counts(cache).initializing \in Nat
      /\ Counts(cache).standingBy \in Nat /\ Counts(cache).active \in Nat
  BY <1>1 DEF IsCounts
<1>3. /\ gsb.standingBy \in Nat /\ gsb.max \in Nat
      /\ [standingBy |-> gsb.standingBy, max |-> gsb.max] \in Specs
  BY IsBuildMeans DEF TypeOK, Builds
<1>4. gsb.max = Most
  BY <1>3, MostMeans
<1>. QED  BY <1>2, <1>3, <1>4, Naturals
          DEF NumberToCreate, Positive, Minimum, Waiting

(* When the servers that may count do not become more, nor what is awaited *)
(* less, nor the plan larger.                                              *)
LEMMA MaxKept ==
    ASSUME OneMax, TypeOK, MaxInv, cache' = cache,
           MayCountIn(server') \subseteq MayCountIn(server),
           \A g \in GameServers : HasReported(server'[g]),
           underCreation' = underCreation,
           step' = "list" => step = "list",
           faults'.lost = 0 => faults.lost = 0,
           \/ plan'.finished = plan.finished /\ plan'.create = plan.create
           \/ plan' = NoPlan
    PROVE  MaxInv'
<1>1. \A g \in GameServers : MayCount(server'[g]) => MayCount(server[g])
  BY DEF MayCountIn
<1>2. MayCountIn(server) \in SUBSET GameServers
  BY DEF MayCountIn
<1>3. /\ Cardinality(MayCountIn(server')) <= Cardinality(MayCountIn(server))
      /\ Cardinality(MayCountIn(server') \ plan.finished) <=
            Cardinality(MayCountIn(server) \ plan.finished)
  BY <1>2, SmallerSet
<1>4. /\ Cardinality(MayCountIn(server')) \in Nat
      /\ Cardinality(MayCountIn(server)) \in Nat
      /\ Cardinality(MayCountIn(server') \ plan.finished) \in Nat
      /\ Cardinality(MayCountIn(server) \ plan.finished) \in Nat
  BY Subfinite DEF MayCountIn
<1>5. plan.create \in Nat /\ Most \in Nat
  BY TypeFacts, MostMeans DEF Plans
<1>6. ASSUME faults'.lost = 0
      PROVE  /\ Cardinality(MayCountIn(server')) <= Most
             /\ Cardinality(MayCountIn(server') \ plan'.finished) + plan'.create
                   <= Most
  <2>1. /\ Cardinality(MayCountIn(server)) <= Most
        /\ Cardinality(MayCountIn(server) \ plan.finished) + plan.create <= Most
    BY <1>6 DEF MaxInv
  <2>2. Cardinality(MayCountIn(server')) <= Most
    BY <1>3, <1>4, <1>5, <2>1
  <2>3. CASE plan'.finished = plan.finished /\ plan'.create = plan.create
    BY <1>3, <1>4, <1>5, <2>1, <2>2, <2>3
  <2>4. CASE plan' = NoPlan
    <3>1. MayCountIn(server') \ plan'.finished = MayCountIn(server')
      BY <2>4, NoneFields
    <3>. QED  BY <1>4, <2>2, <2>4, <3>1, NoneFields
  <2>. QED  BY <2>2, <2>3, <2>4
<1>7. (MayCountIn(server))' = MayCountIn(server')
  BY DEF MayCountIn
<1>8. faults'.lost = 0 =>
         MayCountIn(server') \subseteq MayCountIn(cache) \cup underCreation
  BY DEF MaxInv
<1>. QED  BY <1>1, <1>6, <1>7, <1>8 DEF MaxInv, MayCountIn

LEMMA EndedMayNotCount ==
    /\ ~ MayCount(NoServer) /\ HasReported(NoServer)
    /\ HasReported(NewServer) /\ MayCount(NewServer)
    /\ NoServer.state \notin {"GameCompleted", "Crashed"}
BY DEF MayCount, HasReported, NoServer, NewServer

LEMMA BeginMax == ASSUME OneMax, TypeOK, MaxInv, Begin PROVE MaxInv'
<1>1. UNCHANGED <<server, cache, faults, plan>>
  BY DEF Begin, BuildGone, copies, work
<1>2. \/ underCreation' = underCreation /\ step' # "list"
      \/ /\ underCreation \subseteq Present(cache)
         /\ underCreation' = {}
      \/ /\ step' # "list"
         /\ \E seen \in SUBSET (underCreation \cap Present(cache)) :
               underCreation' = underCreation \ seen
  BY DEF Begin, BuildGone, work, knowledge, CreationsSeen, CreationsMissing
<1>3. underCreation \ underCreation' \subseteq Present(cache)
  BY <1>2
<1>4. step' = "list" => underCreation' = {}
  BY <1>2
<1>5. ASSUME NEW g \in MayCountIn(server), g \in Present(cache)
      PROVE  g \in MayCountIn(cache)
  <2>1. /\ g \in GameServers /\ MayCount(server[g])
        /\ cache[g] \in Object
    BY <1>5 DEF MayCountIn, Present, TypeOK
  <2>2. cache[g].state \notin {"GameCompleted", "Crashed"}
    BY <2>1 DEF MaxInv
  <2>. QED  BY <2>1, <2>2 DEF MayCountIn, MayCount, Object, States
<1>6. faults.lost = 0 =>
         MayCountIn(server) \subseteq MayCountIn(cache) \cup underCreation'
  BY <1>3, <1>5 DEF MaxInv
<1>. QED  BY <1>1, <1>4, <1>6 DEF MaxInv, MayCountIn

LEMMA ListMax == ASSUME OneMax, TypeOK, MaxInv, List PROVE MaxInv'
<1>1. /\ UNCHANGED <<server, cache, underCreation, faults, gsb>>
      /\ step = "list" /\ underCreation = {}
  BY DEF List, copies, knowledge, MaxInv
<1>2. step' # "list"
  BY NextStepTyped DEF List, Proceed
<1>3. /\ plan'.finished = FinishedIn(cache)
      /\ plan'.create = NumberToCreate(Counts(cache), gsb)
      /\ plan' \in Plans
  BY PlanOfList
<1>4. plan'.create \in Nat /\ Most \in Nat
  BY <1>3, MostMeans DEF Plans
<1>5. ASSUME faults.lost = 0
      PROVE  Cardinality(MayCountIn(server) \ plan'.finished) + plan'.create
                <= Most
  <2>. DEFINE Left == MayCountIn(server) \ FinishedIn(cache)
              Seen == MayCountIn(cache) \ FinishedIn(cache)
  <2>1. /\ MayCountIn(server) \subseteq MayCountIn(cache)
        /\ Cardinality(MayCountIn(server)) <= Most
    BY <1>1, <1>5 DEF MaxInv
  <2>2. /\ MayCountIn(server) \in SUBSET GameServers
        /\ Seen \in SUBSET GameServers /\ Left \in SUBSET Seen
        /\ Left \in SUBSET MayCountIn(server)
    BY <2>1 DEF MayCountIn
  <2>. HIDE DEF Left, Seen
  <2>3. /\ Cardinality(Left) <= Cardinality(Seen)
        /\ Cardinality(Left) <= Cardinality(MayCountIn(server))
    BY <2>2, SmallerSet
  <2>4. /\ Cardinality(Left) \in Nat /\ Cardinality(Seen) \in Nat
        /\ Cardinality(MayCountIn(server)) \in Nat
    <3>1. Left \in SUBSET GameServers
      BY <2>2
    <3>. QED  BY <2>2, <3>1, Subfinite
  <2>5. CASE plan'.create = 0
    <3>1. Cardinality(Left) <= Most
      BY <1>4, <2>1, <2>3, <2>4
    <3>2. MayCountIn(server) \ plan'.finished = Left
      BY <1>3 DEF Left
    <3>. QED  BY <1>4, <2>4, <2>5, <3>1, <3>2
  <2>6. CASE plan'.create > 0
    <3>. DEFINE seen == Waiting(Counts(cache)) + Counts(cache).active
    <3>1. Cardinality(Seen) <= seen
      <4>1. /\ cache \in [GameServers -> Object \cup {NoServer}]
            /\ \A g \in GameServers : HasReported(cache[g])
        BY DEF TypeOK, MaxInv
      <4>. QED  BY <4>1, CountedOrFinished DEF Seen
    <3>2. gsb # NoBuild
      BY <1>1 DEF TypeOK
    <3>3. plan'.create <= Most - seen
      BY <1>3, <2>6, <3>2, RoomToCreate
    <3>4. seen \in Nat
      <4>1. Counts(cache) \in IsCounts
        BY CountsTyped
      <4>. QED  BY <4>1 DEF IsCounts, Waiting
    <3>5. MayCountIn(server) \ plan'.finished = Left
      BY <1>3 DEF Left
    <3>. HIDE DEF seen
    <3>. QED  BY <1>4, <2>3, <2>4, <3>1, <3>3, <3>4, <3>5
  <2>. QED  BY <1>4, <2>5, <2>6
<1>. QED  BY <1>1, <1>2, <1>5 DEF MaxInv, MayCountIn

(* What is gone does not count.                                            *)
LEMMA RemoveMax ==
    ASSUME TypeOK, MaxInv, NEW g \in GameServers, Remove(g)
    PROVE  /\ MayCountIn(server') = MayCountIn(server) \ {g}
           /\ \A h \in GameServers : HasReported(server'[h])
<1>1. server' = [server EXCEPT ![g] = NoServer]
  BY DEF Remove, Write
<1>2. \A h \in GameServers :
         server'[h] = IF h = g THEN NoServer ELSE server[h]
  BY <1>1 DEF TypeOK
<1>. QED  BY <1>2, EndedMayNotCount DEF MayCountIn, MaxInv

LEMMA DeleteFinishedMax ==
    ASSUME OneMax, TypeOK, MaxInv, NEW g \in GameServers,
           DeleteFinished(g) \/ DeleteFinishedFails(g)
    PROVE  MaxInv'
<1>1. CASE DeleteFinished(g)
  <2>1. /\ UNCHANGED <<cache, underCreation, faults>> /\ Remove(g)
        /\ plan' = [plan EXCEPT !.finished = plan.finished \ {g}]
        /\ g \in plan.finished /\ step' # "list"
    BY <1>1, NextStepTyped DEF DeleteFinished, Proceed
  <2>2. plan'.finished = plan.finished \ {g} /\ plan'.create = plan.create
    BY <2>1, TypeFacts, PlanChanges DEF Plans
  <2>3. /\ MayCountIn(server') = MayCountIn(server) \ {g}
        /\ \A h \in GameServers : HasReported(server'[h])
    BY <2>1, RemoveMax
  <2>4. MayCountIn(server') \ plan'.finished =
           MayCountIn(server) \ plan.finished
    BY <2>1, <2>2, <2>3
  <2>5. Cardinality(MayCountIn(server')) <= Cardinality(MayCountIn(server))
    <3>1. MayCountIn(server) \in SUBSET GameServers
      BY DEF MayCountIn
    <3>. QED  BY <2>3, <3>1, SmallerSet
  <2>6. /\ Cardinality(MayCountIn(server')) \in Nat
        /\ Cardinality(MayCountIn(server)) \in Nat /\ Most \in Nat
    BY Subfinite, MostMeans DEF MayCountIn
  <2>7. faults.lost = 0 =>
           /\ MayCountIn(server') \subseteq MayCountIn(cache) \cup underCreation
           /\ Cardinality(MayCountIn(server')) <= Most
           /\ Cardinality(MayCountIn(server') \ plan'.finished) + plan'.create
                 <= Most
    <3>. SUFFICES ASSUME faults.lost = 0
                  PROVE  /\ MayCountIn(server') \subseteq
                               MayCountIn(cache) \cup underCreation
                         /\ Cardinality(MayCountIn(server')) <= Most
                         /\ Cardinality(MayCountIn(server') \ plan'.finished)
                               + plan'.create <= Most
      OBVIOUS
    <3>1. /\ MayCountIn(server) \subseteq MayCountIn(cache) \cup underCreation
          /\ Cardinality(MayCountIn(server)) <= Most
          /\ Cardinality(MayCountIn(server) \ plan.finished) + plan.create
                <= Most
      BY DEF MaxInv
    <3>2. Cardinality(MayCountIn(server')) <= Most
      BY <2>5, <2>6, <3>1
    <3>. QED  BY <2>2, <2>3, <2>4, <3>1, <3>2
  <2>8. \A h \in GameServers : MayCount(server'[h]) => MayCount(server[h])
    BY <2>3 DEF MayCountIn
  <2>9. (MayCountIn(server))' = MayCountIn(server')
    BY DEF MayCountIn
  <2>. QED  BY <2>1, <2>3, <2>7, <2>8, <2>9 DEF MaxInv, MayCountIn
<1>2. CASE DeleteFinishedFails(g)
  <2>1. /\ UNCHANGED <<cache, underCreation>> /\ plan' = NoPlan
        /\ step' = "idle"
    BY <1>2 DEF DeleteFinishedFails, knowledge, Requeue, Stop
  <2>2. faults'.lost = 0 => faults.lost = 0
    BY <1>2, HappensTyped, TypeFacts DEF DeleteFinishedFails, FaultKinds
  <2>3. /\ MayCountIn(server') \subseteq MayCountIn(server)
        /\ \A h \in GameServers : HasReported(server'[h])
    BY <1>2, RemoveMax DEF DeleteFinishedFails, MaxInv
  <2>. QED  BY <2>1, <2>2, <2>3, MaxKept
<1>. QED  BY <1>1, <1>2

(* The parallel requests leave the rest of the plan alone.                 *)
LEMMA AllDoneMax ==
    ASSUME TypeOK, NEW p, AllDone(p)
    PROVE  /\ step' # "list"
           /\ plan' = p \/ plan' = NoPlan
BY NextStepTyped DEF AllDone, Requeue, Stop, Proceed

LEMMA ScaleDownMax ==
    ASSUME OneMax, TypeOK, MaxInv, NEW g \in GameServers,
           ScaleDown(g) \/ ScaleDownFails(g)
    PROVE  MaxInv'
<1>1. UNCHANGED <<cache, underCreation>>
  BY DEF ScaleDown, ScaleDownFails, knowledge
<1>2. faults'.lost = 0 => faults.lost = 0
  BY HappensTyped, TypeFacts DEF ScaleDown, ScaleDownFails, FaultKinds
<1>3. /\ MayCountIn(server') \subseteq MayCountIn(server)
      /\ \A h \in GameServers : HasReported(server'[h])
  BY RemoveMax DEF ScaleDown, ScaleDownFails, MaxInv
<1>4. plan \in Plans /\ plan.victims \ {g} \in SUBSET GameServers
  BY TypeFacts DEF Plans
<1>5. \/ AllDone([plan EXCEPT !.victims = plan.victims \ {g}])
      \/ AllDone([plan EXCEPT !.victims = plan.victims \ {g}, !.failed = TRUE])
  BY DEF ScaleDown, ScaleDownFails
<1>6. /\ step' # "list"
      /\ \/ plan'.finished = plan.finished /\ plan'.create = plan.create
         \/ plan' = NoPlan
  <2>1. /\ step' # "list"
        /\ \/ plan' = [plan EXCEPT !.victims = plan.victims \ {g}]
           \/ plan' = [plan EXCEPT !.victims = plan.victims \ {g},
                                    !.failed = TRUE]
           \/ plan' = NoPlan
    BY <1>5, AllDoneMax
  <2>. DEFINE left == plan.victims \ {g}
  <2>2. /\ [plan EXCEPT !.victims = left].finished = plan.finished
        /\ [plan EXCEPT !.victims = left].create = plan.create
        /\ [plan EXCEPT !.victims = left, !.failed = TRUE].finished =
              plan.finished
        /\ [plan EXCEPT !.victims = left, !.failed = TRUE].create = plan.create
    BY <1>4, PlanChanges
  <2>. HIDE DEF left
  <2>3. /\ step' # "list"
        /\ \/ plan' = [plan EXCEPT !.victims = left]
           \/ plan' = [plan EXCEPT !.victims = left, !.failed = TRUE]
           \/ plan' = NoPlan
    BY <2>1 DEF left
  <2>. QED  BY <2>2, <2>3
<1>. QED  BY <1>1, <1>2, <1>3, <1>6, MaxKept

(* A creation that the plan leaves room for, and the cache knows nothing   *)
(* of.                                                                     *)
LEMMA CreateMax ==
    ASSUME OneMax, TypeOK, MaxInv, NEW g \in GameServers, Create(g)
    PROVE  MaxInv'
<1>1. /\ UNCHANGED <<cache, faults>> /\ g \in Unused
      /\ underCreation' = underCreation \cup {g}
      /\ server' = [server EXCEPT ![g] = NewServer]
      /\ step = "create"
  BY DEF Create, Write
<1>2. \A h \in GameServers :
         server'[h] = IF h = g THEN NewServer ELSE server[h]
  BY <1>1 DEF TypeOK
<1>3. server[g] = NoServer /\ cache[g] = NoServer
  BY <1>1 DEF Unused, Present
<1>4. /\ MayCountIn(server') = MayCountIn(server) \cup {g}
      /\ g \notin MayCountIn(server)
      /\ \A h \in GameServers : HasReported(server'[h])
  BY <1>2, <1>3, EndedMayNotCount DEF MayCountIn, MaxInv
<1>5. \A h \in GameServers : cache[h].state \in {"GameCompleted", "Crashed"}
                                => ~ MayCount(server'[h])
  BY <1>2, <1>3, EndedMayNotCount DEF MaxInv
<1>6. plan.finished = {} /\ plan.create > 0 /\ plan.create # 0 /\ plan \in Plans
  BY <1>1, StepMeans, TypeFacts
<1>7. /\ step' # "list"
      /\ plan' = [plan EXCEPT !.create = @ - 1] \/ plan' = NoPlan
  BY AllDoneMax DEF Create
<1>8. /\ plan'.finished = {}
      /\ plan'.create = plan.create - 1 \/ plan'.create = 0
  BY <1>6, <1>7, CreateChanges, NoneFields
<1>9. /\ MayCountIn(server) \in SUBSET GameServers
      /\ plan.create \in Nat /\ Most \in Nat
  BY <1>6, MostMeans DEF MayCountIn, Plans
<1>10. /\ Cardinality(MayCountIn(server')) =
             Cardinality(MayCountIn(server)) + 1
       /\ Cardinality(MayCountIn(server)) \in Nat
  BY <1>4, <1>9, Subfinite, FS_AddElement
<1>11. faults.lost = 0 =>
          /\ Cardinality(MayCountIn(server')) <= Most
          /\ Cardinality(MayCountIn(server') \ plan'.finished) + plan'.create
                <= Most
  <2>. SUFFICES ASSUME faults.lost = 0
                PROVE  /\ Cardinality(MayCountIn(server')) <= Most
                       /\ Cardinality(MayCountIn(server')) + plan'.create <= Most
    BY <1>8
  <2>1. Cardinality(MayCountIn(server) \ plan.finished) + plan.create <= Most
    BY DEF MaxInv
  <2>2. MayCountIn(server) \ plan.finished = MayCountIn(server)
    BY <1>6
  <2>3. Cardinality(MayCountIn(server)) + plan.create <= Most
    BY <2>1, <2>2
  <2>. QED  BY <1>6, <1>8, <1>9, <1>10, <2>3
<1>12. faults.lost = 0 =>
          MayCountIn(server') \subseteq MayCountIn(cache) \cup underCreation'
  BY <1>1, <1>4 DEF MaxInv
<1>. QED  BY <1>1, <1>4, <1>5, <1>7, <1>11, <1>12 DEF MaxInv, MayCountIn

(* A failed creation takes its place away from the plan.  When the reply   *)
(* is lost nothing is said of the count any more.                          *)
LEMMA CreateFailsMax ==
    ASSUME OneMax, TypeOK, MaxInv, CreateFails
    PROVE  MaxInv'
<1>1. UNCHANGED <<cache, underCreation>> /\ step = "create"
  BY DEF CreateFails, knowledge
<1>2. plan.finished = {} /\ plan.create # 0 /\ plan \in Plans
  BY <1>1, StepMeans, TypeFacts
<1>3. /\ step' # "list"
      /\ \/ plan' = [plan EXCEPT !.create = @ - 1, !.failed = TRUE]
         \/ plan' = NoPlan
  BY AllDoneMax DEF CreateFails
<1>4. CASE UNCHANGED server /\ (faults'.lost = 0 => faults.lost = 0)
  <2>. DEFINE S == MayCountIn(server)
  <2>1. /\ plan'.finished = {}
        /\ plan'.create = plan.create - 1 \/ plan'.create = 0
    BY <1>2, <1>3, CreateChanges, NoneFields
  <2>2. /\ S \ plan.finished = S
        /\ Cardinality(S) \in Nat /\ plan.create \in Nat /\ Most \in Nat
    BY <1>2, Subfinite, MostMeans DEF MayCountIn, Plans
  <2>3. faults.lost = 0 => Cardinality(S) <= Most
                           /\ Cardinality(S) + plan.create <= Most
    BY <2>2 DEF MaxInv
  <2>4. faults.lost = 0 => Cardinality(S \ plan'.finished) + plan'.create <= Most
    <3>1. S \ plan'.finished = S
      BY <2>1
    <3>. HIDE DEF S
    <3>. QED  BY <2>1, <2>2, <2>3, <3>1
  <2>. QED  BY <1>1, <1>3, <1>4, <2>4 DEF MaxInv, MayCountIn
<1>5. ASSUME NEW g \in Unused, Happens("lost", MaxLost), Write(g, NewServer)
      PROVE  MaxInv'
  <2>1. faults'.lost # 0
    <3>1. faults'.lost = faults.lost + 1 /\ faults.lost \in Nat
      BY <1>5, HappensTyped, TypeFacts DEF FaultKinds
    <3>. QED  BY <3>1
  <2>2. \A h \in GameServers :
           server'[h] = IF h = g THEN NewServer ELSE server[h]
    BY <1>5 DEF TypeOK, Write
  <2>3. g \in GameServers /\ cache[g] = NoServer
    BY <1>5 DEF Unused, Present
  <2>4. \A h \in GameServers :
           /\ HasReported(server'[h])
           /\ cache[h].state \in {"GameCompleted", "Crashed"}
                 => ~ MayCount(server'[h])
    BY <2>2, <2>3, EndedMayNotCount DEF MaxInv
  <2>. QED  BY <1>1, <1>3, <2>1, <2>4 DEF MaxInv
<1>6. \/ UNCHANGED <<server, faults>>
      \/ Happens("refused", MaxRefused) /\ UNCHANGED server
      \/ \E g \in Unused : Happens("lost", MaxLost) /\ Write(g, NewServer)
  BY DEF CreateFails
<1>7. Happens("refused", MaxRefused) => faults'.lost = faults.lost
  BY HappensTyped DEF FaultKinds
<1>. QED  BY <1>4, <1>5, <1>6, <1>7

LEMMA StepMax ==
    ASSUME OneMax, TypeOK, MaxInv, [Next]_vars
    PROVE  MaxInv'
<1>1. CASE Controller
  <2>1. CASE UpdateStatus \/ UpdateStatusFails
    <3>1. /\ UNCHANGED <<server, cache, underCreation>> /\ Stop
          /\ faults'.lost = faults.lost
      BY <2>1, HappensTyped, TypeFacts
         DEF UpdateStatus, UpdateStatusFails, copies, Requeue, FaultKinds
    <3>. QED  BY <3>1, MaxKept DEF Stop, MaxInv
  <2>. QED  BY <1>1, <2>1, BeginMax, ListMax, DeleteFinishedMax, ScaleDownMax,
               CreateMax, CreateFailsMax DEF Controller
<1>2. ASSUME NEW g \in GameServers, Deliver(g) PROVE MaxInv'
  <2>1. /\ UNCHANGED <<server, underCreation, step, plan, faults>>
        /\ cache' = [cache EXCEPT ![g] = server[g]]
    BY <1>2 DEF Deliver, knowledge, work
  <2>2. \A h \in GameServers :
           cache'[h] = IF h = g THEN server[h] ELSE cache[h]
    BY <2>1 DEF TypeOK
  <2>3. server[g].state \in {"GameCompleted", "Crashed"}
           => ~ MayCount(server[g])
    BY DEF MayCount
  <2>. QED  BY <2>1, <2>2, <2>3 DEF MaxInv, MayCountIn
<1>3. CASE DeliverBuild
  BY <1>3, MaxKept DEF DeliverBuild, knowledge, work, MaxInv
<1>4. CASE Restart
  <2>1. /\ cache' = server /\ server' = server
        /\ plan' = NoPlan /\ step' = "idle"
        /\ faults'.lost = faults.lost
    BY <1>4, HappensTyped DEF Restart, Stop, FaultKinds
  <2>2. \A g \in GameServers : server[g].state \in {"GameCompleted", "Crashed"}
                                  => ~ MayCount(server[g])
    BY DEF MayCount
  <2>3. MayCountIn(server) \ plan'.finished = MayCountIn(server)
    BY <2>1, NoneFields
  <2>4. Cardinality(MayCountIn(server)) \in Nat
    BY Subfinite DEF MayCountIn
  <2>5. plan'.create = 0
    BY <2>1, NoneFields
  <2>6. faults.lost = 0 =>
           /\ Cardinality(MayCountIn(server)) <= Most
           /\ Cardinality(MayCountIn(server) \ plan'.finished) + plan'.create
                 <= Most
    BY <2>3, <2>4, <2>5 DEF MaxInv
  <2>. QED  BY <2>1, <2>2, <2>6 DEF MaxInv, MayCountIn
<1>5. CASE Surroundings
  <2>1. /\ UNCHANGED <<cache, underCreation, step, plan>>
        /\ faults'.lost = faults.lost
    BY <1>5, SurroundingsMean DEF Surrounded, knowledge, work
  <2>2. \A g \in GameServers :
           /\ MayCount(server'[g]) => MayCount(server[g])
           /\ HasReported(server[g]) => HasReported(server'[g])
    BY <1>5, SurroundingsMean DEF Surrounded, Write, TypeOK
  <2>3. /\ MayCountIn(server') \subseteq MayCountIn(server)
        /\ \A g \in GameServers : HasReported(server'[g])
    BY <2>2 DEF MayCountIn, MaxInv
  <2>. QED  BY <2>1, <2>3, MaxKept
<1>6. CASE UNCHANGED vars
  BY <1>6, MaxKept DEF vars, copies, knowledge, work, MaxInv
<1>. QED  BY <1>1, <1>2, <1>3, <1>4, <1>5, <1>6 DEF Next, Informer

LEMMA InitMax == ASSUME OneMax, Init PROVE MaxInv
<1>1. /\ \A g \in GameServers : server[g] = NoServer /\ cache[g] = NoServer
      /\ underCreation = {} /\ plan = NoPlan
  BY DEF Init
<1>2. MayCountIn(server) = {}
  BY <1>1, EndedMayNotCount DEF MayCountIn
<1>3. MayCountIn(server) \ plan.finished = {}
  BY <1>2
<1>. QED  BY <1>1, <1>2, <1>3, EmptyCount, EndedMayNotCount, MostMeans,
             NoneFields DEF MaxInv

(* As long as no reply is lost the servers of the build never pass its     *)
(* max, for any lag of the cache and any restarts.                         *)
THEOREM MaxCorrect == ASSUME OneMax PROVE Spec => []MaxRespected
<1>1. Init => MaxInv
  BY InitMax
<1>2. TypeOK /\ MaxInv /\ [Next]_vars => MaxInv'
  BY StepMax
<1>3. TypeOK /\ MaxInv => MaxRespected
  <2>. SUFFICES ASSUME TypeOK, MaxInv, faults.lost = 0, NEW spec \in Specs
                PROVE  NumberOf(server, Counted) <= spec.max
    BY DEF MaxRespected
  <2>. DEFINE C == {g \in Present(server) : Counted(server[g])}
  <2>1. C \in SUBSET MayCountIn(server) /\ MayCountIn(server) \in SUBSET GameServers
    BY DEF MayCountIn, MayCount, Counted, Pending, Healthy, Present
  <2>2. NumberOf(server, Counted) = Cardinality(C)
    BY DEF NumberOf
  <2>. HIDE DEF C
  <2>3. Cardinality(C) <= Cardinality(MayCountIn(server))
    BY <2>1, SmallerSet
  <2>4. Cardinality(C) \in Nat /\ Cardinality(MayCountIn(server)) \in Nat
    <3>1. C \in SUBSET GameServers
      BY <2>1
    <3>. QED  BY <2>1, <3>1, Subfinite
  <2>5. Cardinality(MayCountIn(server)) <= Most
    BY DEF MaxInv
  <2>. QED  BY <2>2, <2>3, <2>4, <2>5, MostMeans
<1>. QED  BY <1>1, <1>2, <1>3, TypeCorrect, PTL DEF Spec

=============================================================================
