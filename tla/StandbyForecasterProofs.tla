----------------------- MODULE StandbyForecasterProofs -----------------------
(***************************************************************************)
(* Theorems about StandbyForecaster and, in it, BuildAdmission: what is    *)
(* stored is valid, the controllers can make its GameServers and Pods, a   *)
(* BuildID that the webhook has seen is not given again, and scale-downs   *)
(* keep their distance and their size.                                     *)
(***************************************************************************)
EXTENDS StandbyForecaster, BuildAdmissionProofs

(* The least and the greatest of two numbers.                              *)
LEMMA MinOfTwo ==
    ASSUME NEW a \in Int, NEW b \in Int
    PROVE  Min({a, b}) = IF a <= b THEN a ELSE b
<1>1. \E x \in {a, b} : \A y \in {a, b} : x <= y
  OBVIOUS
<1>. QED  BY <1>1 DEF Min

LEMMA MaxOfTwo ==
    ASSUME NEW a \in Int, NEW b \in Int
    PROVE  Max({a, b}) = IF a >= b THEN a ELSE b
<1>1. \E x \in {a, b} : \A y \in {a, b} : x >= y
  OBVIOUS
<1>. QED  BY <1>1 DEF Max

(* The forecast is a number of servers.                                    *)
LEMMA NeededIsInt ==
    ASSUME NEW m \in [winters : Int, long : Int, short : Int]
    PROVE  TotalServersNeeded(m) \in Int
<1>. DEFINE S == {m.winters, m.long, m.short, 0}
<1>1. \E x \in S : \A y \in S : x >= y
  OBVIOUS
<1>2. Max(S) \in Int
  BY <1>1 DEF Max
<1>. QED  BY <1>2, ForecasterAssumption DEF ForecasterAssumption, TotalServersNeeded

-----------------------------------------------------------------------------
(* The inductive invariants                                                *)

(* A patch in flight: the numbers that it asks for.                        *)
PatchOK(patch) ==
    patch.build \in Builds /\ patch.asked \in [standingBy : Int, max : Int]

AdmissionTypes ==
    /\ stored \in [Builds -> Objects \cup {None}]
    /\ known \in [Builds -> BuildIDs \cup {None}]
    /\ \A patch \in patches : PatchOK(patch)
    /\ shown \subseteq Builds
    /\ left \in [Kinds -> Int]
    /\ left.offer \in DOMAIN Offers

LoopTypes ==
    /\ metric \in [winters : Int, long : Int, short : Int]
    /\ loop.at = "forecast" => loop.needed \in Int
    /\ loop.at = "update" => loop.build \in Objects /\ loop.down \in BOOLEAN
    /\ stale \in BOOLEAN /\ failed \in BOOLEAN
    /\ sinceDown \in 0..CoolOff /\ quiet \in 0..CoolOff

(* What the webhook has seen is still so: the BuildID does not change.     *)
ShownAreKnown ==
    \A b \in shown : stored[b] # None /\ known[b] = stored[b].id

AdmissionInv == AdmissionTypes /\ SpecsAreValid /\ ShownAreKnown

(* Without a failure the forecaster does not believe more time to have     *)
(* passed than has, and it keeps an update that scales down only when the  *)
(* cool-off period is over.                                                *)
ClockAgrees ==
    /\ ~failed => sinceDown <= quiet
    /\ loop.at = "update" /\ loop.down => sinceDown = CoolOff

(* An update that is not stale is the build as stored, but for standingBy. *)
UpdateIsFresh ==
    loop.at = "update" /\ ~stale =>
        /\ stored[Target] # None
        /\ loop.build = [stored[Target] EXCEPT !.standingBy = loop.build.standingBy]
        /\ loop.down => loop.build.standingBy
                          >= Max({stored[Target].standing - Step, Minimum}) + Buffer

Inv == AdmissionInv /\ LoopTypes /\ ClockAgrees /\ UpdateIsFresh

LEMMA InitInv == Init => Inv
<1>. SUFFICES ASSUME Init PROVE Inv
  OBVIOUS
<1>1. PICK s \in Scenarios : /\ stored = s.stored
                             /\ known = [b \in Builds |-> BuildID(stored[b])]
                             /\ patches = {}
                             /\ shown = {b \in Builds : stored[b] # None}
                             /\ left = s.left
  BY DEF Init, AdmissionInit
<1>2. stored \in [Builds -> Objects \cup {None}] /\ SpecsAreValid
  BY <1>1, AdmissionAssumption DEF AdmissionAssumption, SpecsAreValid
<1>3. left \in [Kinds -> Int] /\ left.offer \in DOMAIN Offers
  BY <1>1, AdmissionAssumption DEF AdmissionAssumption
<1>4. known \in [Builds -> BuildIDs \cup {None}] /\ ShownAreKnown
  BY <1>1, <1>2 DEF BuildID, Objects, ShownAreKnown
<1>5. AdmissionInv
  BY <1>1, <1>2, <1>3, <1>4 DEF AdmissionInv, AdmissionTypes
<1>6. loop.at \notin {"update", "forecast"}
  BY DEF Init, Idle
<1>7. /\ metric = [winters |-> 0, long |-> 0, short |-> 0]
      /\ stale = FALSE /\ failed = FALSE /\ sinceDown = 0 /\ quiet = 0
  BY DEF Init
<1>8. metric \in [winters : Int, long : Int, short : Int]
  BY <1>7
<1>9. 0 \in 0..CoolOff
  BY ForecasterAssumption DEF ForecasterAssumption
<1>10. LoopTypes
  BY <1>6, <1>7, <1>8, <1>9 DEF LoopTypes
<1>11. ClockAgrees /\ UpdateIsFresh
  BY <1>6, <1>7 DEF ClockAgrees, UpdateIsFresh
<1>. QED  BY <1>5, <1>10, <1>11 DEF Inv

-----------------------------------------------------------------------------
(* The builds and the webhook                                              *)

Valid(build) == /\ 0 <= build.standingBy
                /\ build.standingBy <= build.max
                /\ ValidateBuildPorts(build.template)

(* A valid build is stored in place of none or of one of the same BuildID. *)
LEMMA StoreKeeps ==
    ASSUME AdmissionInv, NEW b \in Builds, NEW build \in Objects, Valid(build),
           stored[b] = None \/ stored[b].id = build.id,
           Store(b, build), known' = known, shown' = shown
    PROVE  /\ stored' \in [Builds -> Objects \cup {None}]
           /\ SpecsAreValid'
           /\ ShownAreKnown'
<1>. USE DEF AdmissionInv, AdmissionTypes, Store
<1>1. stored' \in [Builds -> Objects \cup {None}]
  OBVIOUS
<1>2. build # None
  BY AdmissionAssumption DEF AdmissionAssumption
<1>3. SpecsAreValid'
  BY DEF SpecsAreValid, Valid
<1>4. ShownAreKnown'
  BY <1>2 DEF ShownAreKnown
<1>. QED  BY <1>1, <1>3, <1>4

LEMMA SpendKeeps ==
    ASSUME AdmissionTypes, NEW kind \in Kinds \ {"offer"}, Spend(kind)
    PROVE  left' \in [Kinds -> Int] /\ left'.offer \in DOMAIN Offers
BY DEF AdmissionTypes, Spend, Kinds

(* What a client asks for becomes an object.                               *)
LEMMA SpecIsObject ==
    ASSUME AdmissionTypes, NEW spec \in Specs, NEW a \in Int, NEW s \in Int
    PROVE  /\ WithStatus(spec, a, s) \in Objects
           /\ WithStatus(spec, a, s).id = spec.id
           /\ Valid(WithStatus(spec, a, s)) <=> Valid(spec)
<1>1. spec \in Specifications
  BY AdmissionAssumption DEF AdmissionAssumption, AdmissionTypes, Specs
<1>. QED  BY <1>1 DEF WithStatus, Objects, Specifications, Valid

LEMMA AcceptedIsValid ==
    ASSUME NEW b \in Builds, NEW build, AcceptsUpdate(b, build)
    PROVE  stored[b] # None /\ Valid(build) /\ build.id = stored[b].id
BY DEF AcceptsUpdate, SchemaAccepts, ValidateUpdate, ValidateUpdateBuildID,
       ValidateStandingBy, Valid

LEMMA CreateInv ==
    ASSUME AdmissionInv, NEW b \in Builds, Create(b)
    PROVE  AdmissionInv'
<1>1. PICK spec \in Specs : /\ SchemaAccepts(spec)
                            /\ ValidateCreate(b, spec)
                            /\ Store(b, WithStatus(spec, 0, 0))
  BY DEF Create
<1>2. Valid(spec)
  BY <1>1 DEF SchemaAccepts, ValidateCreate, ValidateStandingBy, Valid
<1>3. WithStatus(spec, 0, 0) \in Objects /\ Valid(WithStatus(spec, 0, 0))
  BY <1>2, SpecIsObject DEF AdmissionInv
<1>4. stored[b] = None /\ known' = known /\ shown' = shown /\ patches' = patches
  BY DEF Create
<1>5. /\ stored' \in [Builds -> Objects \cup {None}]
      /\ SpecsAreValid' /\ ShownAreKnown'
  BY <1>1, <1>3, <1>4, StoreKeeps
<1>6. left' \in [Kinds -> Int] /\ left'.offer \in DOMAIN Offers
  BY SpendKeeps DEF Create, AdmissionInv, Kinds
<1>. QED  BY <1>4, <1>5, <1>6 DEF AdmissionInv, AdmissionTypes, PatchOK

LEMMA EditInv ==
    ASSUME AdmissionInv, NEW b \in Builds, Edit(b)
    PROVE  AdmissionInv'
<1>. DEFINE object(spec) == WithStatus(spec, stored[b].active, stored[b].standing)
<1>1. PICK spec \in Specs : AcceptsUpdate(b, spec) /\ Store(b, object(spec))
  BY DEF Edit
<1>2. stored[b] # None /\ Valid(spec) /\ spec.id = stored[b].id
  BY <1>1, AcceptedIsValid
<1>3. stored[b].active \in Int /\ stored[b].standing \in Int
  BY <1>2 DEF AdmissionInv, AdmissionTypes, Objects
<1>4. object(spec) \in Objects /\ Valid(object(spec)) /\ object(spec).id = spec.id
  BY <1>2, <1>3, SpecIsObject DEF AdmissionInv
<1>5. known' = known /\ shown' = shown /\ patches' = patches
  BY DEF Edit
<1>6. /\ stored' \in [Builds -> Objects \cup {None}]
      /\ SpecsAreValid' /\ ShownAreKnown'
  BY <1>1, <1>2, <1>4, <1>5, StoreKeeps
<1>7. left' \in [Kinds -> Int] /\ left'.offer \in DOMAIN Offers
  BY SpendKeeps DEF Edit, AdmissionInv, Kinds
<1>. QED  BY <1>5, <1>6, <1>7 DEF AdmissionInv, AdmissionTypes, PatchOK

LEMMA DeleteBuildInv ==
    ASSUME AdmissionInv, NEW b \in Builds, DeleteBuild(b)
    PROVE  AdmissionInv'
<1>. USE DEF AdmissionInv, AdmissionTypes, DeleteBuild, Store
<1>1. stored' \in [Builds -> Objects \cup {None}] /\ SpecsAreValid'
  BY DEF SpecsAreValid
<1>2. ShownAreKnown' /\ shown' \subseteq Builds
  BY DEF ShownAreKnown
<1>3. left' \in [Kinds -> Int] /\ left'.offer \in DOMAIN Offers
  BY SpendKeeps DEF Kinds
<1>. QED  BY <1>1, <1>2, <1>3 DEF PatchOK

LEMMA PatchStoredInv ==
    ASSUME AdmissionInv, NEW patch \in patches, PatchStored(patch)
    PROVE  AdmissionInv'
<1>. DEFINE b == patch.build
            build == Merged(stored[b], patch)
<1>1. b \in Builds /\ patch.asked \in [standingBy : Int, max : Int]
  BY DEF AdmissionInv, AdmissionTypes, PatchOK
<1>2. /\ AcceptsUpdate(b, build) /\ Store(b, build)
      /\ known' = known /\ shown' = shown /\ left' = left
      /\ patches' \subseteq patches
  BY DEF PatchStored
<1>3. stored[b] # None /\ Valid(build) /\ build.id = stored[b].id
  BY <1>1, <1>2, AcceptedIsValid
<1>4. build \in Objects
  <2>1. stored[b] \in Objects
    BY <1>1, <1>3 DEF AdmissionInv, AdmissionTypes
  <2>. QED  BY <1>1, <2>1 DEF Merged, Objects
<1>. HIDE DEF b, build
<1>5. /\ stored' \in [Builds -> Objects \cup {None}]
      /\ SpecsAreValid' /\ ShownAreKnown'
  BY <1>1, <1>2, <1>3, <1>4, StoreKeeps
<1>. QED  BY <1>2, <1>5 DEF AdmissionInv, AdmissionTypes, PatchOK

(* The numbers of the status are not part of what must be valid.           *)
LEMMA StatusKeeps ==
    ASSUME AdmissionInv, NEW b \in Builds, stored[b] # None,
           NEW a \in Int, NEW s \in Int
    PROVE  LET object == [stored[b] EXCEPT !.active = a, !.standing = s]
           IN  object \in Objects /\ Valid(object) /\ object.id = stored[b].id
<1>1. stored[b] \in Objects /\ Valid(stored[b])
  BY DEF AdmissionInv, AdmissionTypes, SpecsAreValid, Valid
<1>. QED  BY <1>1 DEF Objects, Valid

LEMMA ReportInv ==
    ASSUME AdmissionInv, NEW b \in Builds, Report(b)
    PROVE  AdmissionInv'
<1>1. PICK a \in Counts \cap Nat, s \in Counts \cap Nat :
          Store(b, [stored[b] EXCEPT !.active = a, !.standing = s])
  BY DEF Report
<1>2. /\ stored[b] # None /\ known' = known /\ shown' = shown
      /\ patches' = patches
  BY DEF Report
<1>. DEFINE object == [stored[b] EXCEPT !.active = a, !.standing = s]
<1>3. object \in Objects /\ Valid(object) /\ object.id = stored[b].id
  BY <1>2, a \in Int, s \in Int, StatusKeeps
<1>. HIDE DEF object
<1>4. /\ stored' \in [Builds -> Objects \cup {None}]
      /\ SpecsAreValid' /\ ShownAreKnown'
  BY <1>1, <1>2, <1>3, StoreKeeps DEF object
<1>5. left' \in [Kinds -> Int] /\ left'.offer \in DOMAIN Offers
  BY SpendKeeps DEF Report, AdmissionInv, Kinds
<1>. QED  BY <1>2, <1>4, <1>5 DEF AdmissionInv, AdmissionTypes, PatchOK

LEMMA ConvergeInv ==
    ASSUME AdmissionInv, NEW b \in Builds, Converge(b)
    PROVE  AdmissionInv'
<1>. DEFINE room == Max({0, stored[b].max - stored[b].active})
            goal == Min({stored[b].standingBy, room})
<1>1. /\ stored[b] # None /\ known' = known /\ shown' = shown
      /\ patches' = patches /\ left' = left
      /\ Store(b, [stored[b] EXCEPT !.standing = goal])
  BY DEF Converge
<1>2. stored[b] \in Objects
  BY <1>1 DEF AdmissionInv, AdmissionTypes
<1>3. goal \in Int
  <2>1. room \in Int
    BY <1>2, MaxOfTwo DEF Objects
  <2>. HIDE DEF room
  <2>. QED  BY <1>2, <2>1, MinOfTwo DEF Objects
<1>. HIDE DEF goal
<1>4. [stored[b] EXCEPT !.standing = goal]
        = [stored[b] EXCEPT !.active = stored[b].active, !.standing = goal]
  BY <1>2 DEF Objects
<1>5. stored[b].active \in Int
  BY <1>2 DEF Objects
<1>6. /\ stored' \in [Builds -> Objects \cup {None}]
      /\ SpecsAreValid' /\ ShownAreKnown'
  BY <1>1, <1>3, <1>4, <1>5, StatusKeeps, StoreKeeps
<1>. QED  BY <1>1, <1>6 DEF AdmissionInv, AdmissionTypes, PatchOK

LEMMA BeginPatchInv ==
    ASSUME AdmissionInv, NEW b \in Builds, BeginPatch(b)
    PROVE  AdmissionInv'
<1>1. PICK s \in Counts, m \in Counts :
          patches' = patches \cup {[build |-> b, read |-> copies[b],
                                    asked |-> [standingBy |-> s, max |-> m]]}
  BY DEF BeginPatch
<1>2. \A patch \in patches' : PatchOK(patch)
  <2>1. PatchOK([build |-> b, read |-> copies[b],
                 asked |-> [standingBy |-> s, max |-> m]])
    BY AdmissionAssumption DEF AdmissionAssumption, PatchOK
  <2>. QED  BY <1>1, <2>1 DEF AdmissionInv, AdmissionTypes
<1>3. left' \in [Kinds -> Int] /\ left'.offer \in DOMAIN Offers
  BY SpendKeeps DEF BeginPatch, AdmissionInv, Kinds
<1>4. stored' = stored /\ known' = known /\ shown' = shown
  BY DEF BeginPatch
<1>. QED  BY <1>2, <1>3, <1>4
          DEF AdmissionInv, AdmissionTypes, PatchOK, SpecsAreValid, ShownAreKnown

LEMMA ShowWebhookInv ==
    ASSUME AdmissionInv, NEW b \in Builds, ShowWebhook(b)
    PROVE  AdmissionInv'
<1>1. known' \in [Builds -> BuildIDs \cup {None}]
  BY DEF ShowWebhook, AdmissionInv, AdmissionTypes, BuildID, Objects
<1>2. ShownAreKnown' /\ shown' \subseteq Builds
  BY DEF ShowWebhook, AdmissionInv, AdmissionTypes, BuildID, ShownAreKnown
<1>. QED  BY <1>1, <1>2
          DEF ShowWebhook, AdmissionInv, AdmissionTypes, PatchOK, SpecsAreValid

(* No step of a client, the webhook or the build controller disturbs it.   *)
LEMMA AdmissionNextInv == AdmissionInv /\ AdmissionNext => AdmissionInv'
<1>. SUFFICES ASSUME AdmissionInv, AdmissionNext PROVE AdmissionInv'
  OBVIOUS
<1>1. ASSUME NEW b \in Builds, ShowApi(b) PROVE AdmissionInv'
  BY <1>1 DEF ShowApi, AdmissionInv, AdmissionTypes, PatchOK, SpecsAreValid,
              ShownAreKnown
<1>2. ASSUME NEW patch \in patches, PatchFails(patch) PROVE AdmissionInv'
  BY <1>2 DEF PatchFails, AdmissionInv, AdmissionTypes, PatchOK, SpecsAreValid,
              ShownAreKnown
<1>. QED  BY <1>1, <1>2, CreateInv, EditInv, DeleteBuildInv, BeginPatchInv,
             PatchStoredInv, ShowWebhookInv, ReportInv, ConvergeInv
          DEF AdmissionNext

-----------------------------------------------------------------------------
(* The forecaster                                                          *)

(* A part of the state that only stored, loop and stale are read from.     *)
LEMMA AdmissionUnchanged ==
    ASSUME AdmissionInv, UNCHANGED <<stored, known, patches, shown>>,
           left' \in [Kinds -> Int], left'.offer = left.offer
    PROVE  AdmissionInv'
BY DEF AdmissionInv, AdmissionTypes, PatchOK, SpecsAreValid, ShownAreKnown

(* What is read from the build is a number in the end.                     *)
LEMMA TargetIsInt ==
    ASSUME Inv, Reading
    PROVE  /\ stored[Target] \in Objects /\ DesiredStandby \in Int
           /\ ScaledDown \in Int
           /\ MustScaleDown =>
                ScaledDown >= Max({stored[Target].standing - Step, Minimum})
<1>1. /\ Step \in Nat /\ Minimum \in Nat /\ Target \in Builds
  BY ForecasterAssumption DEF ForecasterAssumption
<1>2. stored[Target] \in Objects /\ loop.needed \in Int
  BY <1>1 DEF Inv, AdmissionInv, AdmissionTypes, LoopTypes, Reading
<1>3. stored[Target].active \in Int /\ stored[Target].standing \in Int
  BY <1>2 DEF Objects
<1>4. DesiredStandby \in Int
  BY <1>2, <1>3 DEF DesiredStandby
<1>. DEFINE standing == stored[Target].standing
            limited == IF standing - DesiredStandby > Step THEN standing - Step
                       ELSE DesiredStandby
<1>5. limited \in Int /\ standing - Step \in Int /\ limited >= standing - Step
  BY <1>1, <1>3, <1>4
<1>6. ScaledDown = Max({limited, Minimum})
  BY DEF ScaledDown
<1>. HIDE DEF limited
<1>7. ScaledDown = IF limited >= Minimum THEN limited ELSE Minimum
  BY <1>1, <1>5, <1>6, MaxOfTwo
<1>8. Max({standing - Step, Minimum})
        = IF standing - Step >= Minimum THEN standing - Step ELSE Minimum
  BY <1>1, <1>5, MaxOfTwo
<1>9. ScaledDown \in Int /\ ScaledDown >= Max({standing - Step, Minimum})
  BY <1>1, <1>3, <1>5, <1>7, <1>8
<1>. QED  BY <1>2, <1>4, <1>9

(* A pass that ends leaves nothing behind but the clocks.                  *)
LEMMA IdleInv ==
    ASSUME LoopTypes, AdmissionInv', loop' = Idle, UNCHANGED <<metric, stale>>,
           sinceDown' \in 0..CoolOff, quiet' \in 0..CoolOff, failed' \in BOOLEAN,
           ~failed' => sinceDown' <= quiet'
    PROVE  Inv'
<1>1. loop'.at \notin {"forecast", "update"}
  BY DEF Idle
<1>. QED  BY <1>1 DEF Inv, LoopTypes, ClockAgrees, UpdateIsFresh

LEMMA ErrorsKept ==
    ASSUME AdmissionTypes, Spend("errors") \/ Spend("restarts") \/ UNCHANGED left
    PROVE  left' \in [Kinds -> Int] /\ left'.offer = left.offer
BY DEF AdmissionTypes, Spend, Kinds

LEMMA CoolOffIsTime == CoolOff \in Nat /\ CoolOff \in 0..CoolOff /\ 0 \in 0..CoolOff
BY ForecasterAssumption DEF ForecasterAssumption

LEMMA TickInv ==
    ASSUME Inv, Tick
    PROVE  Inv'
<1>1. AdmissionInv'
  BY AdmissionUnchanged DEF Tick, Inv, admissionVars, AdmissionInv, AdmissionTypes
<1>2. TotalServersNeeded(metric) \in Int
  BY NeededIsInt DEF Inv, LoopTypes
<1>3. loop'.at = "forecast" /\ loop'.needed \in Int
  BY <1>2 DEF Tick
<1>4. LoopTypes'
  BY <1>3 DEF Tick, Inv, LoopTypes
<1>5. ClockAgrees' /\ UpdateIsFresh'
  BY <1>3 DEF Tick, Inv, ClockAgrees, UpdateIsFresh
<1>. QED  BY <1>1, <1>4, <1>5 DEF Inv

LEMMA ReadBuildInv ==
    ASSUME Inv, ReadBuild
    PROVE  Inv'
<1>. DEFINE target == (IF MustScaleDown THEN ScaledDown ELSE DesiredStandby) + Buffer
            build  == [stored[Target] EXCEPT !.standingBy = target]
<1>1. Buffer \in Nat
  BY ForecasterAssumption DEF ForecasterAssumption
<1>2. /\ stored[Target] \in Objects /\ DesiredStandby \in Int
      /\ ScaledDown \in Int
      /\ MustScaleDown =>
           ScaledDown >= Max({stored[Target].standing - Step, Minimum})
  BY TargetIsInt DEF ReadBuild
<1>3. /\ loop' = [at |-> "update", down |-> MustScaleDown, build |-> build]
      /\ stale' = FALSE /\ ~CoolingOff /\ stored[Target] # None
      /\ UNCHANGED <<stored, known, patches, shown, left, metric, sinceDown,
                     quiet, failed>>
  BY DEF ReadBuild, Reading, admissionVars
<1>4. target \in Int
  BY <1>1, <1>2
<1>5. AdmissionInv'
  BY <1>3, AdmissionUnchanged DEF Inv, AdmissionInv, AdmissionTypes
<1>6. build \in Objects /\ build.standingBy = target
  <2>. HIDE DEF target
  <2>. QED  BY <1>2, <1>4 DEF Objects
<1>7. MustScaleDown \in BOOLEAN
  BY DEF MustScaleDown
<1>8. /\ loop'.at = "update" /\ loop'.down = MustScaleDown /\ loop'.build = build
  BY <1>3
<1>9. LoopTypes'
  <2>. HIDE DEF build
  <2>. QED  BY <1>3, <1>6, <1>7, <1>8 DEF Inv, LoopTypes
<1>10. ClockAgrees'
  BY <1>3, <1>8, CoolOffIsTime DEF Inv, LoopTypes, ClockAgrees, CoolingOff
<1>11. MustScaleDown =>
         target >= Max({stored[Target].standing - Step, Minimum}) + Buffer
  <2>1. SUFFICES ASSUME MustScaleDown
                 PROVE  ScaledDown + Buffer
                          >= Max({stored[Target].standing - Step, Minimum}) + Buffer
    OBVIOUS
  <2>2. Max({stored[Target].standing - Step, Minimum}) \in Int
    BY <1>2, MaxOfTwo, ForecasterAssumption DEF ForecasterAssumption, Objects
  <2>. QED  BY <1>1, <1>2, <2>1, <2>2
<1>12. UpdateIsFresh'
  <2>1. build = [stored[Target] EXCEPT !.standingBy = build.standingBy]
    BY <1>6
  <2>. HIDE DEF build, target
  <2>. QED  BY <1>3, <1>6, <1>8, <1>11, <2>1 DEF UpdateIsFresh
<1>. QED  BY <1>5, <1>9, <1>10, <1>12 DEF Inv

LEMMA SkipScaleDownInv ==
    ASSUME Inv, SkipScaleDown
    PROVE  Inv'
<1>1. AdmissionInv'
  BY AdmissionUnchanged DEF SkipScaleDown, Inv, admissionVars, AdmissionInv,
                            AdmissionTypes
<1>. QED  BY <1>1, IdleInv DEF SkipScaleDown, Inv, LoopTypes, ClockAgrees

LEMMA ReadFailsInv ==
    ASSUME Inv, ReadFails
    PROVE  Inv'
<1>1. left' \in [Kinds -> Int] /\ left'.offer = left.offer
  BY ErrorsKept DEF ReadFails, Inv, AdmissionInv
<1>2. AdmissionInv'
  BY <1>1, AdmissionUnchanged DEF ReadFails, Inv
<1>. QED  BY <1>2, IdleInv, CoolOffIsTime DEF ReadFails, LoseCoolOff, Inv, LoopTypes

LEMMA UpdateRefusedInv ==
    ASSUME Inv, UpdateRefused
    PROVE  Inv'
<1>1. left' \in [Kinds -> Int] /\ left'.offer = left.offer
  BY ErrorsKept DEF UpdateRefused, Inv, AdmissionInv
<1>2. AdmissionInv'
  BY <1>1, AdmissionUnchanged DEF UpdateRefused, Inv
<1>. QED  BY <1>2, IdleInv, CoolOffIsTime
          DEF UpdateRefused, LoseCoolOff, Inv, LoopTypes

LEMMA RestartInv ==
    ASSUME Inv, Restart
    PROVE  Inv'
<1>1. left' \in [Kinds -> Int] /\ left'.offer = left.offer
  BY ErrorsKept DEF Restart, Inv, AdmissionInv
<1>2. AdmissionInv'
  BY <1>1, AdmissionUnchanged DEF Restart, Inv
<1>3. quiet \in 0..CoolOff /\ 0 <= quiet
  BY CoolOffIsTime DEF Inv, LoopTypes
<1>. QED  BY <1>2, <1>3, IdleInv, CoolOffIsTime DEF Restart, Inv

(* What is stored is the build as it was, but for standingBy.              *)
LEMMA UpdateStoredInv ==
    ASSUME Inv, UpdateStored, Spend("errors") \/ UNCHANGED left
    PROVE  AdmissionInv'
<1>1. Target \in Builds
  BY ForecasterAssumption DEF ForecasterAssumption
<1>2. AcceptsUpdate(Target, Written) /\ Store(Target, Written)
  BY DEF UpdateStored, Accepted
<1>3. /\ stored[Target] # None /\ Valid(Written)
      /\ Written.id = stored[Target].id
  BY <1>1, <1>2, AcceptedIsValid
<1>4. Written \in Objects
  <2>1. stored[Target] \in Objects /\ loop.build \in Objects
    BY <1>1, <1>3
    DEF UpdateStored, Inv, AdmissionInv, AdmissionTypes, LoopTypes
  <2>. QED  BY <2>1 DEF Written, Objects
<1>5. known' = known /\ shown' = shown /\ patches' = patches
  BY DEF UpdateStored
<1>6. /\ stored' \in [Builds -> Objects \cup {None}]
      /\ SpecsAreValid' /\ ShownAreKnown'
  BY <1>1, <1>2, <1>3, <1>4, <1>5, StoreKeeps DEF Inv
<1>7. left' \in [Kinds -> Int] /\ left'.offer = left.offer
  BY ErrorsKept DEF Inv, AdmissionInv
<1>. QED  BY <1>5, <1>6, <1>7 DEF Inv, AdmissionInv, AdmissionTypes, PatchOK

LEMMA AnsweredInv ==
    ASSUME Inv, Answered
    PROVE  Inv'
<1>1. AdmissionInv'
  BY UpdateStoredInv DEF Answered
<1>2. /\ quiet' \in 0..CoolOff /\ sinceDown' \in 0..CoolOff /\ failed' \in BOOLEAN
      /\ ~failed' => sinceDown' <= quiet'
  <2>1. CASE loop.down
    <3>1. quiet' = 0 /\ sinceDown' = 0 /\ failed' = FALSE
      BY <2>1 DEF Answered, UpdateStored
    <3>2. failed' \in BOOLEAN
      BY <3>1
    <3>. QED  BY <3>1, <3>2, CoolOffIsTime
  <2>2. CASE ~loop.down
    <3>1. quiet' = quiet /\ sinceDown' = sinceDown /\ failed' = failed
      BY <2>2 DEF Answered, UpdateStored
    <3>2. /\ quiet \in 0..CoolOff /\ sinceDown \in 0..CoolOff /\ failed \in BOOLEAN
          /\ ~failed => sinceDown <= quiet
      BY DEF Inv, LoopTypes, ClockAgrees
    <3>. QED  BY <3>1, <3>2
  <2>. QED  BY <2>1, <2>2
<1>. QED  BY <1>1, <1>2, IdleInv DEF Answered, UpdateStored, Inv

LEMMA AnswerLostInv ==
    ASSUME Inv, AnswerLost
    PROVE  Inv'
<1>1. AdmissionInv'
  BY UpdateStoredInv DEF AnswerLost
<1>2. quiet' \in 0..CoolOff
  BY CoolOffIsTime DEF AnswerLost, UpdateStored, Inv, LoopTypes
<1>. QED  BY <1>1, <1>2, IdleInv, CoolOffIsTime
          DEF AnswerLost, UpdateStored, LoseCoolOff, Inv

LEMMA TimePassesInv ==
    ASSUME Inv, TimePasses
    PROVE  Inv'
<1>1. AdmissionInv'
  BY AdmissionUnchanged DEF TimePasses, Inv, admissionVars, AdmissionInv,
                            AdmissionTypes
<1>2. sinceDown \in 0..CoolOff /\ quiet \in 0..CoolOff /\ CoolOff \in Nat
  BY CoolOffIsTime DEF Inv, LoopTypes
<1>3. /\ sinceDown' = IF sinceDown + 1 <= CoolOff THEN sinceDown + 1 ELSE CoolOff
      /\ quiet' = IF quiet + 1 <= CoolOff THEN quiet + 1 ELSE CoolOff
  <2>1. sinceDown + 1 \in Int /\ quiet + 1 \in Int
    BY <1>2
  <2>. QED  BY <1>2, <2>1, MinOfTwo DEF TimePasses
<1>4. UNCHANGED <<metric, loop, stale, failed, stored>>
  BY DEF TimePasses, admissionVars
<1>5. LoopTypes'
  BY <1>2, <1>3, <1>4 DEF Inv, LoopTypes
<1>6. ClockAgrees'
  BY <1>2, <1>3, <1>4 DEF Inv, ClockAgrees
<1>7. UpdateIsFresh'
  BY <1>4 DEF Inv, UpdateIsFresh
<1>. QED  BY <1>1, <1>5, <1>6, <1>7 DEF Inv

LEMMA MetricChangesInv ==
    ASSUME Inv, MetricChanges
    PROVE  Inv'
<1>1. left' \in [Kinds -> Int] /\ left'.offer = left.offer
  BY DEF MetricChanges, Inv, AdmissionInv, AdmissionTypes, Spend, Kinds
<1>2. AdmissionInv'
  BY <1>1, AdmissionUnchanged DEF MetricChanges, Inv
<1>3. metric' \in [winters : Int, long : Int, short : Int]
  BY ForecasterAssumption DEF ForecasterAssumption, MetricChanges
<1>4. LoopTypes' /\ ClockAgrees' /\ UpdateIsFresh'
  BY <1>3 DEF MetricChanges, Inv, LoopTypes, ClockAgrees, UpdateIsFresh
<1>. QED  BY <1>2, <1>4 DEF Inv

LEMMA OtherClientsInv ==
    ASSUME Inv, OtherClients
    PROVE  Inv'
<1>1. AdmissionInv'
  BY AdmissionNextInv DEF OtherClients, Inv
<1>2. UNCHANGED <<metric, loop, sinceDown, quiet, failed>>
  BY DEF OtherClients, Noticed
<1>3. stale' = (stale \/ (loop.at = "update" /\ stored'[Target] # stored[Target]))
  BY DEF OtherClients, Noticed
<1>4. stale' \in BOOLEAN
  BY <1>3
<1>5. LoopTypes' /\ ClockAgrees'
  BY <1>2, <1>4 DEF Inv, LoopTypes, ClockAgrees
<1>6. UpdateIsFresh'
  <2>1. SUFFICES ASSUME loop.at = "update", ~stale'
                 PROVE  ~stale /\ stored'[Target] = stored[Target]
    BY <1>2 DEF Inv, UpdateIsFresh
  <2>. QED  BY <1>3, <2>1
<1>. QED  BY <1>1, <1>5, <1>6 DEF Inv

LEMMA NextInv == Inv /\ [Next]_vars => Inv'
<1>. SUFFICES ASSUME Inv, [Next]_vars PROVE Inv'
  OBVIOUS
<1>1. CASE UNCHANGED vars
  BY <1>1 DEF vars, admissionVars, forecasterVars, Inv, AdmissionInv,
              AdmissionTypes, PatchOK, LoopTypes, SpecsAreValid, ShownAreKnown,
              ClockAgrees, UpdateIsFresh
<1>2. CASE Forecaster
  BY <1>2, TickInv, ReadBuildInv, SkipScaleDownInv, ReadFailsInv, AnsweredInv,
     AnswerLostInv, UpdateRefusedInv, RestartInv DEF Forecaster
<1>. QED  BY <1>1, <1>2, TimePassesInv, MetricChangesInv, OtherClientsInv DEF Next

THEOREM InvCorrect == Spec => []Inv
BY InitInv, NextInv, PTL DEF Spec

-----------------------------------------------------------------------------
(* The theorems                                                            *)

(* Whatever clients, stale patches and the forecaster write: what is stored*)
(* has 0 <= standingBy <= max and ports that can be exposed.               *)
THEOREM SpecsAreValidCorrect == Spec => []SpecsAreValid
<1>1. Inv => SpecsAreValid
  BY DEF Inv, AdmissionInv
<1>. QED  BY <1>1, InvCorrect, PTL

(* A BuildID that the webhook has seen is not given to a second build: the *)
(* cached BuildID of such a build is the stored one, and Create looks at it.*)
THEOREM OneBuildPerIDCorrect == Spec => OneBuildPerID
<1>1. ASSUME Inv, [Next]_vars, NEW a \in Builds, NEW b \in Builds,
             a # b, a \in shown, stored[b] = None, stored'[b] # None
      PROVE  stored'[b].id # stored[a].id
  <2>1. Create(b)
    <3>. USE DEF Store
    <3>1. stored \in [Builds -> Objects \cup {None}]
      BY <1>1 DEF Inv, AdmissionInv, AdmissionTypes
    <3>2. ASSUME NEW c \in Builds, NEW object, Store(c, object), stored[c] # None
          PROVE  FALSE
      BY <1>1, <3>1, <3>2
    <3>3. ~Forecaster
      BY <1>1, <3>2, ForecasterAssumption
      DEF ForecasterAssumption, Forecaster, Tick, ReadBuild, SkipScaleDown, ReadFails,
          Answered, AnswerLost, UpdateRefused, Restart, UpdateStored, Accepted,
          AcceptsUpdate, admissionVars
    <3>4. OtherClients
      BY <1>1, <3>3 DEF Next, vars, admissionVars, TimePasses, MetricChanges
    <3>5. ASSUME NEW patch \in patches
          PROVE  ~PatchStored(patch) /\ ~PatchFails(patch)
      BY <1>1, <3>2 DEF PatchStored, PatchFails, Inv, AdmissionInv, AdmissionTypes,
                        PatchOK
    <3>6. ASSUME NEW c \in Builds
          PROVE  /\ ~Edit(c) /\ ~DeleteBuild(c) /\ ~BeginPatch(c)
                 /\ ~ShowWebhook(c) /\ ~ShowApi(c) /\ ~Report(c) /\ ~Converge(c)
      BY <1>1, <3>2 DEF Edit, AcceptsUpdate, DeleteBuild, BeginPatch, ShowWebhook,
                        ShowApi, Report, Converge
    <3>7. ASSUME NEW c \in Builds, Create(c)
          PROVE  c = b
      BY <1>1, <3>1, <3>7 DEF Create
    <3>. QED  BY <3>4, <3>5, <3>6, <3>7 DEF OtherClients, AdmissionNext
  <2>2. PICK spec \in Specs : /\ ValidateCreate(b, spec)
                              /\ Store(b, WithStatus(spec, 0, 0))
    BY <2>1 DEF Create
  <2>3. stored'[b].id = spec.id
    BY <1>1, <2>2 DEF Store, WithStatus, Inv, AdmissionInv, AdmissionTypes
  <2>4. known[a] # spec.id /\ known[a] = stored[a].id
    BY <1>1, <2>2
    DEF ValidateCreate, ValidateCreateBuildID, Inv, AdmissionInv, ShownAreKnown
  <2>. QED  BY <2>3, <2>4
<1>2. Inv /\ [Next]_vars =>
        [\A a, b \in Builds :
            a # b /\ a \in shown /\ stored[b] = None /\ stored'[b] # None
            => stored'[b].id # stored[a].id]_admissionVars
  BY <1>1
<1>. QED  BY <1>2, InvCorrect, PTL DEF Spec, OneBuildPerID

(* Two scale-downs are a cool-off period apart, whatever else happens and  *)
(* however often the process is started again, unless a request has failed.*)
THEOREM CoolOffKeptCorrect == Spec => CoolOffKept
<1>1. Inv /\ [Next]_vars => [Scales /\ loop.down => quiet = CoolOff \/ failed]_vars
  <2>1. SUFFICES ASSUME Inv, loop.at = "update", loop.down, ~failed
                 PROVE  quiet = CoolOff
    BY DEF Scales
  <2>. QED  BY <2>1, CoolOffIsTime DEF Inv, LoopTypes, ClockAgrees
<1>. QED  BY <1>1, InvCorrect, PTL DEF Spec, CoolOffKept

(* A write of the forecaster leaves everything but standingBy as it is at  *)
(* that moment, and takes it down by no more than a step.                  *)
THEOREM StepsAreBoundedCorrect == Spec => StepsAreBounded
<1>1. ASSUME Inv, [Next]_vars, Scales
      PROVE  LET old == stored[Target]
                 new == stored'[Target]
             IN  /\ new = [old EXCEPT !.standingBy = new.standingBy]
                 /\ loop.down =>
                      new.standingBy >= Max({old.standing - Step, Minimum}) + Buffer
  <2>1. UpdateStored
    <3>1. ~OtherClients /\ ~TimePasses /\ ~MetricChanges /\ ~UNCHANGED vars
      BY <1>1 DEF Scales, OtherClients, Noticed, TimePasses, MetricChanges, vars,
                  admissionVars
    <3>2. Forecaster
      BY <1>1, <3>1 DEF Next
    <3>3. ~Tick /\ ~ReadBuild /\ ~SkipScaleDown /\ ~ReadFails /\ ~UpdateRefused
          /\ ~Restart
      BY <1>1 DEF Scales, Tick, ReadBuild, SkipScaleDown, ReadFails, UpdateRefused,
                  Restart, admissionVars
    <3>. QED  BY <3>2, <3>3 DEF Forecaster, Answered, AnswerLost
  <2>2. Target \in Builds /\ ~stale /\ stored' = [stored EXCEPT ![Target] = Written]
    BY <2>1, ForecasterAssumption DEF ForecasterAssumption, UpdateStored, Accepted, Store
  <2>3. /\ stored[Target] # None
        /\ loop.build = [stored[Target] EXCEPT !.standingBy = loop.build.standingBy]
        /\ loop.down => loop.build.standingBy
                          >= Max({stored[Target].standing - Step, Minimum}) + Buffer
    BY <1>1, <2>2 DEF Inv, UpdateIsFresh, Scales
  <2>4. stored'[Target] = Written /\ stored[Target] \in Objects
    BY <1>1, <2>2, <2>3 DEF Inv, AdmissionInv, AdmissionTypes
  <2>5. Written = loop.build
    BY <2>3, <2>4 DEF Written, Objects
  <2>. QED  BY <2>3, <2>4, <2>5
<1>2. Inv /\ [Next]_vars =>
        [Scales =>
           LET old == stored[Target]
               new == stored'[Target]
           IN  /\ new = [old EXCEPT !.standingBy = new.standingBy]
               /\ loop.down =>
                    new.standingBy >= Max({old.standing - Step, Minimum}) + Buffer]_vars
  BY <1>1
<1>. QED  BY <1>2, InvCorrect, PTL DEF Spec, StepsAreBounded

-----------------------------------------------------------------------------
(* What is admitted can be run                                             *)

LEMMA TemplatesAreTyped == \A t \in Templates : IsTemplate(t)
<1>1. ASSUME NEW t \in Templates
      PROVE  IsTemplate(t)
  <2>1. t.metadata \in Seq([key : Seq(STRING), value : Seq(STRING)])
    BY TemplateAssumption DEF TemplateAssumption
  <2>2. [key : Seq(STRING), value : Seq(STRING)] \subseteq MetadataItem
    <3>1. STRING \subseteq Tokens
      BY DEF Tokens
    <3>2. \A s \in Seq(STRING) : s \in Seq(Tokens)
      BY <3>1, WiderSeq
    <3>. QED  BY <3>2 DEF MetadataItem
  <2>3. t.metadata \in Seq(MetadataItem)
    BY <2>1, <2>2, WiderSeq
  <2>. QED  BY <2>3, TemplateAssumption DEF TemplateAssumption, IsTemplate, PortRecords
<1>. QED  BY <1>1

(* Whatever template the webhook has admitted and whatever host ports it   *)
(* gets, the controllers can make its GameServers and their Pods.          *)
THEOREM CanBeMadeCorrect == Spec => []AdmittedCanBeMade
<1>1. ASSUME Inv
      PROVE  AdmittedCanBeMade
  <2>1. ASSUME NEW b \in Builds, stored[b] # None,
               NumbersExposedOnce(stored[b].template), NEW ports
        PROVE  LET t   == stored[b].template
                   gs  == GameServerTemplate(t, ports)
                   pod == PodForGameServer(b, gs)
               IN  /\ EnoughHostPorts(t)
                   /\ ValidateGameServer(gs)
                   /\ FoldersCreated(pod.init)
                   /\ ConfigIsFound(pod)
    <3>. DEFINE t == stored[b].template
    <3>1. t \in Templates /\ ValidateBuildPorts(t)
      BY <1>1, <2>1 DEF Inv, AdmissionInv, AdmissionTypes, Objects, SpecsAreValid
    <3>2. IsTemplate(t)
      BY <3>1, TemplatesAreTyped
    <3>3. NumbersExposedOnce(t)
      BY <2>1
    <3>. HIDE DEF t
    <3>4. EnoughHostPorts(t) /\ ValidateGameServer(GameServerTemplate(t, ports))
      BY <3>1, <3>2, <3>3, PickedFit, GameServerIsValid
    <3>. QED  BY <3>4, FilesAreFound DEF t
  <2>. QED  BY <2>1 DEF AdmittedCanBeMade
<1>. QED  BY <1>1, InvCorrect, PTL

(* And started: the init container gets through the texts that it is given,*)
(* whatever the template says in the limits of InitContainerCanRead, and   *)
(* the process reads its ports and its metadata as the build says.         *)
THEOREM CanRunCorrect == Spec => []AdmittedCanRun
<1>1. ASSUME Inv, AdmittedCanBeMade
      PROVE  AdmittedCanRun
  <2>1. ASSUME NEW b \in Builds, stored[b] # None,
               NumbersExposedOnce(stored[b].template),
               InitContainerCanRead(stored[b].template),
               NEW ports \in HostPortChoices(stored[b].template)
        PROVE  LET t    == stored[b].template
                   gs   == GameServerTemplate(t, ports)
                   init == PodForGameServer(b, gs).init
               IN  /\ InitContainerSucceeds(init)
                   /\ PortsMatch(t, gs, GsdkConfig(init))
                   /\ MetadataMatches(t, GsdkConfig(init))
    <3>. DEFINE t == stored[b].template
    <3>1. t \in Templates /\ ValidateBuildPorts(t)
      BY <1>1, <2>1 DEF Inv, AdmissionInv, AdmissionTypes, Objects, SpecsAreValid
    <3>2. IsTemplate(t)
      BY <3>1, TemplatesAreTyped
    <3>3. NumbersExposedOnce(t) /\ InitContainerCanRead(t) /\ ports \in HostPortChoices(t)
      BY <2>1
    <3>. HIDE DEF t
    <3>4. LET gs   == GameServerTemplate(t, ports)
              init == PodForGameServer(b, gs).init
          IN  /\ InitContainerSucceeds(init)
              /\ PortsMatch(t, gs, GsdkConfig(init))
              /\ MetadataMatches(t, GsdkConfig(init))
      BY <3>1, <3>2, <3>3, ConfigIsRight
    <3>. QED  BY <3>4 DEF t
  <2>. QED  BY <1>1, <2>1 DEF AdmittedCanRun
<1>. QED  BY <1>1, InvCorrect, CanBeMadeCorrect, PTL

=============================================================================
