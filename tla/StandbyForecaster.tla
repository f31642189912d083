-------------------------- MODULE StandbyForecaster --------------------------
(***************************************************************************)
(* The standby forecaster (cmd/standby-forecaster): on every tick it       *)
(* predicts how many servers will be needed, reads its build from the API  *)
(* server and writes standingBy, scaling down by a few servers at a time   *)
(* and not again before a cool-off period is over.                         *)
(*                                                                         *)
(* It is composed with BuildAdmission, whose clients change the same build *)
(* while the forecaster works on what it has read; the ResourceVersion in  *)
(* the object it writes back makes the API server refuse it then.  "stale" *)
(* stands for the comparison: a write that changes nothing keeps the       *)
(* ResourceVersion.                                                        *)
(***************************************************************************)
EXTENDS BuildAdmission

CONSTANTS
    Target,     \* TargetGameServerBuildName
    Step,       \* MaxScaleDownStepSize
    Minimum,    \* ForecastMinimumServers
    Buffer,     \* ForecastBufferServers
    Divisor,    \* MetricToServerConversionOperationValue, to divide by
    CoolOff,    \* ScaleDownCoolOffPeriod
    Forecasts   \* bound: [winters, long, short], what the metric will be

ForecasterAssumption ==
    /\ Target \in Builds
    /\ {Step, Minimum, Buffer} \subseteq Nat
    /\ {Divisor, CoolOff} \subseteq Nat \ {0}
    /\ Forecasts \subseteq [winters : Int, long : Int, short : Int]

ASSUME ForecasterAssumption

VARIABLES
    metric,     \* what the three methods predict from the series
    loop,       \* where the main loop is, and what it knows there
    stale,      \* whether the build has changed since it was read
    sinceDown,  \* time since lastScaleDownTime; CoolOff is that or more
    quiet,      \* time since a scale-down was stored, likewise
    failed      \* whether a request has failed since, in this process

forecasterVars == <<metric, loop, stale, sinceDown, quiet, failed>>
vars == <<admissionVars, forecasterVars>>

Idle == [at |-> "idle"]

(* A scenario without forecaster has no loop: it is an optional part.      *)
Init ==
    /\ AdmissionInit
    /\ metric = [winters |-> 0, long |-> 0, short |-> 0]
    /\ loop = IF stored[Target] = None THEN [at |-> "absent"] ELSE Idle
    /\ stale = FALSE
    /\ sinceDown = 0
    /\ quiet = 0
    /\ failed = FALSE

-----------------------------------------------------------------------------
(* One pass of the loop                                                    *)

(* getForecastedServerCount: the highest of the forecasts, no less than 0, *)
(* divided and rounded up.                                                 *)
TotalServersNeeded(m) ==
    (Max({m.winters, m.long, m.short, 0}) + Divisor - 1) \div Divisor

(* A tick: the query, unless it fails or there is no forecast.             *)
Tick ==
    /\ loop = Idle
    /\ loop' = [at |-> "forecast", needed |-> TotalServersNeeded(metric)]
    /\ UNCHANGED <<admissionVars, metric, stale, sinceDown, quiet, failed>>

Reading == loop.at = "forecast" /\ stored[Target] # None

DesiredStandby == loop.needed - stored[Target].active

MustScaleDown == DesiredStandby < stored[Target].standing

CoolingOff == MustScaleDown /\ sinceDown < CoolOff

(* Variant of ScaledDown: the buffer is added here and once more.          *)
ScaledDownAndBuffered ==
    LET standing == stored[Target].standing
        limited  == IF standing - DesiredStandby > Step THEN standing - Step
                    ELSE DesiredStandby
    IN  Max({limited, Minimum}) + Buffer

(* The circuit breaker limits the step down, the minimum the result.       *)
ScaledDown ==
    LET standing == stored[Target].standing
        limited  == IF standing - DesiredStandby > Step THEN standing - Step
                    ELSE DesiredStandby
    IN  Max({limited, Minimum})

(* The build as it will be written: only standingBy is another one.        *)
ReadBuild ==
    /\ Reading /\ ~CoolingOff
    /\ LET target == (IF MustScaleDown THEN ScaledDown ELSE DesiredStandby) + Buffer
       IN  loop' = [at |-> "update", down |-> MustScaleDown,
                    build |-> [stored[Target] EXCEPT !.standingBy = target]]
    /\ stale' = FALSE
    /\ UNCHANGED <<admissionVars, metric, sinceDown, quiet, failed>>

SkipScaleDown ==
    /\ Reading /\ CoolingOff
    /\ loop' = Idle
    /\ UNCHANGED <<admissionVars, metric, stale, sinceDown, quiet, failed>>

(* Every error of a request returns the zero time, long before any         *)
(* cool-off period.                                                        *)
LoseCoolOff ==
    /\ loop' = Idle
    /\ sinceDown' = CoolOff
    /\ failed' = TRUE

(* Get fails, or the build is not there.                                   *)
ReadFails ==
    /\ loop.at = "forecast"
    /\ IF stored[Target] = None THEN UNCHANGED left ELSE Spend("errors")
    /\ LoseCoolOff
    /\ UNCHANGED <<stored, known, copies, patches, shown, metric, stale, quiet>>

(* The status is a subresource, which an update of the build leaves alone. *)
Written == [loop.build EXCEPT !.active = stored[Target].active,
                              !.standing = stored[Target].standing]

(* Variant of Accepted: an update without the ResourceVersion.             *)
AcceptedAnyway == AcceptsUpdate(Target, Written)

Accepted == ~stale /\ AcceptsUpdate(Target, Written)

UpdateStored ==
    /\ loop.at = "update"
    /\ Accepted
    /\ Store(Target, Written)
    /\ quiet' = IF loop.down THEN 0 ELSE quiet
    /\ UNCHANGED <<known, copies, patches, shown, metric, stale>>

Answered ==
    /\ UpdateStored
    /\ loop' = Idle
    /\ IF loop.down THEN sinceDown' = 0 /\ failed' = FALSE
       ELSE UNCHANGED <<sinceDown, failed>>
    /\ UNCHANGED left

AnswerLost == UpdateStored /\ Spend("errors") /\ LoseCoolOff

(* A conflict, a number that the schema or the webhook refuses, an error.  *)
UpdateRefused ==
    /\ loop.at = "update"
    /\ IF Accepted THEN Spend("errors") ELSE UNCHANGED left
    /\ LoseCoolOff
    /\ UNCHANGED <<stored, known, copies, patches, shown, metric, stale, quiet>>

(* Variant of Restart: the zero time at the start.                         *)
RestartWithoutCoolOff ==
    /\ loop.at # "absent"
    /\ Spend("restarts")
    /\ loop' = Idle
    /\ sinceDown' = CoolOff
    /\ failed' = FALSE
    /\ UNCHANGED <<stored, known, copies, patches, shown, metric, stale, quiet>>

(* The process ends, as it does when the series is shorter than the        *)
(* history that the regressions cut from its end, and is started again.    *)
Restart ==
    /\ loop.at # "absent"
    /\ Spend("restarts")
    /\ loop' = Idle
    /\ sinceDown' = 0
    /\ failed' = FALSE
    /\ UNCHANGED <<stored, known, copies, patches, shown, metric, stale, quiet>>

-----------------------------------------------------------------------------
(* The world around it                                                     *)

Forecaster == \/ Tick \/ ReadBuild \/ SkipScaleDown \/ ReadFails
              \/ Answered \/ AnswerLost \/ UpdateRefused \/ Restart

TimePasses ==
    /\ loop.at # "absent"
    /\ sinceDown < CoolOff \/ quiet < CoolOff
    /\ sinceDown' = Min({sinceDown + 1, CoolOff})
    /\ quiet' = Min({quiet + 1, CoolOff})
    /\ UNCHANGED <<admissionVars, metric, loop, stale, failed>>

MetricChanges ==
    /\ loop.at # "absent"
    /\ Spend("changes")
    /\ metric' \in Forecasts \ {metric}
    /\ UNCHANGED <<stored, known, copies, patches, shown,
                   loop, stale, sinceDown, quiet, failed>>

Noticed ==
    /\ stale' = (stale \/ (loop.at = "update" /\ stored'[Target] # stored[Target]))
    /\ UNCHANGED <<metric, loop, sinceDown, quiet, failed>>

OtherClients == AdmissionNext /\ Noticed

Next == Forecaster \/ TimePasses \/ MetricChanges \/ OtherClients

Spec == Init /\ [][Next]_vars

(* The ticker goes on, requests are answered, time passes, and the build   *)
(* controller works until the status fits.                                 *)
Fairness == /\ WF_vars(Forecaster)
            /\ WF_vars(TimePasses)
            /\ WF_vars(Converge(Target) /\ Noticed)

FairSpec == Spec /\ Fairness

-----------------------------------------------------------------------------
(* What must hold                                                          *)

(* A step that stores what the forecaster has written.                     *)
Scales == loop.at = "update" /\ loop'.at = "idle" /\ stored' # stored

(* Two scale-downs are a cool-off period apart, unless a request of the    *)
(* same process has failed in between: a restart does not shorten it.      *)
CoolOffKept ==
    [][Scales /\ loop.down => quiet = CoolOff \/ failed]_vars

(* The forecaster changes nothing but standingBy, and takes it no lower    *)
(* than one step and the buffer below the servers that stand by at that    *)
(* moment, nor below the minimum: what it has read some time before is     *)
(* still so when it is written.                                            *)
StepsAreBounded ==
    [][Scales =>
         LET old == stored[Target]
             new == stored'[Target]
         IN  /\ new = [old EXCEPT !.standingBy = new.standingBy]
             /\ loop.down =>
                  new.standingBy >= Max({old.standing - Step, Minimum}) + Buffer]_vars

(* What is needed of a build whose max has room for it.                    *)
Needed == TotalServersNeeded(metric) - stored[Target].active
Enough == Max({Needed, Minimum}) + Buffer
Reachable == /\ stored[Target] # None
             /\ Enough <= stored[Target].max

(* When demand stays as it is, standingBy ends up at what is needed: no    *)
(* less, and no more than the buffer above it and the minimum.  A buffer as*)
(* large as the step would undo every step down.                           *)
Settles ==
    Buffer < Step =>
        <>[](Reachable /\ loop.at # "absent" =>
                Needed <= stored[Target].standingBy
                /\ stored[Target].standingBy <= Enough)

=============================================================================
