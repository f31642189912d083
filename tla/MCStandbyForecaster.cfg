SPECIFICATION FairSpec
CONSTANTS
    b1 = b1
    b2 = b2
    i1 = i1
    i2 = i2
    none = none
    Builds = {b1, b2}
    BuildIDs = {i1, i2}
    Templates <- VariousTemplates
    None = none
    Counts <- TheCounts
    Offers <- TheOffers
    HostPorts = {7, 8, 9}
    Scenarios <- TheScenarios
    Target = b1
    Step = 2
    Minimum = 1
    Buffer = 1
    Divisor = 2
    CoolOff = 2
    Forecasts <- TheForecasts
INVARIANTS
    SpecsAreValid
    AdmittedCanRun
PROPERTIES
    OneBuildPerID
    CoolOffKept
    StepsAreBounded
    Settles
CHECK_DEADLOCK FALSE
