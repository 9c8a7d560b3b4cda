SPECIFICATION FairSpec
CONSTANTS
    x = x
    y = y
    Idle = Idle
    SecsPerDay = 2
    TimeFeeMaxDays = 2
    U32Max = 2
    U64Max = 8
    Rules = {1, 2, 3}
    TimeRules = {3}
    DueAt <- MixedDue
    Plans <- MixedPlans
    Correlations = {x, y}
    CacheSize = 2
    MaxEvents = 2
    MaxFaults = 2
    MaxTime = 2
    Preflight = TRUE
INVARIANTS TypeOK InFlightExact ReplayWindow
PROPERTY ClaimsAreReleased
CHECK_DEADLOCK FALSE
