SPECIFICATION FairSpec
CONSTANTS
    x = x
    y = y
    Idle = Idle
    SecsPerDay = 2
    TimeFeeMaxDays = 2
    U32Max = 2
    U64Max = 8
    Rules = {1}
    TimeRules = {1}
    DueAt <- TimeDue
    Plans <- TimePlan
    Correlations = {x, y}
    CacheSize = 2
    MaxEvents = 2
    MaxFaults = 1
    MaxTime = 2
    Preflight = TRUE


CHECK_DEADLOCK FALSE
PROPERTY DueRulesFire
