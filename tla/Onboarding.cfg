SPECIFICATION FairSpec
CONSTANTS
    Symbols = {a}
    Scheduler = scheduler
    Operators = {operator}
    Fractions <- Thirds
    Whole = 3
    MinSessions = 1
    MaxTarget = 2
    MaxSessions = 3
    MaxFaults = 1
INVARIANTS
    TypeOK
    NothingBeforeStart
PROPERTIES
    AdvanceAfterWait
    LastStageCompletes
CHECK_DEADLOCK FALSE
