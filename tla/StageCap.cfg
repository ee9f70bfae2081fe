SPECIFICATION Spec
CONSTANTS
    Symbols = {a}
    Scheduler = scheduler
    Operators = {operator}
    Fractions <- Halves
    Whole = 2
    MinSessions = 1
    MaxTarget = 4
    MaxSessions = 1
    MaxFaults = 0
PROPERTY
    StageCapHolds
CHECK_DEADLOCK FALSE
