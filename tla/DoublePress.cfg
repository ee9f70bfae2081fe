SPECIFICATION Spec
CONSTANTS
    Symbols = {a}
    Scheduler = scheduler
    Operators = {op1, op2}
    Fractions <- Thirds
    Whole = 3
    MinSessions = 1
    MaxTarget = 2
    MaxSessions = 3
    MaxFaults = 0
PROPERTY
    OneWaitPerStage
CHECK_DEADLOCK FALSE
