SPECIFICATION FairSpec
CONSTANTS
    a = a
    b = b
    SymbolOrder <- Order
    Runs = {scheduler}
    Scheduler = scheduler
    Weights = {0, 1}
    MaxTarget = 1
    MaxSessions = 2
    MaxCrashes = 1
PROPERTY
    ReductionIsSold
CHECK_DEADLOCK FALSE
