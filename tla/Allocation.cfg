SPECIFICATION FairSpec
CONSTANTS
    a = a
    b = b
    SymbolOrder <- Order
    Runs = {scheduler}
    Scheduler = scheduler
    Weights = {0, 1}
    MaxTarget = 1
    MaxSessions = 3
    MaxCrashes = 1
INVARIANT
    TypeOK
PROPERTIES
    BuyAfterSell
    TradesFollowTheStrategy
    FrozenOnce
    SurplusIsSold
CHECK_DEADLOCK FALSE
