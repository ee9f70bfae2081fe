SPECIFICATION FairSpec
CONSTANTS
    MaxQty = 2
    Fraction <- Percent30
    RemainderExit = TRUE
    MaxOrders = 6
    MaxFaults = 1
INVARIANTS
    TypeOK
    SellsWithinPosition
    NoShareSoldTwice
    PositionDiffersByFillsInFlight
    PositionIsWhatThePlanHasLeft
    EveryShareIsOffered
PROPERTY
    BuySettles
CHECK_DEADLOCK FALSE
