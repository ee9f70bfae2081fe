SPECIFICATION FairSpec
CONSTANTS
    s1 = s1
    NoSignal = NoSignal
    Signals = {s1}
    Handlers = {t1}
    Need <- AllOfIt
    Capital = 1
    MaxOrders = 3
    MaxApprovals = 1
    MaxFaults = 1
INVARIANTS
    TypeOK
    ManagedDiffersByUnappliedFills
    CashCoversOrders
PROPERTIES
    DeadIntentsEnd
    WaitingEnds
CHECK_DEADLOCK FALSE
