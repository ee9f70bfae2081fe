SPECIFICATION FairSpec
CONSTANTS
    buy = buy
    sell = sell
    s1 = s1
    w1 = w1
    sched = sched
    NoOrder = NoOrder
    Orders = {buy, sell}
    Symbols = {s1}
    Workers = {w1}
    Scheduler = sched
    Side <- MCSide
    Symbol <- MCSymbol
    Qty <- MCQty
    InitialQty <- MCInitialQty
    PartialFills = TRUE
    MaxCrashes = 1
INVARIANTS
    TypeOK
    NoStrandedFill
    LedgerCoversSells
    BrokerCoversSells
    LostOrdersAreNoticed
    LedgerIsAppliedFills
    BrokerDiffersByFillsInFlight
PROPERTIES
    RowsNeverRegress
    FillsReachLedger
    ImplementsExactlyOnce
