SPECIFICATION Spec
CONSTANTS
    b1 = b1
    b2 = b2
    s1 = s1
    TQQQ = TQQQ
    SOXL = SOXL
    Buys = {b1, b2}
    Sells = {s1}
    Symbols = {TQQQ, SOXL}
    Symbol <- MCSymbol
    Qty <- MCQty
    Limit <- MCLimit
    Close <- MCClose
    Prices = {1, 2}
    Scale = 5
    FeeRate = 1
    InitialCapital = 20
    PriorProfit = 16
    PartialFills = FALSE
    MaxCrashes = 0
PROPERTY
    NewBuyWithinBudget
CHECK_DEADLOCK FALSE
