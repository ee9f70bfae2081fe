SPECIFICATION Spec
CONSTANTS
    NoApproval = NoApproval
    Handlers = {t1, t2}
    Approvals = {a1, a2, a3, a4}
    MaxGeneration = 2
    MaxTarget = 2
    MaxCrashes = 0
SYMMETRY Symmetry
INVARIANTS
    TypeOK
    NeverOverbuys
    BuysAreApprovedTwice
CHECK_DEADLOCK FALSE
