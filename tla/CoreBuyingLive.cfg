SPECIFICATION FairSpec
CONSTANTS
    NoApproval = NoApproval
    Handlers = {t1}
    Approvals = {a1, a2}
    MaxGeneration = 2
    MaxTarget = 2
    MaxCrashes = 1
PROPERTIES
    GapIsOffered
    
CHECK_DEADLOCK FALSE
