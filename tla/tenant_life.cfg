SPECIFICATION FairSpec
CONSTANTS
    Procs = {p1, p2}
    Nobody = Nobody
    Old = Old
    None = None
    DefaultTry = 3
    FaultKinds <- AllFaults
    MaxFaults = 1
    TTLCoversHolder = TRUE
INVARIANT TypeOK
PROPERTY OperationReturns
CHECK_DEADLOCK FALSE
