SPECIFICATION Spec
CONSTANTS
    Procs = {p1, p2}
    Nobody = Nobody
    Old = Old
    None = None
    DefaultTry = 3
    FaultKinds <- AllFaults
    MaxFaults = 2
    TTLCoversHolder = TRUE
SYMMETRY Symmetry
INVARIANTS
    WholeUnlessOverlap
    NoSecondInit
    FailedInitUndone
    WaitersReached
CHECK_DEADLOCK FALSE
