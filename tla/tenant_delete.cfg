SPECIFICATION Spec
CONSTANTS
    Procs = {p1, p2}
    Nobody = Nobody
    Old = Old
    None = None
    DefaultTry = 3
    FaultKinds <- NoFaults
    MaxFaults = 0
    TTLCoversHolder = TRUE
SYMMETRY Symmetry
INVARIANT WholeDespiteDelete
CHECK_DEADLOCK FALSE
