SPECIFICATION FairSpec
CONSTANTS
    Procs = {p1, p2}
    Containers = {c1, c2}
    Nobody = Nobody
    None = None
    FirstBridge = FirstBridge
    DefaultTry = 3
    MaxCalls = 2
    FaultKinds <- EtcdAndCrashes
    MaxFaults = 2
    Slots = 1
    DeleteMissingOk = FALSE
    TTLCoversHolder = FALSE
INVARIANT TypeOK
PROPERTIES
    SameAnswer
    RunsAdvance
    Terminates
CHECK_DEADLOCK FALSE
