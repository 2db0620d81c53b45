SPECIFICATION FairSpec
CONSTANTS
    u = u
    v = v
    None = None
    Workers = {u}
    Lines <- TwoAndOne
    DocLines = 2
    MaxPending = 2
    MaxDocs = 2
    Faults <- Tolerated
    MaxFaults = 1
INVARIANTS
    LogsFetchableFirst
    CopiesTrue
PROPERTIES
    LogsHoldNothingUp
CHECK_DEADLOCK FALSE
