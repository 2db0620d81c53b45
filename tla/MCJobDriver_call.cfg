SPECIFICATION FairSpec
CONSTANTS
    a = a
    b = b
    c = c
    Nodes = {a, b, c}
    Late = {c}
    NInputs = 2
    Slots <- OneSlot
    Plans <- AllPlans
    Faults <- Tolerated
    MaxFaults = 1
    MaxFleet = 2
    Background = TRUE
    SlowAssign = FALSE
INVARIANTS
    InputsTended
    FailuresContained
PROPERTIES
    CallEnds
