SPECIFICATION FairSpec
CONSTANTS
    Nodes = {n1, n2}
    Inputs = {i1, i2}
    Transfers = {t1}
    MaxShocks = 1
    Dynamic = TRUE
    LateGet = FALSE
    Detached = FALSE
    Scoped = TRUE
    NoTransfer = NoTransfer
    NoNode = NoNode
INVARIANTS
    TypeOK
    AtMostOnce
    NoInputLost
PROPERTIES
    KeepsPromise
    JobEndsEverywhere
