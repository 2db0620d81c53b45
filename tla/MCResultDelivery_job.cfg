SPECIFICATION FairSpec
CONSTANTS
    n1 = n1
    n2 = n2
    i1 = i1
    i2 = i2
    Nodes <- TwoNodes
    Inputs <- TwoInputs
    Splits <- SplitsFromFirst
    MaxLosses = 1
    EarlyExit = FALSE
INVARIANTS
    ResultsKept
    VerdictTrue
PROPERTIES
    AttachedJobEnds
