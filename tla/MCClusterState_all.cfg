SPECIFICATION FairSpec
CONSTANTS
    n1 = n1
    n2 = n2
    j1 = j1
    j2 = j2
    Nodes = {n1, n2}
    Jobs = {j1, j2}
    Attempts = {1, 2}
    Starts <- AllStarts
    MaxLosses = 1
    MaxRestarts = 1
    NoJob = NoJob
    Keep = Keep
INVARIANTS
    TypeOK
    HistoryInStep
    EndedJobsHoldNothing
    ReservedAsAnswered
    PausedMeansIdle
PROPERTIES
    NodesPromisedOnce
    FailureSticks
    HeadFollowsNodes
CHECK_DEADLOCK FALSE
