SPECIFICATION FairSpec
CONSTANTS
    m1 = m1
    m2 = m2
    j1 = j1
    j2 = j2
    Machines = {m1, m2}
    LoggedIn = {m2}
    Jobs = {j1, j2}
    Versions = {1, 2}
    Plans <- All
    CallsMeet = FALSE

    
PROPERTIES
    DeployedHistoryKept
    Converges
CHECK_DEADLOCK FALSE
