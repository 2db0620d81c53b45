SPECIFICATION FairSpec
CONSTANTS
    t1 = t1
    t2 = t2
    Nodes = {1, 2}
    Tasks = {t1, t2}
    Quantity = 1
    Mixes <- All
INVARIANTS
    NothingUnminded
PROPERTIES
    VmsGo
    BusyVmKept
CHECK_DEADLOCK FALSE
