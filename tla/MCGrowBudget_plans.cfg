SPECIFICATION Spec
CONSTANTS
    j1 = j1
    j2 = j2
    Jobs = {j1, j2}
    Nodes = {1, 2, 3, 4, 5, 6}
    Sizes = {6, 4, 2}
    Mixes <- All
INVARIANTS
    WithinGrant
    PlansSound
CHECK_DEADLOCK FALSE
