SPECIFICATION FairSpec
CONSTANTS
    Workers = {1, 2}
    MaxBoots = 2
    Jobs = {1, 2}
    Inputs = {1, 2}
    Plans <- All
INVARIANTS
    JobsApart
PROPERTIES
    NodeComesBack
CHECK_DEADLOCK FALSE
