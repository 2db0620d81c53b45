SPECIFICATION FairSpec
CONSTANTS
    Nodes = {"n1", "n2", "n3"}
    Cpus = 2
    BaseAllowance = 1
    ProbeAllowance = 1
    MinGrowth = 1
    GrowBudget = 1
    Scenarios <- MCScenarios
INVARIANTS
    SlotsKept
    BlindGrowthBounded
PROPERTIES
    InputsDrain
CHECK_DEADLOCK FALSE
