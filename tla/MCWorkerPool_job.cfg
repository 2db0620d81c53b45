SPECIFICATION SpecMemoryFrees
CONSTANTS
    Workers = {w1, w2}
    FirstWorkers = {w1, w2}
    Inputs = {i1, i2}
    NoInput = NoInput
    Faults = {{"process","rollback"}, {"peer","rollback"}, {"container"}}
    MaxSheds = 2
    MaxShocks = 1
INVARIANTS
    InputsOwned
PROPERTIES
    EveryInputEnds
    KeepsPromise
