SPECIFICATION Spec
CONSTANTS
    Runs = {a, b}
    Agent = Agent
    BatchSize = 2
    MaxTail = 4
    MaxParts = 2
    MaxEpochs = 2
    MaxCuts = 1
SYMMETRY Symmetry
INVARIANTS
    ViewIsFaithful
    EndIsComplete
PROPERTIES
    PartsFromTheStart
CHECK_DEADLOCK FALSE
