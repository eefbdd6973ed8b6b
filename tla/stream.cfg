SPECIFICATION Spec
CONSTANTS
    Readers = {a, b}
    Steps = {s1}
    Limit = 2
    BatchSize = 1
    MaxTail = 4
    None = None
SYMMETRY Symmetry
INVARIANTS
    Retention
    ReadersAreServed
PROPERTIES
    LoopsAgree
    LossIsEarned
CHECK_DEADLOCK FALSE
