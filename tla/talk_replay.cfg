CONSTANTS
    Hubs <- OneHub
    Conversations = {1}
    BatchSize = 2
    MaxEntries = 2
    MaxLate = 1
    MaxRestarts = 1
SPECIFICATION Spec
INVARIANTS
    HandledOnceAlways
CHECK_DEADLOCK FALSE
