CONSTANTS
    Hubs <- TwoHubs
    Conversations = {1}
    BatchSize = 2
    MaxEntries = 2
    MaxLate = 1
    MaxRestarts = 1
SPECIFICATION Spec
INVARIANTS
    OneHandler
    NothingSkipped
    NoticeAtMostOnce
CHECK_DEADLOCK FALSE
