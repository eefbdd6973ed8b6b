CONSTANTS
    Hubs <- OneHub
    Conversations = {1, 2}
    BatchSize = 1
    MaxEntries = 2
    MaxLate = 0
    MaxRestarts = 1
SPECIFICATION FairSpec
PROPERTIES
    EverythingIsHandled
CHECK_DEADLOCK FALSE
