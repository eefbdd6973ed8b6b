SPECIFICATION FairSpec
CONSTANTS
    Runs = {a}
    Agent = Agent
    BatchSize = 2
    MaxTail = 5
    MaxParts = 1
    MaxEpochs = 2
    MaxCuts = 1
PROPERTIES
    FollowerLearnsTheEnd
CHECK_DEADLOCK FALSE
