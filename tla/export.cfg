CONSTANTS
    Parts <- Progress
    Generations = {1, 2, 3, 4, 5}
    MaxFacts = 3
    MaxProcesses = 2
    MaxFaults = 2
    MaxLate = 1
SPECIFICATION Spec
INVARIANTS
    HubKeepsStep
    FinalIsComplete
    NeverNeedsRepair
    FollowerIsExact
PROPERTIES
    KeepsOutbox
    EveryEventIsShown
CHECK_DEADLOCK FALSE
