CONSTANTS
    Managers = {m1, m2}
    MaxLaunches = 2
    MaxFaults = 2
SYMMETRY Symmetry
SPECIFICATION Spec
INVARIANTS
    OneManager
    ResourcesAreReferenced
    NothingIsLeft
    NeverStuck
PROPERTIES
    KeepsLaunchContract
    RetiredIsDead
    LiveKeepsClaim
CHECK_DEADLOCK FALSE
