CONSTANTS
    MaxControls = 2
    Requests <- Deferred
    Clients = {"thread", "remote"}
    Stops = {TRUE, FALSE}
    Revocable = TRUE
SPECIFICATION Spec
INVARIANTS
    TypeOK
    AdoptedIsApplied
    NoControlIsLost
    CanceledForCause
PROPERTIES
    NoCallWhileEnding
    KeepsContract
CHECK_DEADLOCK FALSE
