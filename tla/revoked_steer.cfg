CONSTANTS
    MaxControls = 1
    Requests <- Steers
    Clients = {"remote"}
    Stops = {}
    Revocable = TRUE
SPECIFICATION Spec
INVARIANTS
    CanceledByRequest
CHECK_DEADLOCK FALSE
