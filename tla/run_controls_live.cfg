CONSTANTS
    MaxControls = 2
    Requests <- AllRequests
    Clients = {"remote", "loop"}
    Stops = {TRUE}
    Revocable = TRUE
SPECIFICATION FairSpec
INVARIANTS
    CacheForgetsSettled
PROPERTIES
    NoCallAfterStop
    InterruptsEndRun
    ControlIsAnswered
CHECK_DEADLOCK FALSE
