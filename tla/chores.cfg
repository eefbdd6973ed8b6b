CONSTANTS
    Names = {n1}
    Bodies = {b1, b2}
    Schedules <- Mixed
    NoDefinition = NoDefinition
    MaxTime = 2
    MaxRuns = 2
SPECIFICATION Spec
INVARIANTS
    StatusAgrees
    MemoryMatches
    ClaimsMatchRuns
    OccurrenceOnce
PROPERTIES
    ClaimIsSettled
