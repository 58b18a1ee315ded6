SPECIFICATION FairSpec
CONSTANTS
    Runs = {r1, r2}
    Cancellers = {k1, k2}
    MaxConcurrent = 1
    None = None
INVARIANTS
    TypeOK
    CompletedHasResult
    PermitsAccounted
    StrayIsCancelled
PROPERTIES
    OnlyCancelRaces
    TasksEnd
    CancelsEnd
CHECK_DEADLOCK FALSE
