SPECIFICATION Spec
CONSTANTS
    Runs = {r1}
    Cancellers = {k1}
    MaxConcurrent = 1
    None = None
PROPERTY
    CancelledIsFinal
CHECK_DEADLOCK FALSE
