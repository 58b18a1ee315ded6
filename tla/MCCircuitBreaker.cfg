SPECIFICATION FairSpec
CONSTANTS
    Processes = {p1, p2}
    Threshold = 2
    Timeout = 1
    MaxProbes = 2
    None = None
INVARIANTS
    TypeOK
PROPERTIES
    ImplementsBreaker
    OpenIsProbed
