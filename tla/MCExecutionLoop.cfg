SPECIFICATION Spec
CONSTANTS
    Loops = {l1, l2}
    Threads = {t1, t2}
    Deployments = {d1}
    DeploymentOf <- MCDeploymentOf
    ExecutionMode <- MCExecutionMode
    LiveService = TRUE
    MaxConsecutiveErrors = 2
    MaxConcurrent = 1
    MaxBars <- MCMaxBars
    MaxHalts = 1
    None = None
    l1 = l1
    l2 = l2
    d1 = d1
SYMMETRY Symmetry
INVARIANTS
    TypeOK
    BarsCountedOnce
    OrdersReported
    HaltRespected
    BreakerTrips
    StopAllStops
PROPERTIES
    TerminalStays
