SPECIFICATION FairSpec
CONSTANTS
    Workers = {w1}
    Orders = {o1, o2}
    Deployments = {d1, d2}
    Targets <- MCTargets
    DeploymentOf <- MCDeploymentOf
    StrategyId <- MCStrategyId
    Symbol <- MCSymbol
    DeploymentStrategy <- MCDeploymentStrategy
    Cancelling = {d1}
    MaxRetries = 2
    MaxEvents = 2
    None = None
    o1 = o1
    o2 = o2
    d1 = d1
    d2 = d2
    s1 = s1
    s2 = s2
    x = x
INVARIANTS
    TypeOK
    CountedIsClosed
    
    OwnHaltRespected
PROPERTIES
    RequestsEnd
