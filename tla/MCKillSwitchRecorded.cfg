SPECIFICATION Spec
CONSTANTS
    Workers = {w1}
    Orders = {o1}
    Deployments = {d1}
    Targets <- GlobalOnly
    DeploymentOf <- MCDeploymentOf
    StrategyId <- MCStrategyId
    Symbol <- MCSymbol
    DeploymentStrategy <- MCDeploymentStrategy
    Cancelling = {d1}
    MaxRetries = 2
    MaxEvents = 1
    None = None
    o1 = o1
    o2 = o2
    d1 = d1
    d2 = d2
    s1 = s1
    s2 = s2
    x = x
PROPERTY
    HaltRecorded
