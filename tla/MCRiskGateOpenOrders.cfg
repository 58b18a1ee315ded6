SPECIFICATION Spec
CONSTANTS
    d1 = d1
    d2 = d2
    Workers = {w1}
    Deployments = {d1}
    Trades <- BothSides
    MaxPosition = 2
    MaxOpenOrders = 1
    MaxOrders = 4
    None = None
INVARIANT
    OpenOrdersWithinLimit
