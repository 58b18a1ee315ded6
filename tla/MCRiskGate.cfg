SPECIFICATION Spec
CONSTANTS
    d1 = d1
    d2 = d2
    Workers = {w1, w2}
    Deployments = {d1, d2}
    Trades <- OppositeTrades
    MaxPosition = 1
    MaxOpenOrders = 1
    MaxOrders = 4
    None = None
SYMMETRY Symmetry
INVARIANTS
    TypeOK
    ExposureBounded
