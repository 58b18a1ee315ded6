SPECIFICATION FairSpec
CONSTANTS
    Workers = {w1, w2}
    ClientIds = {c1}
    Requests = {"submit", "cancel", "sync", "recover"}
    LostReplies = TRUE
    None = None
INVARIANTS
    TypeOK
    PersistedBeforeSubmit
    AtMostOneBrokerOrder
    AckedHasBrokerId
    NoFalseClaim
PROPERTIES
    RowsKeepIdentity
    ImplementsLedger
    RequestsEnd
