SPECIFICATION Spec
CONSTANTS
    Connections = {c1, c2, c3}
    PoolSize = 2
    MaxRequests = 2
INVARIANTS
    TypeOK
    SessionsKeptAlive
PROPERTIES
    ConnectionsProgress
CHECK_DEADLOCK FALSE
