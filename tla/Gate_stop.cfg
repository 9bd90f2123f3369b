SPECIFICATION Spec
CONSTANTS
    Connections = {c1, c2}
    PoolSize = 2
    MaxRequests = 1
PROPERTY StopDrainsAndExits
CHECK_DEADLOCK FALSE
