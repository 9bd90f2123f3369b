SPECIFICATION Spec
CONSTANTS
    Users = {u1, u2, u3}
    Conns = {c1, c2}
    MaxCalls = 3
INVARIANT AuthPassesRequest
CHECK_DEADLOCK FALSE
