SPECIFICATION Spec
CONSTANTS
    Clients = {c1, c2, c3}
    chat_servers <- MCchat_servers
    Retired = {0}
    NoField = nofield
    MaxOld = 1
    MaxLogins = 4
SYMMETRY Symmetry
INVARIANTS
    TypeOK
    CountedAtRest
    Spread
CHECK_DEADLOCK FALSE
