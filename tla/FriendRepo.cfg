SPECIFICATION Spec
CONSTANTS
    Users = {u1, u2, u3}
    Conns = {c1, c2}
    MaxCalls = 3
INVARIANTS
    TypeOK
    FriendSymmetric
    AcceptedAreFriends
    PassedAreFriends
PROPERTY ImplementsFriendGraph
CHECK_DEADLOCK FALSE
