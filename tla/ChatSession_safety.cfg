SPECIFICATION Spec
CONSTANTS
    Sessions = {s1, s2}
    Uids = {u1, u2}
    NoUid = nouid
    Tokens = {t1}
    WrongToken = wrong
    NoToken = notoken
    Garbage <- MCGarbage
    Cap = 1
    MaxRequests = 2
    MaxNotifies = 0
SYMMETRY Symmetry
INVARIANTS
    TypeOK
    ParticipantsAreConnected
    ServedAsProven
    CloseFrameIsLast
PROPERTY DeadlineSparesAuthenticated
CHECK_DEADLOCK FALSE
