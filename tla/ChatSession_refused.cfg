SPECIFICATION LiveSpec
CONSTANTS
    Sessions = {s1}
    Uids = {u1}
    NoUid = nouid
    Tokens = {t1}
    WrongToken = wrong
    NoToken = notoken
    Garbage <- MCGarbage
    Cap = 1
    MaxRequests = 3
    MaxNotifies = 0
PROPERTY RefusedIsClosed
CHECK_DEADLOCK FALSE
