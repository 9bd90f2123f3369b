SPECIFICATION LiveSpec
CONSTANTS
    Sessions = {s1}
    Uids = {u1}
    NoUid = nouid
    Tokens = {t1}
    WrongToken = wrong
    NoToken = notoken
    Garbage <- MCGarbage
    Cap = 1
    MaxRequests = 2
    MaxNotifies = 2
INVARIANT RefusalKept
PROPERTIES
    LoginOrClosed
    CloseFrameCloses
    StoppedSessionEnds
CHECK_DEADLOCK FALSE
