SPECIFICATION MCSpec
CONSTANTS
    Names = {k1}
    Emails = {e1, E1, k1}
    Passwords = {p1, p2}
    Spellings = {{e1, E1}}
    MaxRequests = 3
INVARIANTS
    TypeOK
    ShownCodesWork
    ShownTokensWork
    PasswordProvedByCode
PROPERTY AnsweredOrStalled
CHECK_DEADLOCK FALSE
