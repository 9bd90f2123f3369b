SPECIFICATION LiveSpec
CONSTANTS
    MAX_LENGTH = 1
    LengthRange = 3
    LoginRequest = 0
    LoginResponse = 1
    OtherRequest = 2
    OtherResponse = 3
    Notification = 4
    InvalidRequest = 5
    UnknownId = 6
    EnumRange = 7
    Cap = 1
    Burst = 2
    MaxSends = 3
    MaxNotifies = 1
PROPERTY BodyReadEnds
CHECK_DEADLOCK FALSE
