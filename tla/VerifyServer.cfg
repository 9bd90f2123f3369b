SPECIFICATION LiveSpec
CONSTANTS
    Calls = {c1, c2, c3}
INVARIANTS
    TypeOK
    NoLostWakeup
    DrainedAtExit
PROPERTIES
    ImplementsMailQueue
    ExitsUnlessCallPending
CHECK_DEADLOCK FALSE
