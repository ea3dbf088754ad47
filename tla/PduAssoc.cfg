SPECIFICATION Spec
CONSTANTS
    MaxConnects = 2
    MaxPdus = 3
    MaxDepth = 4
    EarlySend = TRUE
    ReuseClosed = TRUE
INVARIANTS
    OrderKept
    ClosedIsClean
    NoUseAfterFree
    NotDeaf
    CloseLosesNothing
PROPERTIES
    FailedOnce
CHECK_DEADLOCK FALSE
