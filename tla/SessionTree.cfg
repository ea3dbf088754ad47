SPECIFICATION Spec
CONSTANTS
    s1 = s1
    s2 = s2
    s3 = s3
    Listener = Listener
    Sessions <- ThreeSessions
    MaxDepth = 3
    ServerDies = FALSE
SYMMETRY SymmetricSessions
INVARIANTS
    ListMatchesParents
    NothingLeaks
    NoUseAfterFree
PROPERTIES
    CallsReachObservers
    SessionsAreTold
CHECK_DEADLOCK FALSE
