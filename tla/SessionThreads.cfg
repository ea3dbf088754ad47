SPECIFICATION ThreadsSpec
CONSTANTS
    Sessions = {"s1", "s2", "s3"}
    Nobody = Nobody
INVARIANTS
    NothingDangles
    NothingStranded
PROPERTY SessionsEnd
CHECK_DEADLOCK FALSE
