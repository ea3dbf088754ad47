SPECIFICATION Spec
CONSTANTS
    Tests <- AllTests
    InitAnswers <- MCInitAnswers
    Queries = 2
    Syntaxes = 2
    Sorts = 2
    Scans = 2
INVARIANTS
    EntriesExist
    LeavesAVerdict
    OkIsEarned
PROPERTIES
    SkipsOnlyAfterUnsent
    ZlintEnds
CHECK_DEADLOCK FALSE
