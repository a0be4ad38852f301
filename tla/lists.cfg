SPECIFICATION Spec
CONSTANTS
    Threads = {t1, t2}
    Users = {ann, bob, cat}
    MaxNodes = 3
    MaxCalls = 3
    Overlap = FALSE
    NULL = NULL
INVARIANTS
    TypeOK
    AnswerIsRight
    WalkReachesEachOnce
    ListingsExclude
PROPERTIES
    CrashNeedsChange
    CallsReturn
    ImplementsUserList
CHECK_DEADLOCK FALSE
