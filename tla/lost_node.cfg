SPECIFICATION Spec
CONSTANTS
    Threads = {t1, t2}
    Users = {ann, bob}
    MaxNodes = 3
    MaxCalls = 3
    Overlap = TRUE
    NULL = NULL
INVARIANTS
    AddedIsInList
CHECK_DEADLOCK FALSE
