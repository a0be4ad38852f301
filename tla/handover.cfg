SPECIFICATION Spec
CONSTANTS
    Conns = {c1, c2}
    MaxFailed = 1
    BAD = BAD
    NULL = NULL
INVARIANTS
    OneThreadPerConnection
CHECK_DEADLOCK FALSE
