SPECIFICATION Spec
CONSTANTS
    Names = {ann}
    Rooms = {1000, 1001}
    MaxConns = 2
    MaxTyped = 4
    MaxHasty = 2
    MaxDown = 1
    NULL = NULL
INVARIANTS
    TypeOK
    ViewSettles
    SpeaksForItself
    ReceiverLives
PROPERTIES
    ExitEnds
CHECK_DEADLOCK FALSE
