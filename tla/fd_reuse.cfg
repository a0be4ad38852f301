SPECIFICATION Spec
CONSTANTS
    Clients = {c1, c2}
    Names = {ann, bob}
    RoomNames = {lobby, den, attic}
    LobbyName = lobby
    Fds = {5, 6}
    MaxRoomID = 1002
    MaxBehind = 1
    DoubleLogin = TRUE
    Crashes = TRUE
    NULL = NULL
INVARIANTS
    RoomMessagesStayInRoom
SYMMETRY Symmetry
CHECK_DEADLOCK FALSE
