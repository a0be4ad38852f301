SPECIFICATION Spec
CONSTANTS
    Clients = {c1, c2}
    Names = {ann, bob}
    RoomNames = {lobby, den, attic}
    LobbyName = lobby
    Fds = {5, 6}
    MaxRoomID = 1001
    MaxBehind = 1
    DoubleLogin = TRUE
    Crashes = TRUE
    NULL = NULL
INVARIANTS
    TypeOK
    OneSessionPerUser
    UsersInOneRoom
    ClientLearnsItsRoom
    RoomMessageReach
    InvitationReach
PROPERTIES
    ImplementsPresence
SYMMETRY Symmetry
CHECK_DEADLOCK FALSE
