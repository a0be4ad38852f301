SPECIFICATION Spec
CONSTANTS
    Clients = {c1, c2}
    Names = {ann, bob}
    RoomNames = {lobby, den}
    LobbyName = lobby
    Fds = {5, 6}
    MaxRoomID = 1002
    MaxBehind = 0
    DoubleLogin = FALSE
    Crashes = FALSE
    NULL = NULL
INVARIANTS
    OnlyRefusalsFault
    SpeakerIsMember
    EndedSessionIsRemoved
    RoomNamesUnique
PROPERTIES
    ExitRemovesUser
    JoinIsAnswered
    ImplementsFairPresence
CHECK_DEADLOCK FALSE
