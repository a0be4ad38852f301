SPECIFICATION Spec
CONSTANTS
    Clients = {c1, c2}
    Names = {ann, bob}
    Passwords = {pw1, pw2}
    RealNames = {ERROR}
    ErrorName = ERROR
    MaxFiles = 2
    MaxOpens = 3
    NULL = NULL
INVARIANTS
    TypeOK
    SingleRegistration
    FileFollowsList
PROPERTIES
    PasswordIsTheUsers
SYMMETRY Symmetry
CHECK_DEADLOCK FALSE
