SPECIFICATION Spec
CONSTANTS
    b1 = b1
    b2 = b2
    Booths = {b1}
    Users = {u1, u2}
    NoBooth = NoBooth
    NoUser = NoUser
    Broadcast = Broadcast
    ScanOrder <- OneBooth
    MAX_USERS = 2
    MAX_BOOTH_CAPACITY = 1
    CONNECT_RETRY_MAX = 1
    Lossy = FALSE
    Late = TRUE
    Talks = TRUE
INVARIANTS InUseWasAdmitted
