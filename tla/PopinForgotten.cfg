\* Somebody waits whom no booth knows.
SPECIFICATION Spec
CONSTANTS
    b1 = b1
    b2 = b2
    Booths = {b1}
    Users = {u1, u2, u3, u4}
    NoBooth = NoBooth
    NoUser = NoUser
    Broadcast = Broadcast
    ScanOrder <- OneBooth
    MAX_USERS = 4
    MAX_BOOTH_CAPACITY = 1
    CONNECT_RETRY_MAX = 1
    Lossy = FALSE
    Late = FALSE
    Talks = FALSE
CONSTRAINT Calm
ACTION_CONSTRAINT Serially
SYMMETRY Alike
INVARIANTS WaitingIsKnown
