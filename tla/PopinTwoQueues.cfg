\* Somebody stands in two queues.
SPECIFICATION Spec
CONSTANTS
    b1 = b1
    b2 = b2
    Booths = {b1, b2}
    Users = {u1, u2, u3}
    NoBooth = NoBooth
    NoUser = NoUser
    Broadcast = Broadcast
    ScanOrder <- TwoBooths
    MAX_USERS = 3
    MAX_BOOTH_CAPACITY = 1
    CONNECT_RETRY_MAX = 1
    Lossy = FALSE
    Late = FALSE
    Talks = TRUE
CONSTRAINT Calm
ACTION_CONSTRAINT Serially
SYMMETRY Alike
INVARIANTS QueuedAtOne
