SPECIFICATION WatchedSpec
CONSTANTS
    a = a
    b = b
    c = c
    Nodes = {a, b}
    Links <- BoothToUser
    Broadcast = Broadcast
    NoNode = NoNode
    NoMessage = NoMessage
    NoFrame = NoFrame
    MAX_RETX = 1
    SEQ_MOD = 8
    MAX_REQUESTS <- Twice
INVARIANTS InOrderFromAll
CHECK_DEADLOCK FALSE
