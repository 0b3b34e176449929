SPECIFICATION WatchedSpec
CONSTANTS
    a = a
    b = b
    c = c
    Nodes = {a, b, c}
    Links <- TwoPeers
    Broadcast = Broadcast
    NoNode = NoNode
    NoMessage = NoMessage
    NoFrame = NoFrame
    MAX_RETX = 0
    SEQ_MOD = 8
    MAX_REQUESTS <- Twice
INVARIANTS ConfirmedUnlessFailed
CHECK_DEADLOCK FALSE
