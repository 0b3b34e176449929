SPECIFICATION WatchedSpec
CONSTANTS
    a = a
    b = b
    c = c
    Nodes = {a, b, c}
    Links <- TwoPeers
    Broadcast = Broadcast
    NoNode = NoNode
    NoMessage = NoMessage
    NoFrame = NoFrame
    MAX_RETX = 1
    SEQ_MOD = 8
    MAX_REQUESTS <- Twice
INVARIANTS ForItsReceiver
CHECK_DEADLOCK FALSE
