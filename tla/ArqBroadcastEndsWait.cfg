SPECIFICATION WatchedSpec
CONSTANTS
    a = a
    b = b
    c = c
    Nodes = {a, b}
    Links <- WithBroadcast
    Broadcast = Broadcast
    NoNode = NoNode
    NoMessage = NoMessage
    NoFrame = NoFrame
    MAX_RETX = 1
    SEQ_MOD = 8
    MAX_REQUESTS <- Once
INVARIANTS WaitsForAck
CHECK_DEADLOCK FALSE
