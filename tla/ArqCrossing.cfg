SPECIFICATION WatchedSpec
CONSTANTS
    a = a
    b = b
    c = c
    Nodes = {a, b}
    Links <- BothWays
    Broadcast = Broadcast
    NoNode = NoNode
    NoMessage = NoMessage
    NoFrame = NoFrame
    MAX_RETX = 0
    SEQ_MOD = 8
    MAX_REQUESTS <- Once
INVARIANTS ConfirmedUnlessFailed
CHECK_DEADLOCK FALSE
