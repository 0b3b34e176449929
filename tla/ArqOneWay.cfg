SPECIFICATION WatchedSpec
CONSTANTS
    a = a
    b = b
    c = c
    Nodes = {a, b}
    Links <- OneWay
    Broadcast = Broadcast
    NoNode = NoNode
    NoMessage = NoMessage
    NoFrame = NoFrame
    MAX_RETX = 2
    SEQ_MOD = 2
    MAX_REQUESTS <- FourTimes
PROPERTIES KeepsLink
CHECK_DEADLOCK FALSE
