SPECIFICATION WatchedSpec
CONSTANTS
    a = a
    b = b
    c = c
    Nodes = {a, b}
    Links <- OneWay
    Broadcast = Broadcast
    NoNode = NoNode
    NoMessage = NoMessage
    NoFrame = NoFrame
    MAX_RETX = 0
    SEQ_MOD = 8
    MAX_REQUESTS <- Twice
INVARIANTS ConfirmedHasArrived
CHECK_DEADLOCK FALSE
