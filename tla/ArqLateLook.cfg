SPECIFICATION Spec
CONSTANTS
    a = a
    b = b
    Nodes = {a, b}
    Links <- OneWay
    Broadcast = Broadcast
    NoNode = NoNode
    NoMessage = NoMessage
    NoFrame = NoFrame
    MAX_RETX = 1
    SEQ_MOD = 4
    MAX_REQUESTS <- Twice
    WordAtomic = TRUE
INVARIANTS ConfirmedUnlessFailed
CHECK_DEADLOCK FALSE
