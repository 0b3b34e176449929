SPECIFICATION Spec
CONSTANTS
    a = a
    b = b
    Nodes = {a, b}
    Links <- BothWays
    Broadcast = Broadcast
    NoNode = NoNode
    NoMessage = NoMessage
    NoFrame = NoFrame
    MAX_RETX = 1
    SEQ_MOD = 4
    MAX_REQUESTS <- Once
    WordAtomic = FALSE
INVARIANTS InOrderOnce
CHECK_DEADLOCK FALSE
