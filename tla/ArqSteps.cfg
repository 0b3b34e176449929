SPECIFICATION FairSpec
CONSTANTS
    a = a
    b = b
    Nodes = {a, b}
    Links <- HearsBroadcast
    Broadcast = Broadcast
    NoNode = NoNode
    NoMessage = NoMessage
    NoFrame = NoFrame
    MAX_RETX = 1
    SEQ_MOD = 4
    MAX_REQUESTS <- TwiceAndOnce
    WordAtomic = FALSE
CONSTRAINT FewAfterLoss
INVARIANTS RadioFree StuckOnlyByLoss
PROPERTIES AnsweredUnlessLost
CHECK_DEADLOCK FALSE
