SPECIFICATION WatchedSpec
CONSTANTS
    a = a
    b = b
    c = c
    Nodes = {a, b, c}
    Links <- SharedByThree
    Broadcast = Broadcast
    NoNode = NoNode
    NoMessage = NoMessage
    NoFrame = NoFrame
    MAX_RETX = 1
    SEQ_MOD = 8
    MAX_REQUESTS <- OfTheUserTwice
INVARIANTS TypeOK OneAtATime WaitIsTimed InOrderOnce IntactUnlessAhead
CHECK_DEADLOCK FALSE
