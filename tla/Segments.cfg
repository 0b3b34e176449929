SPECIFICATION FairSpec
CONSTANTS
    Senders = {s, t}
    Lengths = {1, 2, 3, 4}
    L2_MSG_MAXDATASIZE = 2
    MAX_REQUESTS = 2
INVARIANTS WholeUnlessDisturbed InTurnUnlessDisturbed
PROPERTIES ArrivesUnlessDisturbed
CHECK_DEADLOCK FALSE
