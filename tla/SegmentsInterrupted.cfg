\* With Senders = {s, t} and MAX_REQUESTS = 1: two boards' messages are mixed.
SPECIFICATION Spec
CONSTANTS
    Senders = {s}
    Lengths = {1, 2, 3, 4}
    L2_MSG_MAXDATASIZE = 2
    MAX_REQUESTS = 2
INVARIANTS Whole
CHECK_DEADLOCK FALSE
