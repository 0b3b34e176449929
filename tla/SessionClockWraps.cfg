SPECIFICATION Spec
CONSTANTS
    SESSION_DURATION_MS = 4
    QUEUE_READY_TIMEOUT_MS = 2
    MAX_BOOTH_CAPACITY = 2
    WORD = 32
    LAP = 9
    CHECK_GAP = 2
    HORIZON = 14
    NoCall = NoCall
INVARIANTS NotEarly
CHECK_DEADLOCK FALSE
