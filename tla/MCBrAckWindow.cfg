SPECIFICATION WindowSpec
CONSTANTS
    MIN_WINDOW = 2
    DEFAULT_WINDOW = 3
    MAX_WINDOW = 5
    TIMEOUT_TIMES = 2
    ACK_FAILED_TIMES = 3
    MaxSequence = 26
INVARIANTS OnePending AckDue
CHECK_DEADLOCK FALSE
