SPECIFICATION Spec
CONSTANTS
    CommandTimeout = 37
    PollInterval = 2
    MaxLatency = 1
    ServerTimeout = 35
INVARIANTS TimeoutErrorIsTrue
CHECK_DEADLOCK FALSE
