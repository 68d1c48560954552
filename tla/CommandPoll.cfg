SPECIFICATION FairSpec
CONSTANTS
    CommandTimeout = 37
    PollInterval = 2
    MaxLatency = 20
    ServerTimeout = 60
INVARIANTS TypeOK BoundedWait
PROPERTIES PromiseSpec AlwaysEnds PollsAreSpaced
CHECK_DEADLOCK FALSE
