SPECIFICATION FairSpec
CONSTANTS
    MaxChunks = 3
    MaxRetries = 1
    Fails = TRUE
INVARIANT FailureReported
CHECK_DEADLOCK FALSE
