SPECIFICATION FairSpec
CONSTANTS
    MaxSegments = 6
    MaxFaulty = 5
    MaxBoundaries = 2
    MaxRetries = 1
INVARIANTS
    TypeOK
    CountersExact
    QueuedOnce
    ClosedComplete
PROPERTIES
    ClientProtocol
    EventuallyEnds
CHECK_DEADLOCK FALSE
