SPECIFICATION Spec
CONSTANTS
    MaxSegments = 7
    MaxFaulty = 0
    MaxBoundaries = 2
    MaxRetries = 0
INVARIANT NoInternalError
CHECK_DEADLOCK FALSE
