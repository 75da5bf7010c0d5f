SPECIFICATION Spec
CONSTANTS
    Lane <- SyncTransitions
    EventLanes <- SyncTransitions
    RendersUpdate = FALSE
    MaxUpdates = 3
    MaxCaptures = 1
INVARIANT WaitingUpdatesArePending
CHECK_DEADLOCK FALSE
