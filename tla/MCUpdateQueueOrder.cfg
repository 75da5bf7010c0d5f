SPECIFICATION Spec
CONSTANTS
    Lane <- SyncTransitions
    EventLanes <- SyncTransitions
    RendersUpdate = FALSE
    MaxUpdates = 2
    MaxCaptures = 0
INVARIANT InsertionOrder
CHECK_DEADLOCK FALSE
