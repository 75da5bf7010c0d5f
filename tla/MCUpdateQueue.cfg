SPECIFICATION Spec
CONSTANTS
    Lane <- SyncTransitions
    EventLanes <- SyncTransitions
    RendersUpdate = TRUE
    MaxUpdates = 3
    MaxCaptures = 1
INVARIANTS TypeOK CallbacksOfNewUpdates SkippedUpdatesHaveLanes
PROPERTY KeepsPromise
CHECK_DEADLOCK FALSE
