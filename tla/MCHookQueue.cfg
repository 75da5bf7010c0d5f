SPECIFICATION Spec
CONSTANTS
    Lane <- SyncTransition
    EventLanes <- SyncTransition
    State <- Bits
    InitialState = 0
    Actions <- ClearAndToggle
    MaxUpdates = 3
INVARIANTS TypeOK EagerStateIsRight NothingIsLost
CHECK_DEADLOCK FALSE
