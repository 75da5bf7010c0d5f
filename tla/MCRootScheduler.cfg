SPECIFICATION FairSpec
CONSTANTS
  r1 = r1
  r2 = r2
  w1 = w1
  NoRoot = NoRoot
  Roots = {r1, r2}
  Wakeables = {w1}
  Lane <- AllKinds
  EventLanes <- SyncDefault
  CanError = FALSE
  HasStores = FALSE
  NestedUpdateLimit = 0
  MaxTasks = 2
  MaxInputs = 3
INVARIANTS TypeOK NoLaneLost RootScheduled SuspendedHasWakeup
PROPERTIES PassiveEffectsKept WorkLeavesByItsCommit AllWorkIsCommitted
