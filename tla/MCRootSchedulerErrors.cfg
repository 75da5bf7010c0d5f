SPECIFICATION Spec
CONSTANTS
  r1 = r1
  r2 = r2
  w1 = w1
  NoRoot = NoRoot
  Roots = {r1, r2}
  Wakeables = {w1}
  Lane <- DefaultRetry
  EventLanes <- SyncDefault
  CanError = TRUE
  HasStores = TRUE
  NestedUpdateLimit = 0
  MaxTasks = 1
  MaxInputs = 5
INVARIANT SyncWorkScheduled
SYMMETRY Symmetry
CHECK_DEADLOCK FALSE
