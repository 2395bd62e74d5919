SPECIFICATION MutexFairSpec
CONSTANTS
  Coros = {a, b, c, d}
  None = None
INVARIANTS
  MutexTypeOK
  MutualExclusion
  LockAccounted
  WaiterOwnedOnce
PROPERTIES
  FifoLockSpec
  LockGranted
CHECK_DEADLOCK FALSE
