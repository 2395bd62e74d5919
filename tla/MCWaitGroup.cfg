SPECIFICATION WgFairSpec
CONSTANTS
  Coros = {a, b, c, d}
  None = None
  Deltas = {1, 2}
  MaxCount = 2
INVARIANTS
  WaiterHeldOnce
PROPERTIES
  LatchSpec
  WaitReturns
CHECK_DEADLOCK FALSE
