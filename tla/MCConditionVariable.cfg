SPECIFICATION CvFairSpec
CONSTANTS
  c = c
  Coros = {a, b, c}
  Outsiders = {main}
  None = None
  Alone = {TRUE, FALSE}
  MaxClears <- TwoWait
INVARIANTS
  CvMutualExclusion
  CvWaiterOwnedOnce
  AloneReturnsOwning
PROPERTIES
  NoLostWakeup
  AloneWaitReturns
CHECK_DEADLOCK FALSE
