SPECIFICATION Spec
CONSTANTS
  c = c
  Coros = {a}
  Outsiders = {main}
  None = None
  Alone = {FALSE}
  MaxClears <- TwoWait
INVARIANTS
  WaitReturnsOwning
CHECK_DEADLOCK FALSE
