SPECIFICATION Spec
CONSTANTS
  main = main
  other = other
  NoTask = NoTask
  N = 2
  Tasks = {t1, t2, t3}
  BatchSize = 2
  MaxSuspends = 1
  Threads = {main, other}
  Calls <- MainEndsOtherSubmits
  TaskCalls = {"yield", "spawn", "submit", "await"}
  MaxInits = 2
SYMMETRY Symmetry
INVARIANTS
  TypeOK
  PendingExact
  HandleHeldOnce
  NoDangling
  LoopCompletesAll
  PushedIsNotified
CHECK_DEADLOCK FALSE
