SPECIFICATION Spec
CONSTANTS
  main = main
  other = other
  NoTask = NoTask
  N = 1
  Tasks = {t1, t2}
  BatchSize = 1
  MaxSuspends = 1
  Threads = {main}
  Calls <- MainLoops
  TaskCalls = {"yield", "await", "inner"}
  MaxInits = 1
INVARIANTS
  PendingExact
CHECK_DEADLOCK FALSE
