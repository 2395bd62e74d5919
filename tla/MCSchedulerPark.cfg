SPECIFICATION Spec
CONSTANTS
  main = main
  other = other
  NoTask = NoTask
  N = 2
  Tasks = {t1, t2}
  BatchSize = 1
  MaxSuspends = 1
  Threads = {main}
  Calls <- MainLoops
  TaskCalls = {"park", "wake"}
  MaxInits = 1
INVARIANTS
  PendingExact
CHECK_DEADLOCK FALSE
