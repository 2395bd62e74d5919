SPECIFICATION FairSpec
CONSTANTS
  main = main
  other = other
  NoTask = NoTask
  N = 1
  Tasks = {t1}
  BatchSize = 1
  MaxSuspends = 1
  Threads = {main}
  Calls <- MainLoops
  TaskCalls = {"yield"}
  MaxInits = 1
PROPERTIES
  LoopWakes
CHECK_DEADLOCK FALSE
