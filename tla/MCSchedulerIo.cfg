SPECIFICATION Spec
CONSTANTS
  main = main
  other = other
  NoTask = NoTask
  N = 1
  Tasks = {t1, t2, t3}
  BatchSize = 2
  MaxSuspends = 2
  Threads = {main, other}
  Calls <- MainStopsOtherResumes
  TaskCalls = {"yield", "io", "read", "write", "park", "wake", "await"}
  MaxInits = 1
SYMMETRY Symmetry
INVARIANTS
  InflightExact
  DrainedAtReturn
CHECK_DEADLOCK FALSE
