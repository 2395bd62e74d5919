SPECIFICATION FairSpec
CONSTANTS
  Callers = {a, b, c}
  Capacity = 0
  NoValue = NoValue
  Nobody = Nobody
  MaxSends = 3
  MaxBatch = 2
  EnableStats = FALSE
PROPERTIES
  FifoSpec
  CloseReleasesAll
  PoppedResumes
CHECK_DEADLOCK FALSE
