SPECIFICATION Spec
CONSTANTS
  Callers = {a, b, c}
  Capacity = 2
  NoValue = NoValue
  Nobody = Nobody
  MaxSends = 4
  MaxBatch = 2
  EnableStats = TRUE
SYMMETRY Symmetry
INVARIANTS
  TypeOK
  StatsAccount
  RingConsistent
  NoMissedMatch
  HandleOwnedOnce
  AckedNotLost
  NackedNotDelivered
  TakenOnce
  ReceiveFailsOnlyDrained
PROPERTY FifoSpec
CHECK_DEADLOCK FALSE
