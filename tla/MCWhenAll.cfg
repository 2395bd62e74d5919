SPECIFICATION FairSpec
CONSTANTS
  Coros = {p, a, b, c}
  Parent = p
  None = None
  Workers = {w1, w2}
  Deltas = {}
  MaxCount = 0
  MaxSuspends = 1
INVARIANTS
  StateOutlivesUses
  JoinFaithful
PROPERTY WhenAllReturns
CHECK_DEADLOCK FALSE
