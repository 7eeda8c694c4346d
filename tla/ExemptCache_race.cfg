SPECIFICATION Spec
CONSTANTS
  Requests = {r1, r2, r3}
  Ids = {i1}
  TTL = 2
  MaxTime = 4
  MaxWrites = 1
  MaxRestarts = 0
  None = None
SYMMETRY MCSymmetry
INVARIANTS DuplicateQueryHarmless
CHECK_DEADLOCK FALSE
