SPECIFICATION Spec
CONSTANTS
  Requests = {r1, r2, r3}
  Ids = {i1}
  TTL = 2
  MaxTime = 4
  MaxWrites = 2
  MaxRestarts = 1
  None = None
SYMMETRY MCSymmetry
INVARIANTS TypeOK AgeBounded EmptyOnlyBeforeFirstFill SequentialReadsMonotonic
CHECK_DEADLOCK FALSE
