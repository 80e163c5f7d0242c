CONSTANTS
  Op = {o1, o2}
  File = {f1}
  Content = {c1, c2, c3}
  None = None
  MaxAttempts = 2
  MaxAborts = 1
  MaxReopen = 1
  MaxOps = 3
  MaxCalls = 4
  MaxFailures = 1
SPECIFICATION Spec
CHECK_DEADLOCK FALSE
SYMMETRY MCSymmetry
INVARIANTS
  StoreInv
  FeedMissesNothing
  FastPathMissesNothing
