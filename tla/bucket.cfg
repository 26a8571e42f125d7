CONSTANTS
  Call = {c1, c2, c3}
  MaxStep = 1
  MaxDelay = 1
  MaxClock = 7
  Limit = {1, 2}
  Burst = {1, 2}
  MaxLimit = 2
  MaxBurst = 2
  Minute = 3
  Ttl = 5
  MaxRestarts = 1
SYMMETRY CallSymmetry
SPECIFICATION Spec
CHECK_DEADLOCK FALSE
INVARIANTS RateBound HintSuffices
