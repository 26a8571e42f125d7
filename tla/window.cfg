CONSTANTS
  Call = {c1, c2, c3}
  MaxStep = 1
  MaxDelay = 1
  MaxClock = 6
  MaxLimit = 2
  Window = 4
  Ttl = 5
  MaxRestarts = 1
SYMMETRY CallSymmetry
SPECIFICATION Spec
CHECK_DEADLOCK FALSE
INVARIANTS WindowBound IdleUserForgotten HintBounded IInv
