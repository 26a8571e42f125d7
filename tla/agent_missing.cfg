CONSTANTS
  Baseline <- MCBaseline
  Fallback <- MCFallback
  Floor = 4
  Hysteresis = 2
  Memory = 3
  Patience = 2
  PolicyTtl = 3
  SeedTtl = 3
  MaxBoost = 13
  MaxFaults = 1
SPECIFICATION Spec
CHECK_DEADLOCK FALSE
PROPERTY MissingRestored
