CONSTANTS
  Caller = {c1, c2}
  Value = {v1}
  None = None
  Ttl = 1
  MaxFetch = 1
  MaxClock = 3
  MaxWrites = 2
SPECIFICATION FairSpec
CHECK_DEADLOCK FALSE
INVARIANTS SingleFlight
PROPERTIES OneGetPerTtl ImplementsRegister EveryCallReturns
