CONSTANTS
  h1 = h1
  h2 = h2
  Handler = {h1, h2}
  TierOrder <- MCTierOrder
  TierOf <- MCTierOf
  StaticLimit <- MCStaticLimit
  Values <- MCValues
  TtlWindows = 1
SPECIFICATION FairSpec
CHECK_DEADLOCK FALSE
INVARIANTS VersionTellsPolicy GaugeFresh
PROPERTIES PremiumArrives PremiumLapses FirstAnswered SwitchHeals NoOldPolicy
