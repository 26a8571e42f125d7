CONSTANTS
  Regions <- MCRegions
  Home <- MCHome
  Sums <- MCSums
  Limits <- MCLimits
  MinRpm = 60
  Hysteresis = 2
  OverrideTtl = 3
  MaxFaults = 0
SPECIFICATION FairSpec
CHECK_DEADLOCK FALSE
PROPERTIES ReleasedWhenQuiet
