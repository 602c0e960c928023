CONSTANTS
  Ads = {a}
  MaxVersion = 2
  MaxCalls = 2
  MaxEvents = 3
  MaxConcurrentLimboResolutions = 100
SPECIFICATION Spec
INVARIANT GuaranteedUpToDate
CHECK_DEADLOCK FALSE
