CONSTANTS
  Ads = {a, b}
  MaxVersion = 3
  MaxCalls = 1
  MaxEvents = 3
  MaxConcurrentLimboResolutions = 1
SPECIFICATION Spec
INVARIANT NoHardAssertFails
PROPERTY ImplementsLeitura
CONSTRAINT OthersWrite
CHECK_DEADLOCK FALSE
