CONSTANTS
  Ads = {a}
  MaxVersion = 3
  MaxCalls = 2
  MaxEvents = 3
  MaxConcurrentLimboResolutions = 100
SPECIFICATION FairSpec
INVARIANTS TypeOK NoHardAssertFails InOrder Watched LookupsInUse
PROPERTIES ImplementsLeitura Answered
CHECK_DEADLOCK FALSE
