SPECIFICATION BFairSpec
CONSTANTS
  MaxMarkets = 2
  Limit = 2
  MaxOffset = 3
  MaxTrades = 4
  Recorders = {dev}
  Job = job
  Configured = {dev, job}
  NoFile = NoFile
INVARIANTS BTypeOK FetchedWithoutHole WrittenIsKept
PROPERTY JobEnds
CHECK_DEADLOCK FALSE
