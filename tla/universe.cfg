SPECIFICATION USpec
CONSTANTS
  Markets <- MCMarkets
  CandidateLimit = 3
  NoBook = NoBook
  NoJson = NoJson
  Malformed = Malformed
  MaxPrice = 8
  MaxVolume = 2
  TargetSize = 2
  Horizon = 60
  RefineByDepth = TRUE
  Unbooked = 100000
INVARIANTS UTypeOK TighterFirst UntradeableLast
