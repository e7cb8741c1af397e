SPECIFICATION PFairSpec
CONSTANTS
  MaxFrames = 2
  QueueMax = 1
  RotateMax = 2
  MaxFaults = 1
  NoFile = NoFile
  Live = live
  MaxDay = 1
  MaxCrashes = 1
  MaxSignals = 1
  DeleteAfterUpload = TRUE
INVARIANTS PTypeOK LogOrder
PROPERTIES LostOnlyInFailure ImplementsFrameLog FramesShipped PromotedIsStored
