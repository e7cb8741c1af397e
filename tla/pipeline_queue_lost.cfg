SPECIFICATION PSpec
CONSTANTS
  MaxFrames = 3
  QueueMax = 2
  RotateMax = 2
  MaxFaults = 0
  NoFile = NoFile
  Live = live
  MaxDay = 0
  MaxCrashes = 0
  MaxSignals = 1
  DeleteAfterUpload = TRUE
INVARIANT ShutdownFlushesEverything
