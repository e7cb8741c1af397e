SPECIFICATION CSpec
CONSTANTS
  MaxFrames = 3
  QueueMax = 2
  RotateMax = 2
  MaxFaults = 0
  NoFile = NoFile
  Live = live
  MaxDay = 1
  MaxCrashes = 0
  MaxSignals = 0
  DeleteAfterUpload = TRUE
  RotateInterval = 2
  RotateSlack = 2
  DayLength = 3
  MaxTime = 4
  MaxPrice = 9
  Payload <- MCPayload
  OpenMarkets <- MCOpen
  ClosedMarkets <- MCClosed
  Request <- MCRequest
INVARIANT OverlappingFilesRead
