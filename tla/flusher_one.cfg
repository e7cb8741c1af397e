SPECIFICATION FFairSpec
CONSTANTS
  Recorders = {live}
  Jobs = {dev}
  Configured = {live}
  Files <- MCFiles
  NoFile = NoFile
  MaxDay = 1
  MaxCrashes = 1
  DeleteAfterUpload = TRUE
INVARIANTS FTypeOK DeletedOnlyWhenStored ObjectsComplete NoOrphanGz
PROPERTY EventuallyStored
