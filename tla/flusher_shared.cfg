SPECIFICATION FSpec
CONSTANTS
  Recorders = {live}
  Jobs = {job}
  Configured = {live, job}
  Files <- MCFiles
  NoFile = NoFile
  MaxDay = 0
  MaxCrashes = 0
  DeleteAfterUpload = TRUE
INVARIANT DeletedOnlyWhenStored
