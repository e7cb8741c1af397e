SPECIFICATION MFairSpec
CONSTANTS
  Tokens = {a, b, c}
  MaxAssets = 2
  Hashes <- MCHashes
INVARIANTS MTypeOK RecordedIsCurrent OneShardEach
PROPERTIES KeptWithoutGap SelectionApplied
