SPECIFICATION SSpec
CONSTANTS
  Callers = {s1, s2, c1}
  Shards = {s1, s2}
  NAssets = 2
  MinInterval = 1
  MaxLag = 0
  MaxAnswer = 1
  MaxTime = 10
  Nobody = Nobody
  Never = Never
SYMMETRY MCSymmetry
INVARIANTS RTypeOK Budget PassedOnce SilentAtMost
