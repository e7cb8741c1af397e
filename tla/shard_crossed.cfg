SPECIFICATION SSpec
CONSTANTS
  Tokens = {a, b}
  Initial = {a}
  MaxCalls = 3
  MaxFaults = 0
  EarlyUpdates = TRUE
INVARIANT SubscribedIsWanted
