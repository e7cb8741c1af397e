SPECIFICATION SFairSpec
CONSTANTS
  Tokens = {a, b}
  Initial = {a}
  MaxCalls = 4
  MaxFaults = 3
  EarlyUpdates = FALSE
INVARIANTS STypeOK SubscribedIsWanted CapturedWasSeeded
PROPERTIES Reconnects WorkingConnectionKept
