SPECIFICATION Safe
CONSTANTS
  NumRequests = 2
  NumChannels = 1
  MaxAttempts = 1
  FeeCfg <- MCFeeCfg
  FeeStats <- MCFeeStats
  Expiries = {None}
  Margin = 0
  MaxLedger = 0
  Faults = {"confirm"}
  None = None
INVARIANT
  NoReuseOfAccepted
