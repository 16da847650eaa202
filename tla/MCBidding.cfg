SPECIFICATION Spec
CONSTANTS
  MaxPercentile = 14
  MaxAttempts = 4
  MinFee = 3
  MaxFee = 40
CHECK_DEADLOCK FALSE
INVARIANTS
  BidIsLeast
PROPERTY
  RetryBidsMore
