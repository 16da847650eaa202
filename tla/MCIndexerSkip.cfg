\* A page of one event, and a ledger with two.
CONSTANTS
  Live = live
  Requests = {}
  None = None
  PageSize = 1
  Genesis = 1
  ReconcileEvery = 1
  MaxLedger = 1
  MaxEvents = 2
  MaxEpoch = 1
  MaxFaults = 0
SPECIFICATION Safe
INVARIANTS FullyIngested
CHECK_DEADLOCK FALSE
