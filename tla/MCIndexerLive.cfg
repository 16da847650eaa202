\* Pages of one event: a page cut inside a ledger, like a gap, can swallow a
\* Reconfigured event for good, which only the reconciliation then notices.
CONSTANTS
  Live = live
  Requests = {r1}
  None = None
  PageSize = 1
  Genesis = 1
  ReconcileEvery = 2
  MaxLedger = 2
  MaxEvents = 2
  MaxEpoch = 2
  MaxFaults = 1
SPECIFICATION Spec
PROPERTIES CatchesUp DriftAlerted
CHECK_DEADLOCK FALSE
