\* One request beside the loop; pages of two events, so that a page can end
\* between two ledgers and inside one.
CONSTANTS
  Live = live
  Requests = {r1}
  None = None
  PageSize = 2
  Genesis = 1
  ReconcileEvery = 1
  MaxLedger = 3
  MaxEvents = 3
  MaxEpoch = 1
  MaxFaults = 1
SPECIFICATION Safe
INVARIANTS TypeOK LedgersSeen EpochFollows
PROPERTIES NeverBack LosesOnlyTheCut
CHECK_DEADLOCK FALSE
