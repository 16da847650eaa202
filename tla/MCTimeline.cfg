SPECIFICATION Spec
CONSTANTS
  Ids = {p}
  Limit = 2
  MaxLedger = 3
  MaxEvents = 4
  None = None
INVARIANTS
  TypeOK
  ExportComplete
  StatusFollows
PROPERTY
  ExportEnds
CHECK_DEADLOCK FALSE
