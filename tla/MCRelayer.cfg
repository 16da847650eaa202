SPECIFICATION Spec
CONSTANTS
  NumRequests = 2
  NumChannels = 1
  MaxAttempts = 2
  FeeCfg <- MCFeeCfg
  FeeStats <- MCFeeStats
  Expiries = {None, 1}
  Margin = 0
  MaxLedger = 2
  Faults = {"latest", "fees", "sequence", "prepare", "mutate", "send", "confirm", "record", "timeout", "drop", "crash"}
  None = None
INVARIANTS
  TypeOK
  OneAcceptedTx
  DefiniteAnswer
  BooksAgree
  SpendCoversCharge
  NoLeakedChannel
  LeaseIsNext
  NeverBehind
PROPERTIES
  UsesPool
  KeepsPromise
  EveryCallAnswered
