SPECIFICATION Spec
CONSTANTS
  Clients = {c1, c2, c3}
  NumChannels = 2
  Seqs = {5, 6}
  None = None
INVARIANTS
  TypeOK
  MutualExclusion
  BusyMeansHeld
  NoIdleWhileWaiting
  LeaseIsCurrent
PROPERTIES
  SequenceStepwise
  WaiterServed
  ImplementsLease
