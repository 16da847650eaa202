SPECIFICATION Safe
CONSTANTS
  Workers = {w1, w2}
  Ids = {1, 2}
  Signers = {s1, s2}
  Nonces = {n1}
  Thresholds = {1, 2}
  MaxEpoch = 1
  Crashes = {"api", "indexer"}
  None = None
SYMMETRY Symmetry
INVARIANTS
  TypeOK
  MirrorIsConsistent
  ReadyHasQuorum
  OneActivePerNonce
PROPERTY
  NoStaleSignature
