SPECIFICATION ApiSpec
CONSTANTS
  Workers = {w1, w2}
  Ids = {1}
  Signers = {s1, s2}
  Nonces = {n1}
  Thresholds = {2}
  MaxEpoch = 2
  Crashes = {"api"}
  None = None
INVARIANTS
  AcceptedQuorumIsNoticed
PROPERTIES
  EpochMonotone
  QuorumNoticed
