SPECIFICATION Safe
CONSTANTS
  Workers = {w1, w2}
  Ids = {1}
  Signers = {s1, s2}
  Nonces = {n1}
  Thresholds = {1, 2}
  MaxEpoch = 1
  Crashes = {}
  None = None
PROPERTY
  VoidStaysVoid
