SPECIFICATION FairSpec
CONSTANTS
  ec = ec
  rsa = rsa
  KeyType = {ec, rsa}
  First = ec
  KINDS <- AllKinds
  MAX_VER = 5
  AGE_BELOW = 2
  MAX_FAULTS = 1
INVARIANTS CommittedSurvives ChainNeverAhead ServedPair
PROPERTIES NeverMissing Converges
CHECK_DEADLOCK FALSE
