SPECIFICATION Spec
CONSTANTS
  ec = ec
  rsa = rsa
  KeyType = {ec, rsa}
  First = ec
  KINDS <- PosixRuntime
  MAX_VER = 4
  AGE_BELOW = 4
  MAX_FAULTS = 0
INVARIANT StagingCleared
CHECK_DEADLOCK FALSE
