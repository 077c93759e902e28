SPECIFICATION Spec
CONSTANTS
  MaxOrders = 1
  POLL_MAX = 1
  ORPHAN_MAX = 1
  Kinds <- MCKinds
  Platforms = {"posix"}
  Faults = {"reload", "exit", "crash"}
INVARIANT NoUseAfterFree
