SPECIFICATION FairSpec
CONSTANTS
  MaxOrders = 2
  POLL_MAX = 1
  ORPHAN_MAX = 1
  Kinds <- MCKinds
  Platforms = {"posix", "win32"}
  Faults = {"reload", "exit", "crash"}
INVARIANTS TypeOK OneContinuation NoDangling AnswerUp HooksInOrder RetryFresh
PROPERTIES OrderContract OrderEnds
