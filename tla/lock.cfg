SPECIFICATION FairSpec
CONSTANTS
  p1 = p1
  p2 = p2
  p3 = p3
  s1 = s1
  s2 = s2
  s3 = s3
  NoStore = NoStore
  Proc = {p1, p2, p3}
  Store = {s1, s2, s3}
  WIN32 = {s3}
  Faults = {"error", "crash", "single"}
INVARIANTS OneDriverPerStore LockIsDriver
PROPERTY TakesOver
CHECK_DEADLOCK FALSE
