SPECIFICATION FairSpec
CONSTANTS
  CAS = 2
  PER_CA = 1
  KICK = 0
  KICK_RETRY = 2
  SCHED_INITIAL = 0
  SCHED_INTERVAL = 4
  SCHED_FLOOR = 1
  BACKOFF_BASE = 1
  BACKOFF_MAXSHIFT = 2
  BACKOFF_CAP = 3
  RENEW = 2
  TTL = 0
  LIFE = 3
  ORDER_TIME = 1
  RT_MAX = 1
  RetryAfter = {0, 2}
  Faults = {"start", "register", "launch", "order", "restart"}
INVARIANTS TypeOK OneBeat DeadCaRetried RetryAfterKept
PROPERTY ReadyIsTried
