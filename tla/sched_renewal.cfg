SPECIFICATION Spec
CONSTANTS
  CAS = 2
  PER_CA = 2
  KICK = 0
  KICK_RETRY = 2
  SCHED_INITIAL = 0
  SCHED_INTERVAL = 12
  SCHED_FLOOR = 1
  BACKOFF_BASE = 1
  BACKOFF_MAXSHIFT = 0
  BACKOFF_CAP = 1
  RENEW = 10
  TTL = 0
  LIFE = 14
  ORDER_TIME = 1
  RT_MAX = 1
  RetryAfter = {}
  Faults = {}
INVARIANT NeverExpires
