SPECIFICATION Spec
CONSTANTS
  h1 = h1
  h2 = h2
  h3 = h3
  NoHost = NoHost
  Host = {h1, h2, h3}
  ConfigHost = {h3}
  REQUESTS_MAX = 1
  BACKOFF_BASE = 2
  BACKOFF_MAX = 2
  FAIL_CAP = 2
  TTL = 1
  MAX_HOLD = 2
  LIFE = 2
  RENEW = 1
  ORDER_MAX = 1
  ORDER_WINDOW = 1
  FAIL_MAX = 1
  FAIL_WINDOW = 1
  FAIL_HOSTS = 2
  CONFIG_HOLD = 1
  RetryAfter = {}
  Faults = {"crash", "reload", "disable", "restart", "launch", "marker",
            "read", "store"}
SYMMETRY Symmetric
INVARIANTS TypeOK CountExact PendingOwned IssuedHasCert MarkerHasCert
