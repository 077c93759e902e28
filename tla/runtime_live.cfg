SPECIFICATION FairSpec
CONSTANTS
  h1 = h1
  h2 = h2
  h3 = h3
  NoHost = NoHost
  Host = {h1, h2}
  ConfigHost = {}
  REQUESTS_MAX = 2
  BACKOFF_BASE = 1
  BACKOFF_MAX = 1
  FAIL_CAP = 1
  TTL = 0
  MAX_HOLD = 2
  LIFE = 2
  RENEW = 1
  ORDER_MAX = 2
  ORDER_WINDOW = 1
  FAIL_MAX = 1
  FAIL_WINDOW = 1
  FAIL_HOSTS = 2
  CONFIG_HOLD = 1
  RetryAfter = {0}
  Faults = {"launch", "reload"}
PROPERTIES PumpReturns RequestedSettles
