SPECIFICATION FairSpec
CONSTANTS
  MaxRequests = 2
  Replies <- MCReplies
  SEND_LEN = 2
  SEGMENT = 3
  RECV_INIT = 10
  RECV_MAX = 19
  TIMEOUT = 2
  READ_TOTAL = 3
  MAX_SIZE_T = 255
INVARIANTS InflightExact FramingExact
PROPERTIES RequestContract DeadlineKept RequestEnds
