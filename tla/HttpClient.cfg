\* A client of each kind with two requests, or three through the cache.
SPECIFICATION FairSpec
CONSTANTS
  Requests <- MCRequests
  Replies <- MCReplies
  Modes <- MCModes
  MaxRequests <- MCMaxRequests
  MaxActs = 3
  MaxConns = 2
  MaxStops = 1
  MaxTime = 1
  MaxEntries = 2
  MaxBody = 2
  MaxTotalBody = 3
CHECK_DEADLOCK FALSE
INVARIANTS ResponsesIntact CacheHonest
PROPERTIES RequestsAnswered
