\* Seven parts, each on its own: two workers and a runner; two takers and two putters;
\* two threads that log to one file, with one older file kept; two threads that use
\* the timer thread; two starts and two stops of a connector with two addresses;
\* four connections over two I/O loops;
\* a SOCKS5 session with two elements of payload each way.
SPECIFICATION MCSpec
CONSTANTS
  Workers = {w1, w2}
  Runners = {r}
  MaxTasks = 3
  MaxPoolStarts = 2
  Takers = {t1, t2}
  Putters = {p1, p2}
  MaxPuts = 3
  MaxTakes = 2
  Loggers = {a, b}
  LogFiles = {f}
  RecordSizes <- MCRecordSizes
  BufferLimit = 2
  RollSize = 2
  MaxRollFiles = 1
  MaxFlushes = 2
  TimerUsers = {u, v}
  MaxTimerThreads = 2
  MaxTimerCalls = 2
  MaxCallbacks = 2
  Addresses = 2
  Retry = TRUE
  MaxAttempts = 4
  MaxStarts = 2
  MaxStops = 2
  IoLoops = 2
  MaxConns = 4
  MaxUploads = 2
  MaxDownloads = 2
INVARIANTS PoolServes QueueAwake LogFaithful LogAwake SocketsOwned
           StopIsFinal ConnectionsOwned ProxyFaithful
PROPERTIES TimerCallsReturn ConnectSettles
\* Every part may lie idle.
CHECK_DEADLOCK FALSE
