\* Two clients; the pipe takes two writes.
SPECIFICATION ThreadFairSpec
CONSTANTS
  o = o
  c = c
  Clients = {o, c}
  Owner = o
  MaxPosts <- MCMaxPosts
  PipeCap = 2
INVARIANTS NoLostWakeup NoMissedQuit
PROPERTIES FunctorsAreFifo FunctorsRun JoinReturns
\* The system ends when the owner has joined.
CHECK_DEADLOCK FALSE
