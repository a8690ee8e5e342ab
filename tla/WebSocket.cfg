\* Four items from the peer, handshake included, or three when a second thread is there.
SPECIFICATION FairSpec
CONSTANTS
  Frames <- MCFrames
  FewFrames <- MCFewFrames
  FewHeard = 3
  MaxHeard = 4
  MaxRead = 2
  MaxFrame = 2
  MaxMessage = 2
  Compression = TRUE
  Pings = 1
  MaxActs = 1
INVARIANTS MessagesIntact CallbacksOrdered CloseIsLastWord
PROPERTIES CloseSettles
CHECK_DEADLOCK FALSE
