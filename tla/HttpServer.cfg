SPECIFICATION MCSpec
CONSTANTS
  Streams <- MCStreams
  MaxStartLine = 2
  MaxHeaders = 10
  MaxBody = 2
  MaxTrailers = 5
  MaxPauses = 2
  MaxWriters = 2
  MaxDirect = 1
  MaxPieces = 4
INVARIANTS
  RequestsFaithful
  NothingHeldBack
  ResponsesInOrder
PROPERTIES
  ResponsesDelivered
CHECK_DEADLOCK FALSE
