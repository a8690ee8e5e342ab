\* The loop's thread and one other send a message each, or pause and resume
\* reading twice, and shut down or force the close.
SPECIFICATION FairSpec
CONSTANTS
  Clients = {c}
  MaxSends = 1
  MaxReadCtl = 2
  MaxForces = 1
  Mixed = FALSE
INVARIANTS WireInOrder FinAfterData ConnectionLife
PROPERTIES ShutdownFinishes PeerGoneNoticed
\* A connection may lie idle, and be closed for good.
CHECK_DEADLOCK FALSE
