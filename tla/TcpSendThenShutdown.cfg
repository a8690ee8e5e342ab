\* Two threads send, one of them shuts down after its message.
SPECIFICATION Spec
CONSTANTS
  Clients = {c}
  MaxSends = 1
  MaxReadCtl = 0
  MaxForces = 0
  Mixed = FALSE
INVARIANTS SendBeforeShutdown
CHECK_DEADLOCK FALSE
