\* A good body, well below every limit, cut in every way.
SPECIFICATION RouteSpec
CONSTANTS
  Bodies <- MCGoodBodies
  RawBodies = {}
  MaxHeader = 8
  MaxField = 3
INVARIANTS CutsAccepted
CHECK_DEADLOCK FALSE
