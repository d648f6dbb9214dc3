SPECIFICATION Spec
CONSTANTS
  Positions = {p1, p2}
  NoPosition = nowhere
  RecycleAfterProgram = TRUE
  Enabled <- AllRequests
  MaxWaypoints = 1
  MaxRequests = 1
INVARIANT
  PollingNeverBlocksExecutor
