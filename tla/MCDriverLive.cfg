SPECIFICATION FairSpec
CONSTANTS
  Positions = {p1}
  NoPosition = nowhere
  RecycleAfterProgram = TRUE
  Enabled <- AllRequests
  MaxWaypoints = 1
  MaxRequests = 1
PROPERTIES
  ReservationReleased
  DeadSessionDropped
  StopEndsWorker
