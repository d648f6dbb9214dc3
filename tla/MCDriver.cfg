SPECIFICATION Spec
CONSTANTS
  Positions = {p1, p2}
  NoPosition = nowhere
  RecycleAfterProgram = TRUE
  Enabled <- AllRequests
  MaxWaypoints = 2
  MaxRequests = 2
SYMMETRY PositionSymmetry
INVARIANTS
  ReservationMatchesOwner
  WorkerEndsDisconnected
PROPERTIES
  MisattributionNeedsTimeout
  EffectsDoNotOverlap
  JogStartsFromLivePose
  ImplementsOwnership
