SPECIFICATION Spec
CONSTANTS
  JointCount = 2
  Lower <- MCLower
  Upper <- MCUpper
  VelocityLimit <- MCVelocityLimit
  MaxPoints = 3
  MaxJointStep = 2
  DefaultPercent = 5
  MaxPercent = 50
  ExecutionMode = "stop_at_waypoints"
  MotionEnabled = TRUE
  AllowGoalOnly = FALSE
  StartTolerance = 3
  PathTolerance = 2
  GoalTolerance = 1
  GoalOnlyMaxDelta = 3
  Positions <- MCPositions
  Trajectories <- MCTrajectories
  NoSample = nosample
INVARIANTS
  StepsBounded
  SuccessMeansFollowed
  NamedJointsMoved
  SpeedIsLeastSufficient
PROPERTIES
  NothingAfterAMiss
