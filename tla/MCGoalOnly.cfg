SPECIFICATION JointSpec
CONSTANTS
  JointCount = 2
  Lower <- MCLower
  Upper <- MCUpper
  VelocityLimit <- MCVelocityLimit
  MaxPoints = 3
  MaxJointStep = 24
  DefaultPercent = 5
  MaxPercent = 10
  ExecutionMode = "goal_only"
  MotionEnabled = TRUE
  AllowGoalOnly = TRUE
  StartTolerance = 2
  PathTolerance = 1
  GoalTolerance = 1
  GoalOnlyMaxDelta = 22
  Positions <- MCPositions
  Trajectories <- MCTrajectories
  NoSample = nosample
  Ticks = 400
  MinTicks = 10
  ClientDelta = 23
  JointPlans <- MCJointPlans
  Percents <- MCPercents
  None = none
INVARIANTS
  DirectMoveBounded
  PercentNearSelected
PROPERTIES
  RefusedOnlyWhenBusyOrMoved
