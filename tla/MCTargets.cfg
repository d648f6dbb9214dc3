SPECIFICATION TargetSpec
CONSTANTS
  Plans <- MCPlans
  Poses <- MCPoses
  DriverLimits <- MCDriverLimits
  LocalVelocity = 3
  None = none
PROPERTY
  ChecksAgree
