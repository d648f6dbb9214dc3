SPECIFICATION FairSpec
CONSTANTS
  Configurations <- MCConfigurations
  FirstMaxima <- MCFirstMaxima
  FirstSteps <- MCFirstSteps
  MotionKeys <- MCMotionKeys
  NoStatus = nostatus
INVARIANTS
  ArmedMeansConnected
  OneGoalInFlight
  QuitLeavesNothing
PROPERTIES
  SentWithinHeard
  LockedOnlyByALoss
