SPECIFICATION FairSpec
CONSTANTS
  Topics <- MCTopics
  Contents <- MCContents
  MaxAge <- MCMaxAge
  QueueDepth = 1
  Commands <- MCCommands
  Statuses <- MCOpen
  Timeouts <- MCTimeouts
  MaxGoals = 3
  Nothing = nothing
  Stages <- MCStages
  MaxShift = 1
  Gone <- MCGone
PROPERTIES
  StageVerified
  SentNearThePreview
  ConfirmedSpec
  ReturnsToTheOperator
CHECK_DEADLOCK FALSE
