SPECIFICATION Spec
CONSTANTS
  Topics <- MCTopics
  Contents <- MCContents
  MaxAge <- MCMaxAge
  QueueDepth = 1
  Commands <- MCCommands
  Statuses <- MCStatuses
  Timeouts <- MCTimeouts
  MaxGoals = 2
  Nothing = nothing
INVARIANTS
  SuccessMeansDone
  NothingSentIsTrue
PROPERTIES
  UsedStateIsRecent
  SentUnderTheLastStatus
  ConfirmedSpec
CHECK_DEADLOCK FALSE
