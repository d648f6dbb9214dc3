CONSTANTS
  Programs = {"teleop", "moveit2"}
  Nodes = {"keyboard", "move_group"}
  Conflicts <- SomeConflicts
  Allowed = {"teleop", "moveit2"}
  None = None
SPECIFICATION ExampleFairSpec
INVARIANT AloneAtThePrompt
PROPERTY BackWhenChildrenEnd
CHECK_DEADLOCK FALSE
