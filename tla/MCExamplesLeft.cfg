CONSTANTS
  Programs = {"teleop", "moveit2"}
  Nodes = {"keyboard", "move_group"}
  Conflicts <- SomeConflicts
  Allowed = {"teleop", "moveit2"}
  None = None
SPECIFICATION ExampleSpec
INVARIANT TerminalUntilExit
CHECK_DEADLOCK FALSE
