SPECIFICATION Spec
CONSTANTS
  Tasks <- MCTasks
  Moves <- MCMoves
  NoMove = nomove
INVARIANT
  MovesAsCommanded
