SPECIFICATION Spec
CONSTANTS
  Tasks <- MCTasks
  Moves <- MCMoves
  NoMove = nomove
PROPERTY
  QueriesOnlyRead
