SPECIFICATION Spec
CONSTANTS
  Batches <- MCBatches
  MaxDetections = 2
  EyeToHand = TRUE
  Matrix <- MCMatrix
  Translation <- MCTranslation
  Largest = 9
  None = none
  Families <- MCFamilies
  Family <- MCFamily
  Words <- MCWords
  Precedence <- MCPrecedence
  Requests <- MCRequests
  Poses <- MCPoses
  Offset <- MCOffset
  MaxTravel = 3
  MaxShift = 1
  PickZ <- MCPickZ
  MaxApproach = 2
  MaxVertical = 2
INVARIANT
  RequestedClassIsSelected
