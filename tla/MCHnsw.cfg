SPECIFICATION Spec
CONSTANTS
  Points = {0, 1, 4, 10, 12, 17}
  D <- MCD
  M = 2
  EfC = 2
  NoNode = NoNode
  MaxLevel = 1
  MaxNodes = 6
  MaxDead = 1
  Searched = {0, 1, 4, 10}
INVARIANTS
  GraphSound
  SearchNeverShort
  WideBeamExact
CHECK_DEADLOCK FALSE
