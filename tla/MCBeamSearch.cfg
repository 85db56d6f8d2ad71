SPECIFICATION BeamSpec
CONSTANTS
  W = 3
  MaxCap = 7
  Points = {0, 1, 2, 3, 4, 5, 6}
  D <- MCD
  M = 2
  EfC = 2
  NoNode = NoNode
  Graphs <- MCGraphs
  Masks <- MCMasks
  MaxEf = 4
INVARIANTS
  MarksExact
  ComputesSearchLayer
