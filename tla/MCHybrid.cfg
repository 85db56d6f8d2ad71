SPECIFICATION Spec
CONSTANTS
  Points = {1, 2, 3, 4, 5, 6}
  D <- MCD
  M = 2
  EfC = 2
  NoNode = NoNode
  Dim = 11
  Pdim = 16
  Vec <- MCVec
  Signs <- MCSigns
  Projection <- MCProjection
  Unit = 93
  Level4 <- MCLevel4
  Level8 <- MCLevel8
  Modes <- MCModes
  CodecCap = 3
  MaxLevel = 1
  FirstCap = 2
  MaxNodes <- MCMaxNodes
  Searched = {3, 4, 5, 6}
  MaxDim = 130
  PaddedDims = {2, 4, 8, 16, 32, 64, 128, 256}
INVARIANTS
  CodesKept
  GraphSound
  RerankExact
  ScanExact
  ScoreFaithful
  KernelsCover
CHECK_DEADLOCK FALSE
