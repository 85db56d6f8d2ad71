SPECIFICATION Spec
CONSTANTS
  D <- MCD
  M = 2
  EfC = 2
  NoNode = NoNode
  t1 = t1
  t2 = t2
  Threads = {t1, t2}
  NoThread = NoThread
  Chunk = 1
  Points = {0, 1, 4, 6}
  Calls <- MCFresh
  MaxLevel = 1
  CSnap = 128
INVARIANT IdenticalToSerial
