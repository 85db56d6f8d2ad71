SPECIFICATION MapSpec
CONSTANTS
  k1 = k1
  k2 = k2
  k3 = k3
  k4 = k4
  Keys = {k1, k2, k3, k4}
  Vals = {1, 2}
  NoVal = NoVal
  Empty = Empty
  Erased = Erased
  InitCap = 4
  Hash <- MCSpreadHash
INVARIANT
  NeverSpins
