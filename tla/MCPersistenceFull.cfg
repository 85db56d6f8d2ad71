SPECIFICATION Spec
CONSTANTS
  a = a
  b = b
  Ids = {a, b}
  Vecs = {1, 2}
  Garbage = Garbage
  InitialCap = 2
  DefaultCap = 2
  NoFile = NoFile
  M = 2
  MaxLevel = 1
  AddsAt = {0, 1}
  Old <- MCOld
SYMMETRY MCSymmetry
INVARIANT SavedIsLoadable
