SPECIFICATION Spec
CONSTANTS
  a = a
  b = b
  c = c
  Ids = {a, b, c}
  Vecs = {1, 2}
  NoVec = NoVec
  Garbage = Garbage
  InitialCap = 1
  DefaultCap = 2
  MaxSlots = 4
  MaxBatch = 2
  Metric <- MCMetric
  Queries = {1}
  MaxK = 2
SYMMETRY MCSymmetry
INVARIANTS
  TypeOK
  CountWithinCap
  AliveExact
  MapExact
  CompactFits
  FilteredExact
PROPERTIES
  SlotsStable
  StoreSpec
