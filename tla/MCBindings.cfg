SPECIFICATION PySpec
CONSTANTS
  Ids = {0, 1, 2}
  Vecs = {1, 4}
  NoVec = NoVec
  Garbage = Garbage
  InitialCap = 1
  DefaultCap = 2
  Metric <- MCMetric
  Queries = {2, 3}
  Filters = {{}, {0}, {1, 2}}
  QB = 2
  Procs = 2
  Threads = {0}
  MaxSlots = 3
  MaxBatch = 2
INVARIANTS
  DefaultsDense
  DeleteExact
  RowsExact
PROPERTIES
  StoreSpec
  ThreadsKept
