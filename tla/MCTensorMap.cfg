SPECIFICATION Spec
CONSTANTS
  NumBuckets = 2
  PoolSize = 4
  TaskWindow = 4
  CleanupInterval = 3
  Hash <- MCHash
  Programs <- MCPrograms
  Windows <- MCWindows
  MaxPred = 3
  RING_SIZE = 4
  MaxPendingIO = 3
  MaxTask = 6
INVARIANTS
  ChainsSound
  DepsComplete
  NoFalseEdge
  SweptClean
  PoolSuffices
  OverlapSound
CHECK_DEADLOCK FALSE
