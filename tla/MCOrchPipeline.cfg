SPECIFICATION Spec
CONSTANTS
  NumBuckets = 1
  PoolSize = 8
  TaskWindow = 8
  CleanupInterval = 64
  Hash <- MCHash
  MaxPred = 4
  TaskList <- MCTaskList
  MaxThreads = 3
  desc_batch_size = 2
  detect_batch_size = 1
INVARIANTS
  DescribedOnce
  FoundAsSequential
  DumpedAlone
