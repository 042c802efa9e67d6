SPECIFICATION QueueSpec
CONSTANTS
  Item = {2, 3}
  RING_SIZE = 4
  MAX_BATCH = 3
PROPERTY FifoInsideArray
