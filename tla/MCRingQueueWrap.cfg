SPECIFICATION QueueSpec
CONSTANTS
  Item = {2, 3}
  RING_SIZE = 2
  MAX_BATCH = 2
PROPERTY IsFifo
