SPECIFICATION FairSpec
CONSTANTS
  N = 3
  Preds <- Join3
  TypeOf <- AllCube
  Count <- Ones
  RING_SIZE = 4
  AIC_CNT = 2
  AIC_OSTD = 1
  CQ_BATCH_SIZE = 1
  PRE_BATCH_SIZE = 1
  CON_NODE_CNT = 4
  ED_ENABLE = TRUE
  ED_DRAIN_MAX_PER_ROUND = 2
  ED_SPMD_MAX_BLOCKS = 1
  ED_UNFIN_THRESHOLD = 100
  INVALID = INVALID
PROPERTIES
  EventuallyDone
