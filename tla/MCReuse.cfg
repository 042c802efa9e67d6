SPECIFICATION Spec
CONSTANTS
  N = 6
  Preds <- Ladder6
  TypeOf <- Mixed6
  Count <- Ones
  RING_SIZE = 4
  AIC_CNT = 1
  AIC_OSTD = 2
  CQ_BATCH_SIZE = 4
  PRE_BATCH_SIZE = 4
  CON_NODE_CNT = 4
  ED_ENABLE = FALSE
  ED_DRAIN_MAX_PER_ROUND = 1
  ED_SPMD_MAX_BLOCKS = 1
  ED_UNFIN_THRESHOLD = 100
  INVALID = INVALID
INVARIANTS
  WatermarkSafe
CHECK_DEADLOCK FALSE
