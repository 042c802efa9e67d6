SPECIFICATION Spec
CONSTANTS
  N = 4
  Preds <- Diamond
  TypeOf <- Mixed4
  Count <- SpmdSecond
  RING_SIZE = 4
  AIC_CNT = 1
  AIC_OSTD = 2
  CQ_BATCH_SIZE = 4
  PRE_BATCH_SIZE = 4
  CON_NODE_CNT = 4
  ED_ENABLE = TRUE
  ED_DRAIN_MAX_PER_ROUND = 2
  ED_SPMD_MAX_BLOCKS = 1
  ED_UNFIN_THRESHOLD = 100
  INVALID = INVALID
INVARIANTS
  TypeOK
  SlotHandoff
  PredecessorCntExact
  FaninExact
  DoorbellMeansReady
  GatedWaitsForDispatched
  GatedIsWatched
  ReleasedOrOwed
  Inductive
  ReadyIsReady
  OneSlotPerTask
  SelfCheck
PROPERTIES
  ImplementsDag
