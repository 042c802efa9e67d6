SPECIFICATION Spec
CONSTANTS
    PAINTER_THREAD_CNT = 2
    DISPATCH_THREAD_CNT = 2
    AIC_CNT_PER_THREAD = 1
    test_graph <- MCGraph
    CQ_BATCH_SIZE = 2
    PRE_BATCH_SIZE = 1
    QUEUE_DEPTH = 2
    CntWidth = 8
    Replies <- MCReplies
INVARIANTS
    SchedInductive
    CoresHandedOver
    ReleasedOnce
    NoneForgotten
    ReportedOnce
    ReadyIsReady
