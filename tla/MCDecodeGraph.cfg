SPECIFICATION Spec
CONSTANTS
    TileRows = 3
    UserBatch = 4
    Hidden = 4
    KvHidden = 2
    QChunks = 4
    KvChunks = 2
    AttnChunks = 2
    OpChunks = 4
    MlpChunks = 3
    PagedBatch = 3
    NumBuckets = 8
    PoolSize = 192
    TaskWindow = 128
    CleanupInterval = 64
    MaxPred = 6
    Hash <- MCHash
    Targets = {1, 2, 4}
    Variants = {"tensormap", "manual", "desc_ap", "qwen3_decode", "qwen3_decode_auto", "paged"}
INVARIANTS
    InputsReady
    OutputsOrdered
    EdgesAreFlow
CHECK_DEADLOCK FALSE
