SPECIFICATION Spec
CONSTANTS
    v1 = v1
    Me = Me
    Other = Other
    None = None
    Views = {v1}
    MaxWatermarks = 1
    MaxConns = 2
    MaxAttempts = 3
    MaxForgets = 0
CHECK_DEADLOCK FALSE
INVARIANTS
    TypeOK
    WatermarkOutlivesDelayed
    LatestIsNeverStale
PROPERTIES
    NoStaleTakeover
    CleanupSparesSuccessor
