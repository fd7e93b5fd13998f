SPECIFICATION FairSpec
CONSTANTS
    v1 = v1
    Me = Me
    Other = Other
    None = None
    Views = {v1}
    MaxWatermarks = 1
    MaxConns = 2
    MaxAttempts = 1
    MaxForgets = 1
CHECK_DEADLOCK FALSE
PROPERTIES
    ConnectionsRetire
