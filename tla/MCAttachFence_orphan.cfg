SPECIFICATION Spec
CONSTANTS
    v1 = v1
    Me = Me
    Other = Other
    None = None
    Views = {v1}
    MaxWatermarks = 1
    MaxConns = 1
    MaxAttempts = 1
    MaxForgets = 0
CHECK_DEADLOCK FALSE
INVARIANTS
    DeathDetaches
