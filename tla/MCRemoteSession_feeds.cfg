SPECIFICATION Spec
CONSTANTS
    Views = {1, 2}
    Opened = {1, 2}
    MaxConnections = 2
    MaxGeneration = 6
    MaxFaults = 1
    MaxOps = 2
    None = None
INVARIANTS SingleFeed
CHECK_DEADLOCK FALSE
