SPECIFICATION FairSpec
CONSTANTS
    Views = {1, 2}
    Opened = {1, 2}
    MaxConnections = 2
    MaxGeneration = 6
    MaxFaults = 1
    MaxOps = 1
    None = None
PROPERTY EndedIsTerminal
CHECK_DEADLOCK FALSE
