SPECIFICATION FairSpec
CONSTANTS
    Views = {1, 2}
    Opened = {1, 2}
    MaxConnections = 2
    MaxGeneration = 6
    MaxFaults = 1
    MaxOps = 1
    None = None
INVARIANTS TypeOK AttemptsAreCurrent
PROPERTIES OnlyItsConnection LostIsRecovered
CHECK_DEADLOCK FALSE
