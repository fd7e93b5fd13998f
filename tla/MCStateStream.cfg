SPECIFICATION Spec
CONSTANTS
    Rows = {top, bottom}
    Glyphs = {blank, text}
    Shapes <- Sizes
    Capacity = 2
    MaxRevision = 3
    MaxStreams = 2
    MaxInFlight = 2
    MaxFaults = 1
    MaxOps = 1
    None = None
INVARIANTS TypeOK ReplicaIsHostState CaughtUp FeedApplies
SYMMETRY Symmetry
CHECK_DEADLOCK FALSE
