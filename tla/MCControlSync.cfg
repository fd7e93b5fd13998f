SPECIFICATION Spec
CONSTANTS
    m1 = m1
    m2 = m2
    f1 = f1
    None = None
    Mine = {m1, m2}
    Foreign = {f1}
    BacklogSize = 1
    Regimes <- RegimesMC
    MaxBorn = 2
    MaxTurn = 4
    MaxPending = 2
    MaxWire = 1
SYMMETRY Symmetry
CHECK_DEADLOCK FALSE
INVARIANTS
    TypeOK
    NothingManufactured
    ClientConverges
    SeatIsReclaimed
PROPERTIES
    SwapNeverSteals
