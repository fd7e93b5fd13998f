SPECIFICATION Spec
CONSTANTS
    v1 = v1
    v2 = v2
    c1 = c1
    c2 = c2
    small = small
    large = large
    None = None
    Views = {v1, v2}
    Clients = {c1,c2}
    Sizes = {small,large}
    MaxWatermarks = 1
    Generations = {1,2}
    ConnIds = {1,2}
    CommandSeqs = {1}
    MaxEpoch = 3
    MaxClaims = 1
SYMMETRY Symmetry
CHECK_DEADLOCK FALSE
INVARIANTS
    TypeOK
    ControllerIsCurrent
    StreamsEndWithIncarnation
PROPERTIES
    GenerationsOnlyRise
    RevisionNamesController
    CommandsOnlyAdvance
    ImplementsIncarnations
