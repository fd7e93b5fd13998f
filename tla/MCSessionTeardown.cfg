SPECIFICATION Spec
CONSTANTS
    s1 = s1
    s2 = s2
    s3 = s3
    None = None
    Sessions = {s1, s2, s3}
    Populations = {{s1, s2}, {s3}}
    Targets = {s3}
    Owned = {s1, s3}
    Unpainted = {}
CHECK_DEADLOCK FALSE
INVARIANTS
    TypeOK
    DrainMissesNothing
    TerminatingIsTracked
    NothingLingers
    ReleaseIsSealed
PROPERTIES
    DrainConcludes
    KeptUntilClosed
