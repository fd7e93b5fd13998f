SPECIFICATION Spec
CONSTANTS
    s1 = s1
    None = None
    Sessions = {s1}
    Populations = {{s1}}
    Targets = {}
    Owned = {s1}
    Unpainted = {s1}
CHECK_DEADLOCK FALSE
INVARIANT ReleasedOnceVisible
