SPECIFICATION Spec
CONSTANTS
    c1 = c1
    c2 = c2
    v1 = v1
    None = None
    Calls = {c1, c2}
    Views = {v1}
    QueueSize = 1
    DrainCap = 1
    MaxChunks = 1
    Mixes <- MixesMC
CHECK_DEADLOCK FALSE
INVARIANTS
    TypeOK
    RepliesInOrder
    AutomationNotOvertaken
    SizesAgree
    SelectionsAttached
PROPERTIES
    ModelComesFree
    TerminationConcludes
