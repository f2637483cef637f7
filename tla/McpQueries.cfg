\* Requests, other frames and noise on one pipe, over four graphs.
CONSTANTS
    None = None
    NoKey = NoKey
    OpKey = OpKey
    NoExpiry = NoExpiry
    k1 = k1
    Keys = {k1}
    Operators = {k1}
    MaxAge = 0
    MultiLabelTlds <- Suffixes
    KindsOf <- Kinds
    Holds <- Eval
    Fails <- Raises
    Artifacts <- SomeArtifacts
    Lines <- SomeLines
    GraphName = "default"
    Mirrored = TRUE
    MaxLines = 2
    MaxClock = 1
SPECIFICATION Spec
INVARIANTS
    AnsweredInOrder
    ScopeSpentOnSight
    WritesAreCommanded
    ServedIsReference
    
    
PROPERTIES InputIsRead
CHECK_DEADLOCK FALSE
