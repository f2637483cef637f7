\* A scope for one query and one graph, sent with another.
CONSTANTS
    NoKey = NoKey
    OpKey = OpKey
    NoLimit = NoLimit
    NoVersion = NoVersion
    NoScope = NoScope
    BadScope = BadScope
    w1 = w1
    w2 = w2
    Workers = {w1, w2}
    Graphs = {"g", "h"}
    Versions <- TwoVersions
    Bodies <- TwoBodies
    KindsOf <- Kinds
    SizeOf <- Sizes
    Requests <- OtherQuery
    MaxRequests = 2
    MaxRotations = 0
    MaxLoads = 1
    Times = {0, 1}
    MaxChecks = 0
SPECIFICATION Spec
INVARIANT ScopeBinds
CHECK_DEADLOCK FALSE
