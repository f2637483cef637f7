\* Two worker threads, a rotation, a graph that is replaced, and an agent.
CONSTANTS
    NoKey = NoKey
    OpKey = OpKey
    NoLimit = NoLimit
    NoVersion = NoVersion
    NoScope = NoScope
    BadScope = BadScope
    w1 = w1
    w2 = w2
    Workers = {w1, w2}
    Graphs = {"g"}
    Versions <- TwoVersions
    Bodies <- TwoBodies
    KindsOf <- Kinds
    SizeOf <- Sizes
    Requests <- SomeRequests
    MaxRequests = 2
    MaxRotations = 2
    MaxLoads = 1
    Times = {0, 1}
    MaxChecks = 1
SYMMETRY AnyWorker
SPECIFICATION Spec
INVARIANTS
    ChainsIntact
    SerialComplete
    SerialAnchored
    ScopeRespected
    SerialScopeOnce
    AgentAccepts
CHECK_DEADLOCK FALSE
