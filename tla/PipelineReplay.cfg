\* Two tenants, three requests, a restart: the registry on disk.
CONSTANTS
    t1 = t1
    t2 = t2
    k1 = k1
    k2 = k2
    NoExpiry = NoExpiry
    NoKey = NoKey
    NoAction = NoAction
    NoRecord = NoRecord
    Keys = {k1}
    MaxAge = 1
    Tenants = {t1, t2}
    Actions <- ReplayActions
    Attr <- ReplayAttr
    DurableRegistry = TRUE
    DurableKeys = FALSE
    Codes = {}
    SecondOpCodes = {}
    HygieneEnabled = FALSE
    OperatorCeiling = FALSE
    MaxPerWindow = 1
    Window = 2
    UnitsPerSecond = 2
    Requests <- ReplayRequests
    SafetyRequests <- NoCommand
    VenueCodes = {"MATCH", "DIVERGED"}
    MaxRequests = 3
    MaxKeyOps = 0
    MaxClock = 1
    MaxBoots = 1
SPECIFICATION FairSpec
INVARIANTS TypeOK AtMostOnce RunsAreCausal ForensicClosure VelocityBound
PROPERTIES ImplementsExecuteOnce Answered
CHECK_DEADLOCK FALSE
