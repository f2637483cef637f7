\* A key added twice and revoked.
CONSTANTS
    t1 = t1
    t2 = t2
    k1 = k1
    k2 = k2
    NoExpiry = NoExpiry
    NoKey = NoKey
    NoAction = NoAction
    NoRecord = NoRecord
    Keys = {k1}
    MaxAge = 1
    Tenants = {t1}
    Actions <- ReplayActions
    Attr <- ReplayAttr
    DurableRegistry = TRUE
    DurableKeys = TRUE
    Codes = {}
    SecondOpCodes = {}
    HygieneEnabled = FALSE
    OperatorCeiling = FALSE
    MaxPerWindow = 1
    Window = 2
    UnitsPerSecond = 2
    Requests = {}
    SafetyRequests <- NoCommand
    VenueCodes = {"MATCH", "DIVERGED"}
    MaxRequests = 3
    MaxKeyOps = 3
    MaxClock = 1
    MaxBoots = 1
SPECIFICATION Spec
PROPERTY RevokeIsImmediate
CHECK_DEADLOCK FALSE
