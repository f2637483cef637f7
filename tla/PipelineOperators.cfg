\* A request of any kind and an operator's, safety commands, two key
\* operations, a restart.
CONSTANTS
    t1 = t1
    t2 = t2
    k1 = k1
    k2 = k2
    NoExpiry = NoExpiry
    NoKey = NoKey
    NoAction = NoAction
    NoRecord = NoRecord
    Keys = {k1, k2}
    MaxAge = 1
    Tenants = {t1}
    Actions <- GrantActions
    Attr <- GrantAttr
    DurableRegistry = FALSE
    DurableKeys = TRUE
    Codes <- GrantCodes
    SecondOpCodes = {"destination"}
    HygieneEnabled = TRUE
    OperatorCeiling = FALSE
    MaxPerWindow = 2
    Window = 2
    UnitsPerSecond = 2
    Requests <- AllRequests
    SafetyRequests <- SafetyCommands
    VenueCodes = {"MATCH", "DIVERGED"}
    MaxRequests = 2
    MaxKeyOps = 2
    MaxClock = 1
    MaxBoots = 1
SPECIFICATION Spec
INVARIANTS
    GrantSound OperatorNonceOnce SafetyReplayBounded
PROPERTIES SwitchAudited
CONSTRAINT OperatorsLast
CHECK_DEADLOCK FALSE
