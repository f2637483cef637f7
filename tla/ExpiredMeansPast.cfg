\* An action that expires at second 3, sent at second 2.
CONSTANTS
    t1 = t1
    t2 = t2
    k1 = k1
    k2 = k2
    NoExpiry = NoExpiry
    NoKey = NoKey
    NoAction = NoAction
    NoRecord = NoRecord
    Keys = {k1}
    MaxAge = 1
    Tenants = {t1}
    Actions <- DatedActions
    Attr <- DatedAttr
    DurableRegistry = TRUE
    DurableKeys = TRUE
    Codes = {}
    SecondOpCodes = {}
    HygieneEnabled = FALSE
    OperatorCeiling = FALSE
    MaxPerWindow = 1
    Window = 2
    UnitsPerSecond = 2
    Requests <- DatedRequests
    SafetyRequests <- NoCommand
    VenueCodes = {"MATCH", "DIVERGED"}
    MaxRequests = 1
    MaxKeyOps = 0
    MaxClock = 2
    MaxBoots = 1
SPECIFICATION Spec
INVARIANT ExpiredMeansPast
CHECK_DEADLOCK FALSE
