\* A harness with a retry and other callers, two threads of the gate, a key
\* that is configured, a halt and a restart.
CONSTANTS
    k1 = k1
    Keys = {k1}
    NoExpiry = NoExpiry
    NoKey = NoKey
    MaxAge = 0
    Threads = {w1, w2}
    EnforceAuth = "1"
    Requests <- OtherRequests
    NoCmd = NoCmd
    BadCmd = BadCmd
    HarnessKey = k1
    Retries = 1
    AllowDormant = FALSE
    NoId = NoId
    NoReply = NoReply
    MaxCalls = 2
    MaxRequests = 1
    MaxKeyOps = 1
    MaxSwitches = 1
    MaxClock = 1
    MaxBoots = 1
SPECIFICATION ClientSpec
INVARIANTS
    ApplyNeedsOperator  HaltStopsLoop ChangeIsGranted
CHECK_DEADLOCK FALSE
