\* The RPC is set and the tenant is live.
CONSTANTS
    None = None
    Bad = Bad
    NoAction = NoAction
    Actions <- SomeActions
    Deployments <- LiveDeployments
    LiveDefault = 8
    Elsewhere = "elsewhere"
    MaxRequests = 3
SPECIFICATION Spec
INVARIANTS MatchIsBroadcast
CHECK_DEADLOCK FALSE
