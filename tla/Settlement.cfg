\* Three requests under every deployment, the third one to try again.
CONSTANTS
    None = None
    Bad = Bad
    NoAction = NoAction
    Actions <- SomeActions
    Deployments <- SomeDeployments
    LiveDefault = 8
    Elsewhere = "elsewhere"
    MaxRequests = 3
SPECIFICATION Spec
INVARIANTS
    MatchIsReal SentOnce BroadcastIsRecorded Accounted 
    MinorityCannotMovePrice
CHECK_DEADLOCK FALSE
