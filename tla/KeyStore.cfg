\* Two writers and the event loop, a crash at any statement.
CONSTANTS
    Keys = {k1, k2}
    NoExpiry = NoExpiry
    NoKey = NoKey
    NoRing = NoRing
    MaxAge = 1
    Writers = {w1, w2}
    MaxOps = 3
    MaxAudits = 1
    MaxBoots = 1
SPECIFICATION FairSpec
INVARIANTS NoDanglingTransaction 
PROPERTIES WritersAnswered
CHECK_DEADLOCK FALSE
