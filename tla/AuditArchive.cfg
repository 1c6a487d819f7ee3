SPECIFICATION MCFairSpec
CONSTANTS
    e1 = e1
    w1 = w1
    Event = {e1, e2}
    Worker = {w1, w2}
    Verifier = {v1}
    Overrun = TRUE
    MaxDay = 4
    Retention = 2
    Keep = 3
    RetryLimit = 3
    PurgeLimit = 1
    MaxFaults = 2
INVARIANTS
    TypeOK
    VerifiedIsWhole
    VerifiedMatchesObjectsExclusively
PROPERTIES
    PurgedIsRestorable
    FailedIsRetriedExclusively
