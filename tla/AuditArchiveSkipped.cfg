SPECIFICATION FairSpec
CONSTANTS
    Event = {}
    Worker = {w1}
    Verifier = {}
    Overrun = FALSE
    MaxDay = 3
    Retention = 2
    Keep = 3
    RetryLimit = 3
    PurgeLimit = 1
    MaxFaults = 1
PROPERTY
    EveryDayArchived
