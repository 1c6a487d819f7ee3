SPECIFICATION FairSpec
CONSTANTS
    e1 = e1
    e2 = e2
    e3 = e3
    p1 = p1
    p2 = p2
    Event = {e1, e2, e3}
    Process = {p1, p2}
    Home <- TwoHomes
    Rejected = {e3}
    Limit = 2
    MaxLen = 2
    MaxFaults = 3
INVARIANTS
    TypeOK
    
    NoSilentLoss
PROPERTIES
    ImplementsLog
    FrontIsStored
