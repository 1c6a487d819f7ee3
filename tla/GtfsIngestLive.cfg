SPECIFICATION FairFreeSpec
CONSTANTS
    f1 = f1
    f2 = f2
    j1 = j1
    Feed <- OneFeed
    Catalog <- CatalogOne
    Job = {j1}
    Reader = {r1}
    Conn = {c1}
    Pool = Pool
    S3Enabled = TRUE
    ForceOptions <- Either
    MaxVersion = 2
    MaxActive = 1
    MaxFaults = 2
PROPERTIES
    Converges
    
