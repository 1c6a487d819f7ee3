SPECIFICATION MCSpec
CONSTANTS
    f1 = f1
    f2 = f2
    j1 = j1
    Feed <- FeedPair
    Catalog <- CatalogPair
    Job = {j1, j2}
    Reader = {r1}
    Conn = {c1, c2}
    Pool = Pool
    S3Enabled = TRUE
    ForceOptions <- Either
    MaxVersion = 2
    MaxActive = 2
    MaxFaults = 1
SYMMETRY Symmetry
INVARIANTS
    
    HandleAtRestSerially
    NoOrphanTx
\* Overlapping jobs may wait for each other: one deletes rows in its own transaction
\* and inserts through the handle of the other.
CHECK_DEADLOCK FALSE
