SPECIFICATION FreeSpec
CONSTANTS
    f1 = f1
    f2 = f2
    j1 = j1
    Feed <- FeedPair
    Catalog <- CatalogPair
    Job = {j1, j2}
    Reader = {}
    Conn = {c1, c2}
    Pool = Pool
    S3Enabled = TRUE
    ForceOptions <- UnforcedOnly
    MaxVersion = 1
    MaxActive = 2
    MaxFaults = 0
INVARIANT
    HandleAtRest
\* Overlapping jobs may wait for each other: one deletes rows in its own transaction
\* and inserts through the handle of the other.
CHECK_DEADLOCK FALSE
