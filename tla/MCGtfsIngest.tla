---------------------------- MODULE MCGtfsIngest ----------------------------
(* Instances of GtfsIngest for TLC: two feeds, ingested in this order.       *)
EXTENDS GtfsIngest, TLC

CONSTANTS f1, f2, j1

FeedPair    == {f1, f2}
CatalogPair == <<f1, f2>>
OneFeed     == {f1}
CatalogOne  == <<f1>>
Either      == BOOLEAN
UnforcedOnly == {FALSE}

\* Two ways the service is used.  "serial": one job at a time over the whole
\* catalogue, new versions and readers meanwhile.  "overlap": jobs for the
\* first feed run into each other.
VARIABLE mode

MCInit == Init /\ mode \in {"serial", "overlap"}

Serial  == mode = "serial"  => \A j \in Job \ {j1} : job'[j] = NoJob
Overlap == mode = "overlap" =>
    /\ UNCHANGED <<remote, page, fill>>
    /\ \A j \in Job : job'[j].todo \in {<<>>, <<f1>>} /\ ~job'[j].force

MCNext == Next /\ UNCHANGED mode /\ Serial /\ Overlap

MCSpec == MCInit /\ [][MCNext]_<<vars, mode>>

\* Nothing is held back.
FreeInit     == Init /\ mode = "free"
FreeSpec     == FreeInit /\ [][Next /\ UNCHANGED mode]_<<vars, mode>>
FairFreeSpec == FreeSpec /\ Fairness

Symmetry == Permutations(Conn)

\* CommittedWhole for jobs that do not overlap: what other sessions see of a
\* feed is one whole version, whatever fails in replaceFeedData.
CommittedWholeSerially == mode = "serial" => CommittedWhole

\* HandleAtRest for jobs that do not overlap: this.db is back on the pool
\* whenever no job runs (the run ingest_overlap shows that it fails otherwise).
HandleAtRestSerially == mode = "serial" => HandleAtRest
=============================================================================
