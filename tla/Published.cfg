SPECIFICATION PublishedSpec
CONSTANTS
    Data = {d1, d2}
    MaxLeaves = 8
    MaxForged = 3
    ForgedSize = 5
    TileHeight = 1
    Requests = {q1, q2}
    Issuers = {i1, i2}
    Digests = {r1, r2}
    MaxBatch = 2
    MaxAnchors = 2
    Servers = {"package", "remote"}
    Packages = {"package"}
    ToolSets = {s1, s2}
    MaxWrites = 6
SYMMETRY Symmetry
INVARIANTS
    StoredTreeIsTheTree
    ProofsAreSound
    AnchorsStand
    SnapshotIsClosed
PROPERTY
    ReceiptsKeepThePromise
\* The log stops at the bound.
CHECK_DEADLOCK FALSE
