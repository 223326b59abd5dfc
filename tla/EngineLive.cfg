SPECIFICATION OrderedSpec
CONSTANTS
    None = None
    a1 = a1
    a2 = a2
    a3 = a3
    r1 = r1
    r2 = r2
    k2 = k2
    Attempt = {a1, a2, a3}
    Run = {r1, r2}
    Content = {c1}
    Key = {k1, k2}
    MaxDepth = 2
    MaxOrdinal = 2
    Pruning = TRUE
    Detached = FALSE
    Overlap = FALSE
    Concurrent = FALSE
INVARIANTS
    MetadataWithResult
    FailurePersistsNothing
PROPERTY EveryRunEnds
CHECK_DEADLOCK FALSE
