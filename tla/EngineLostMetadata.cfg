SPECIFICATION Spec
CONSTANTS
    None = None
    Attempt = {a1}
    Run = {r1}
    Content = {c1}
    Key = {k1, k2}
    MaxDepth = 2
    MaxOrdinal = 2
    Pruning = FALSE
    Detached = FALSE
    Overlap = FALSE
    Concurrent = TRUE
SYMMETRY Symmetry
INVARIANTS
    MetadataWithResult
CHECK_DEADLOCK FALSE
