SPECIFICATION Spec
CONSTANTS
    None = None
    Attempt = {a1, a2, a3, a4}
    Run = {r1, r2}
    Content = {c1}
    Key = {}
    MaxDepth = 2
    MaxOrdinal = 1
    Pruning = TRUE
    Detached = TRUE
    Overlap = FALSE
    Concurrent = FALSE
SYMMETRY Symmetry
INVARIANTS
    CompletedNeverRerun
CHECK_DEADLOCK FALSE
