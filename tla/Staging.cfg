SPECIFICATION Spec
CONSTANTS
    None = None
    Main = t1
    Task = {t1, t2}
    Stage = {s1, s2, s3}
    Key = {k1}
    Lister = {t2}
    Shared = FALSE
SYMMETRY Symmetry
INVARIANTS
    NoDiscardedRead
    OpenStageCanClose
    EnclosingGivenBack
    ListedWasVisible
CHECK_DEADLOCK FALSE
