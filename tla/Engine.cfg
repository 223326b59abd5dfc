SPECIFICATION Spec
CONSTANTS
    None = None
    Attempt = {a1, a2, a3, a4}
    Run = {r1, r2}
    Content = {c1}
    Key = {}
    MaxDepth = 3
    MaxOrdinal = 2
    Pruning = TRUE
    Detached = FALSE
    Overlap = FALSE
    Concurrent = FALSE
SYMMETRY Symmetry
INVARIANTS
    TypeOK
    IdsUniqueInRun
    ResetFindsNothing
    Agreement
    AnswersAreRecorded
    OneCompletedEvent
    CompletedNeverRerun
    RunningRecordIsStarted
PROPERTIES
    KeepsPromise
CHECK_DEADLOCK FALSE
