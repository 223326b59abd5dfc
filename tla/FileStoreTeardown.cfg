SPECIFICATION Spec
CONSTANTS
    None = None
    c1 = c1
    c2 = c2
    p1 = p1
    p2 = p2
    Client = {c1, c2}
    Process = {p1, p2}
    Home <- Homes
    Format = {v1}
    Commits = {m1, m2}
    Claims = {}
    Reads = {}
    OpenBusy = FALSE
    Teardown = TRUE
CHECK_DEADLOCK FALSE
INVARIANTS OneWriter
