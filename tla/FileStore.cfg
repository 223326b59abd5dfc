SPECIFICATION FairSpec
CONSTANTS
    None = None
    c1 = c1
    c2 = c2
    p1 = p1
    p2 = p2
    Client = {c1, c2}
    Process = {p1, p2}
    Home <- Homes
    Format = {v1, v2}
    Commits = {m1}
    Claims = {k1, k2}
    Reads = {r1}
    OpenBusy = FALSE
    Teardown = FALSE
CHECK_DEADLOCK FALSE
INVARIANTS OneWriter TemporariesAreOwned OwnFormat
PROPERTIES EveryCallEnds ActsAsDocument
