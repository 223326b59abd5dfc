SPECIFICATION InstanceSpec
CONSTANTS
    None = None
    c1 = c1
    c2 = c2
    c3 = c3
    p1 = p1
    p2 = p2
    v1 = v1
    Client = {c1, c2, c3}
    Process = {p1, p2}
    Home <- Homes
    Format = {v1, v2}
    Saves = {s1}
    Migrations = {m1}
    Claims = {k1}
    Reads = {r1}
    Batch = 2
    Teardown = TRUE
CHECK_DEADLOCK FALSE
INVARIANTS NoSelfContention OwnFormat
PROPERTIES EveryCallEnds ActsAsDocument
