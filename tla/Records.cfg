SPECIFICATION Spec
CONSTANTS
    None = None
    MoreValues = FALSE
    Words <- MCWords
    Representation <- MCRepresentation
    Values <- MCValues
    Sites <- MCSites
    BytesOf <- MCBytesOf
    Restorable <- MCRestorable
    Hex <- MCHex
    Contents <- MCContents
    ReadBatch = 1
    MaxCalls = 3
    MaxStaged = 2
    Common <- MCCommon
INVARIANTS ListedIsOverlay OneSpelling KeptApart SameKey
