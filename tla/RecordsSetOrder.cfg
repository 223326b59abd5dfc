SPECIFICATION Spec
CONSTANTS
    None = None
    MoreValues = TRUE
    Words <- MCWords
    Representation <- MCRepresentation
    Values <- MCValues
    Sites <- MCSites
    BytesOf <- MCBytesOf
    Restorable <- MCRestorable
    Hex <- MCHex
    Contents <- MCContents
    ReadBatch = 1
    MaxCalls = 1
    MaxStaged = 2
    Common <- MCCommon
INVARIANT SameKey
