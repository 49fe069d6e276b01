SPECIFICATION ServeSpec
CONSTANTS
    SniffSize = 3
    SkipThreshold = 4
    Sizes <- MCSizes
    MaxGen = 3
    BufLens <- MCBufLens
    Offsets <- MCOffsets
    MaxPos = 8
    BadSeeks = FALSE
    Faults = TRUE
    NoReader = NoReader
    Starts <- MCStarts
    CopyLen = 2
INVARIANTS
    ReadersPerGet
    BodyOneGeneration
    BodyContiguous
