SPECIFICATION Spec
CONSTANTS
    SniffSize = 2
    SkipThreshold = 3
    Sizes <- MCSizes
    MaxGen = 2
    BufLens <- MCBufLens
    Offsets <- MCOffsets
    MaxPos = 8
    BadSeeks = TRUE
    Faults = TRUE
    NoReader = NoReader
PROPERTY ImplementsReadSeeker
