SPECIFICATION Spec
CONSTANTS
    SniffSize = 2
    SkipThreshold = 3
    Sizes <- MCSizes
    MaxGen = 2
    BufLens <- MCBufLens
    Offsets <- MCOffsets
    MaxPos = 8
    BadSeeks = FALSE
    Faults = TRUE
    NoReader = NoReader
INVARIANTS
    TypeOK
    InStep
PROPERTY ImplementsReadSeeker
