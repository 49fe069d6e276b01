\* A failed exporter ends the process.
CHECK_DEADLOCK FALSE
SPECIFICATION Spec
CONSTANTS
    r1 = r1
    r2 = r2
    w1 = w1
    w2 = w2
    Request <- MCRequest
    Writer <- MCWriter
    MaxLoads = 3
    MaxInits = 2
    MaxBody = 1
    Nil = Nil
SYMMETRY MCSymmetry
INVARIANTS
    ServesComplete
    RecordNilSafe
    RecordedTruth
PROPERTY NoRacyInit
