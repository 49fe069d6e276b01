SPECIFICATION Spec
CONSTANTS
    k1 = k1
    k2 = k2
    k3 = k3
    a1 = a1
    g1 = g1
    g2 = g2
    Key <- MCKey
    Attrs <- MCAttrs
    Goroutine <- MCGoroutine
    NotFound = NotFound
    Absent = Absent
    NoOne = NoOne
    MaxEntries = 2
    SampleSize = 2
    TTL = 1
    NegTTL = 1
    MaxTime = 2
    MaxGets = 2
    ClockSteps = TRUE
SYMMETRY KeyAndGoroutineSymmetry
INVARIANTS
    TypeOK
    IndexConsistent
    SizeBound
    EvictionSafe
