SPECIFICATION Spec
CONSTANTS
    k1 = k1
    k2 = k2
    k3 = k3
    a1 = a1
    g1 = g1
    g2 = g2
    Key <- MCTwoKeys
    Attrs <- MCAttrs
    Goroutine <- MCGoroutine
    NotFound = NotFound
    Absent = Absent
    NoOne = NoOne
    MaxEntries = 2
    SampleSize = 2
    TTL = 2
    NegTTL = 1
    MaxTime = 2
    MaxGets = 1
    ClockSteps = FALSE
INVARIANT LifetimeBounded
PROPERTIES
    ImplementsTTLMap
    ImplementsLiveCache
    CallsReturn
