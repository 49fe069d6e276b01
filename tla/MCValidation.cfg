SPECIFICATION Spec
CONSTANTS
    g1 = g1
    g2 = g2
    Goroutine <- MCGoroutine
    Facts <- MCFacts
    Written <- MCWritten
    Requests <- MCRequests
    Partial <- MCPartial
    Registered <- MCRegistered
    MaxRegister = 1
    MaxStores = 2
    Meaning <- MCMeaning
    Nil = Nil
INVARIANTS
    VerdictExplained
    StatusNotStale
    LastFromAllowed
CHECK_DEADLOCK FALSE
