SPECIFICATION Spec
CONSTANTS
    g1 = g1
    g2 = g2
    g3 = g3
    Goroutine <- MCGoroutine
    MaxProviders = 2
    Nil = Nil
INVARIANTS
    TypeOK
    NoProviderLost
    SpansReachProvider
PROPERTY CallsReturn
