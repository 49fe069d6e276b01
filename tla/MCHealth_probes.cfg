SPECIFICATION Spec
CONSTANTS
    c1 = c1
    c2 = c2
    r1 = r1
    r2 = r2
    Checker <- TwoCheckers
    Enabled <- MCEnabled
    NoClient <- MCNoClient
    Request <- MCRequest
    Written <- MCWritten
    MaxFaults = 1
    Nil = Nil
INVARIANTS
    TypeOK
    StartupVerified
    HealthyMeansChecked
    NoRelapse
PROPERTY StartupCompletes
