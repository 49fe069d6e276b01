SPECIFICATION Spec
CONSTANTS
    c1 = c1
    c2 = c2
    c3 = c3
    m1 = m1
    m2 = m2
    m3 = m3
    m4 = m4
    cl1 = cl1
    cl2 = cl2
    cl3 = cl3
    cl4 = cl4
    Config <- MCConfig
    Member <- MCMember
    Client <- MCClient
    Written <- MCWritten
    Emulator = FALSE
    Unset = Unset
    None = None
INVARIANTS
    TypeOK
    ReadyClientOpen
    NoClientLeak
    SameCredentialsShare
    CacheAsConfigured
CHECK_DEADLOCK FALSE
