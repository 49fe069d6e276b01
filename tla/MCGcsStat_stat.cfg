SPECIFICATION Spec
CONSTANTS
    Root = Root
    file = file
    dir = dir
    g1 = g1
    g2 = g2
    Key <- AllKeys
    WithExt <- FileHasExt
    Goroutine <- MCGoroutine
    Ops <- AllOps
    Attrs <- MCAttrs
    NotFound = NotFound
    Absent = Absent
    MaxChanges = 1
    TTL = 1
    NegTTL = 0
INVARIANTS
    PositiveConfirmed
    NegativeConfirmed
PROPERTY DeletionNoticed
