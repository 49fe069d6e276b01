SPECIFICATION Spec
CONSTANTS
    Root = Root
    file = file
    dir = dir
    g1 = g1
    g2 = g2
    Key <- RootAndFile
    WithExt <- FileHasExt
    Goroutine <- MCGoroutine
    Ops <- StatOnly
    Attrs <- MCAttrs
    NotFound = NotFound
    Absent = Absent
    MaxChanges = 2
    TTL = 2
    NegTTL = 1
PROPERTY NegativeExpires
