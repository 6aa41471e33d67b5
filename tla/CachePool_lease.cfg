CONSTANTS
    t1 = t1
    t2 = t2
    h1 = h1
    h2 = h2
    h3 = h3
    i1 = i1
    i2 = i2
    i3 = i3
    i4 = i4
    Acquirers <- Both
    Releasers <- Both
    Size = 3
    MaxOut = 2
    RefreshFirst = FALSE
    SIZE_MAX = 15
    Users <- Both
    Handles = {h1, h2, h3}
    Owner <- HandleOwner
    Items = {i1, i2, i3, i4}
    Fields = {k1, k2}
    Nothing = Nothing
    PoolSize = 3
    MaxUse = 3
    Layers = {"ring"}
SPECIFICATION MCSpec
INVARIANTS OneLease
