SPECIFICATION SmallSpec
CONSTANTS
    w1 = w1
    w2 = w2
    i1 = i1
    i2 = i2
    p1 = p1
    p2 = p2
    r1 = r1
    r2 = r2
    c1 = c1
    none = none
    MaxSubs = 1
    MaxCopies = 1
    InstIds <- MCInstIds
    Packages <- MCPackages
    NoInst = none
    Requests = {r1}
    Reconcilers = {}
    MaxEvents = 3
    InOrder = FALSE
    StripeSold = {}
    Workers = {w1}
PROPERTIES MirrorDerived
CHECK_DEADLOCK FALSE
