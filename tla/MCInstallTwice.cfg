SPECIFICATION MCSpec
CONSTANTS
    w1 = w1
    w2 = w2
    i1 = i1
    i2 = i2
    p1 = p1
    p2 = p2
    r1 = r1
    r2 = r2
    c1 = c1
    none = none
    MaxSubs = 2
    MaxCopies = 2
    InstIds <- MCInstIds
    Packages <- MCPackages
    NoInst = none
    Requests <- MCRequests
    Reconcilers = {c1}
    MaxEvents = 4
    InOrder = FALSE
    StripeSold = {2}
    Workers <- MCWorkers
INVARIANTS PackageOnceACopy
CHECK_DEADLOCK FALSE
