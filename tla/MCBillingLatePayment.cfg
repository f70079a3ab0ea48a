SPECIFICATION BillingSpec
CONSTANTS
    r1 = r1
    r2 = r2
    c1 = c1
    i1 = i1
    none = none
    MaxSubs = 2
    MaxCopies = 2
    InstIds = {i1}
    Packages = {}
    NoInst = none
    Requests <- MCRequests
    Reconcilers = {c1}
    MaxEvents = 3
    InOrder = FALSE
    StripeSold = {}
INVARIANTS LatePaymentRecovers
CHECK_DEADLOCK FALSE
