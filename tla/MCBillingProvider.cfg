SPECIFICATION BillingFairSpec
CONSTANTS
    r1 = r1
    r2 = r2
    c1 = c1
    i1 = i1
    none = none
    MaxSubs = 2
    MaxCopies = 1
    InstIds = {}
    Packages = {}
    NoInst = none
    Requests = {r1}
    Reconcilers = {c1}
    MaxEvents = 5
    InOrder = TRUE
    StripeSold = {2}
INVARIANTS ProviderAgreement
PROPERTIES PendingResolves
CHECK_DEADLOCK FALSE
