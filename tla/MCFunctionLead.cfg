SPECIFICATION ServicesSpec
CONSTANTS
    w1 = w1
    i1 = i1
    i2 = i2
    p1 = p1
    p2 = p2
    r1 = r1
    none = none
    h1 = h1
    h2 = h2
    c1 = c1
    n1 = n1
    n2 = n2
    k1 = k1
    b1 = b1
    b2 = b2
    q1 = q1
    q2 = q2
    t1 = t1
    s1 = s1
    s2 = s2
    o1 = o1
    o2 = o2
    m1 = m1
    m2 = m2
    f1 = f1
    f2 = f2
    d1 = d1
    d2 = d2
    g1 = g1
    g2 = g2
    g3 = g3
    x = x
    y = y
    v1 = v1
    v2 = v2
    a1 = a1
    u1 = u1
    u2 = u2
    MaxSubs = 1
    MaxCopies = 1
    InstIds <- MCInstIds
    Packages <- MCPackages
    NoInst = none
    Requests = {r1}
    Reconcilers = {}
    MaxEvents = 2
    InOrder = FALSE
    StripeSold = {}
    Workers = {w1}
    Handlers <- MCHandlers
    Codes = {c1}
    Nonces = {n1, n2}
    IdemKeys = {k1}
    Bodies = {b1, b2}
    NoIdemKey = none
    MaxRuns = 2
    QuoteIds = {q1, q2}
    CardId = q1
    QuoteTexts = {t1}
    NoText = none
    Servers = {s1, s2}
    MaxPatches = 2
    MaxLists = 1
    TaskAmounts = {1, 2}
    MaxTxs = 3
    Models = {m1, m2}
    Bundles = {f1, f2}
    Operators = {o1}
    NoBundle = none
    MaxCommands = 3
    Deployments = {d1, d2}
    Releases <- MCReleases
    LegacyHashes <- MCLegacy
    NoDeployment = none
    NoHash = none
    Tags = {v1, v2}
    NoTag = none
    AppInstances = {a1}
    Askers = {q1}
    MaxReleases = 1
    Holders = {u1}
    NoHolder = none
    OldSchoolOwner = u1
    TrustedCount = 1
    Drafts = {t1}
    Blank = none
    MaxMints = 1
    MaxFlows = 1
    MaxReads = 1
    MaxRegistered = 1
    ChatMemory = 1
    Writers = {u1}
    MaxQuestions = 1
    MaxPosts = 1
    LimitKeys = {u1}
    ChatAddresses = {u2}
    Limit = 1
    WindowMs = 2
    Second = 1
    MaxTime = 3
INVARIANTS OneLeadPerBundle
CHECK_DEADLOCK FALSE
