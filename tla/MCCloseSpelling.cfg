SPECIFICATION Spec
CONSTANTS
    a = a
    a2 = a2
    b = b
    t1 = t1
    t2 = t2
    None = None
    Spellings = {a, a2}
    Canonical <- Files
    Texts = {t1}
    Size <- Sizes
    Ids = {i1}
    Methods = {"hover"}
    MaxDocs = 1
    SourceLimit = 2
    CacheLimit = 100
    MaxPending = 1
    AccessWrap = 2
    MaxOutstanding = 1
    MaxVersion = 1
    MaxJobs = 1
INVARIANT ClosedShowsNothing
