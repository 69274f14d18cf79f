SPECIFICATION Spec
CONSTANTS
    a = a
    a2 = a2
    b = b
    t1 = t1
    t2 = t2
    None = None
    Spellings = {a, b}
    Canonical <- Files
    Texts = {t1, t2}
    Size <- Sizes
    Ids = {i1}
    Methods = {"hover", "foldingRange"}
    MaxDocs = 2
    SourceLimit = 3
    CacheLimit = 3
    MaxPending = 1
    AccessWrap = 2
    MaxOutstanding = 2
    MaxVersion = 2
    MaxJobs = 3
INVARIANTS
    CacheBudget
    ShownMatchesVerdict
