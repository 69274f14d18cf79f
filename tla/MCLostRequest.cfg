SPECIFICATION FairSpec
CONSTANTS
    a = a
    a2 = a2
    b = b
    t1 = t1
    t2 = t2
    None = None
    Spellings = {a, b}
    Canonical <- Files
    Texts = {t2}
    Size <- Sizes
    Ids = {i1}
    Methods = {"hover"}
    MaxDocs = 2
    SourceLimit = 4
    CacheLimit = 4
    MaxPending = 1
    AccessWrap = 2
    MaxOutstanding = 1
    MaxVersion = 2
    MaxJobs = 3
PROPERTY EveryRequestCompletes
