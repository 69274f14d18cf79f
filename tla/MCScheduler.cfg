SPECIFICATION Spec
CONSTANTS
    a = a
    a2 = a2
    b = b
    t1 = t1
    t2 = t2
    None = None
    Spellings = {a, a2, b}
    Canonical <- Files
    Texts = {t1}
    Size <- Sizes
    Ids = {i1, i2, i3}
    Methods = {"semanticTokens"}
    MaxDocs = 2
    SourceLimit = 2
    CacheLimit = 100
    MaxPending = 2
    AccessWrap = 1
    MaxOutstanding = 1
    MaxVersion = 2
    MaxJobs = 3
SYMMETRY SymmetricIds
INVARIANTS
    TypeOK
    OneSlotPerUri
    WorkerIsCurrent
    WaitersAreBound
    ReadyMeansSettled
    NoOrphanedWaiter
    ServedAfterVerdict
    PendingIsScheduled
    AnsweredExactlyOnce
    QueueIsArray
PROPERTIES
    FailedUntilEdit
    QuietAfterShutdown
