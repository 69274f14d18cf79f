SPECIFICATION FairSpec
CONSTANTS
    HeaderSize = 2
    MaxBody = 2
    PipeSize = 2
    MaxDeferred = 1
    MaxQueued = 2
INVARIANTS
    TypeOK
    StreamIsFramed
    ZeroMeansWhole
    ModeIsRestored
PROPERTIES
    BlockedHandlerEnds
    SignalEndsFrame
