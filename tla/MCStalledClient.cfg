SPECIFICATION FairSpec
CONSTANTS
    HeaderSize = 1
    MaxBody = 1
    PipeSize = 1
    MaxDeferred = 0
    MaxQueued = 1
PROPERTY StalledClientEndsServer
