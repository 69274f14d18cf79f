SPECIFICATION FairSpec
CONSTANTS
    None = None
    MaxJobs = 2
    MaxPacket = 2
    PipeSize = 1
    MaxFrames = 1
PROPERTIES
    SignalNoticed
