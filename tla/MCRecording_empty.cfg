CONSTANTS
    QueueSize = 1
    PendingCount = 2
    Gop = 2
    SegmentFrames = 2
    MaxFrames = 2
    Delays = {0}
    Kinds <- Mp4Only
    Faults = {}
    MaxFaults = 0
SPECIFICATION Spec
INVARIANT
    RecordingHasTrailer
