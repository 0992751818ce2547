CONSTANTS
    QueueSize = 1
    PendingCount = 2
    Gop = 2
    SegmentFrames = 2
    MaxFrames = 2
    Delays = {0}
    Kinds <- StreamKind
    Faults = {"trailer"}
    MaxFaults = 1
SPECIFICATION Spec
PROPERTY
    DeinitWritesNothing
