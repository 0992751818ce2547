CONSTANTS
    QueueSize = 1
    PendingCount = 2
    Gop = 2
    SegmentFrames = 2
    MaxFrames = 5
    Delays <- SomeDelays
    Kinds <- AllKinds
    Faults <- AllFaults
    MaxFaults = 1
SPECIFICATION Spec
INVARIANTS
    TypeOK
    PacketsInOrder
    PendingFits
    SamplesAreStream
    SegmentsFit
    FilesAreFinished
    FramesReachOutputs
PROPERTIES
    ClosedIsFinal
    DeinitOnlyRetries
