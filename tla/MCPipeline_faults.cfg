CONSTANTS
    Configs <- TwoOutputs
    QueueSize = 1
    WarmupFrames = 0
    CameraFrames = 2
    EncoderDelay = 0
    Faults <- OrdinaryFaults
    MaxFaults = 1
SPECIFICATION Spec
INVARIANTS
    TypeOK
    OutputInOrder
    OutputsFinished
    NoUseAfterTeardown
    ExitStatus
PROPERTIES
    NothingAfterTrailer
    QueuesAreChannels
