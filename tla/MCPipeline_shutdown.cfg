CONSTANTS
    Configs <- AllConfigs
    QueueSize = 1
    WarmupFrames = 1
    CameraFrames = 3
    EncoderDelay = 1
    Faults <- OtherFaults
    MaxFaults = 1
SPECIFICATION Spec
CHECK_DEADLOCK FALSE
INVARIANT NothingLost
