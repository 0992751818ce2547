CONSTANTS
    Configs <- FullOnly
    QueueSize = 1
    WarmupFrames = 0
    CameraFrames = 1
    EncoderDelay = 0
    Faults = {"osd"}
    MaxFaults = 1
SPECIFICATION Spec
INVARIANT ExitStatus
