CONSTANTS
    Configs <- OneOutput
    QueueSize = 1
    WarmupFrames = 1
    CameraFrames = 1
    EncoderDelay = 0
    Faults = {}
    MaxFaults = 0
SPECIFICATION Spec
INVARIANT SignalIsNoError
