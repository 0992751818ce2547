CONSTANTS
    Configs <- OneOutput
    QueueSize = 1
    WarmupFrames = 0
    CameraFrames = 3
    EncoderDelay = 0
    Faults <- WorkerFaults
    MaxFaults = 1
SPECIFICATION FairSpec
PROPERTIES
    StopTerminates
    EndPropagates
    StopPropagates
