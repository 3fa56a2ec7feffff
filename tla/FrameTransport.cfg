SPECIFICATION Spec
CONSTANTS
    MaxPayload = 2
    U16 = 4
    U32 = 16
    Joined = {0, 13}
    FrameSizes = {0, 3}
    KeyChoices = {FALSE}
    MaxPendingFrames = 3
    MaxFrameAge = 2
    MaxPendingMedia = 25
    FrameInterval = 10
    MaxFrames = 4
INVARIANTS DeliveredIsSent BufferIsBounded LossIsCounted NeverRefused
PROPERTIES DropsOldest
CHECK_DEADLOCK FALSE
