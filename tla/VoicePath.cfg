SPECIFICATION FairSpec
CONSTANTS
    Buffers = 2
    MaxPending = 2
    Formats = {"mono", "stereo"}
    FrameRates = {1, 2}
    FeedbackInterval = 2
    TargetFrames = 3
    OpenEnded = TRUE
    MaxChunks = 3
    MaxInFlight = 1
INVARIANTS SpeechIsSentOnce DeviceOwnsPending
PROPERTY CallEnds
CHECK_DEADLOCK FALSE
