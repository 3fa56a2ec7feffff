SPECIFICATION Spec
CONSTANTS
    SampleCapacity = 2
    SyncSamples = 2
    StatsInterval = 2
    ScreenTarget = 3
    VoiceTarget = 1
    OpenEnded = TRUE
    Delays = {0, 3001}
    Processing = {1001}
    MaxRefreshes = 1
    ViewerOffset = 5000
    PublisherOffset = 7000
    MaxPackets = 4
INVARIANTS OffsetWithinRtt LatencyIsCalibrated WindowIsRecent ReportsKeepUp
CHECK_DEADLOCK FALSE
