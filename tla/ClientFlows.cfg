SPECIFICATION FairFlowSpec
CONSTANTS
    Sessions = {"a", "b", "v"}
    StreamIds = {"s1", "s2"}
    Codecs = {"h264", "opus"}
    Kinds = {"Screen", "Voice"}
    Scenarios <- MCScenarios
    MaxFaults = 1
    StoredName <- MCStoredName
    CodecFor <- MCCodecFor
    TokenRequired = TRUE
    MaxRooms = 2
    MaxParticipants = 2
    MaxStreams = 2
    MaxInputQueue = 1
    MaxInputBatch = 1
    MaxRoomId = 2
    VoiceInputs <- MCVoiceInputs
    Reports = {"degraded"}
    BitrateInputs = {16000}
    FpsInputs = {5, 500}
    ConfigInputs <- MCConfigInputs
    PollSizes = {64}
INVARIANTS EndsClean PublisherIsNeverRefused NeverSwitched
PROPERTY EverythingDrains
CHECK_DEADLOCK FALSE
