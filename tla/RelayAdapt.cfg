SPECIFICATION AdaptSpec
CONSTANTS
    Publisher = c1
    Viewers = {c2, c3}
    Sessions = {c1, c2, c3}
    StreamIds = {s1}
    Codecs = {"h264"}
    Kinds = {"Screen"}
    TokenRequired = FALSE
    MaxRooms = 1
    MaxParticipants = 3
    MaxStreams = 1
    MaxInputQueue = 1
    MaxInputBatch = 1
    MaxRoomId = 1
    VoiceInputs = {}
    Reports = {"healthy", "degraded"}
    BitrateInputs = {0}
    FpsInputs = {8}
    ConfigInputs <- MCConfigInputs
    PollSizes = {}
INVARIANT ConfigMirrorsTarget
PROPERTIES LadderInOrder LadderReachesFloor StreamsEndWhole
CHECK_DEADLOCK FALSE
