SPECIFICATION RuntimeSpec
CONSTANTS
    Sessions = {c1, c2}
    StreamIds = {s1}
    Codecs = {"h264"}
    Kinds = {"Voice"}
    TokenRequired = FALSE
    MaxRooms = 1
    MaxParticipants = 2
    MaxStreams = 1
    MaxInputQueue = 1
    MaxInputBatch = 1
    MaxRoomId = 1
    VoiceInputs = {}
    Reports = {"healthy"}
    BitrateInputs = {}
    FpsInputs = {}
    ConfigInputs = {}
    PollSizes = {}
    MaxTasks = 1
INVARIANT CleanAfterDisconnect
CHECK_DEADLOCK FALSE
