SPECIFICATION UiSpec
CONSTANTS
    Sessions = {c1, c2}
    Console = c1
    StreamIds = {"s1", "s2"}
    StreamOf <- MCStreamOf
    Codecs = {"h264", "opus"}
    CodecOf <- MCCodecOf
    Kinds = {"Screen", "Voice"}
    ScreenConfigs <- MCScreenConfigs
    VoiceConfig <- MCVoiceConfig
    ArgRoom = 0
    VoicePatches <- MCVoicePatches
    TokenRequired = FALSE
    MaxRooms = 2
    MaxParticipants = 2
    MaxStreams = 3
    MaxInputQueue = 1
    MaxInputBatch = 1
    MaxRoomId = 2
    VoiceInputs = {}
    Reports = {}
    BitrateInputs = {2000000}
    FpsInputs = {}
    ConfigInputs = {}
    PollSizes = {}
INVARIANTS NoHiddenShare SendersStayInChannel PublishesInSelectedChannel VoiceStateIsPushed
CHECK_DEADLOCK FALSE
