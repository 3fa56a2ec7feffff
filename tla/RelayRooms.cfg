SPECIFICATION Spec
CONSTANTS
    Sessions = {c1, c2}
    StreamIds = {s1, s2}
    Codecs = {"h264"}
    Kinds = {"Screen"}
    TokenRequired = TRUE
    MaxRooms = 2
    MaxParticipants = 2
    MaxStreams = 1
    MaxInputQueue = 1
    MaxInputBatch = 1
    MaxRoomId = 3
    VoiceInputs <- MCVoiceInputs
    Reports = {}
    BitrateInputs = {}
    FpsInputs = {}
    ConfigInputs = {}
    PollSizes = {1}
    DirectoryUsers = {1, 2}
    DirectoryRooms = {1, 2, 3}
CONSTRAINT OneInputQueue
SYMMETRY Symmetry
INVARIANTS Consistent OnlyGrantedUsers IdentityUnique WithinLimits
PROPERTY ImplementsDirectory
CHECK_DEADLOCK FALSE
