SPECIFICATION RuntimeSpec
CONSTANTS
    Sessions = {c1, c2}
    StreamIds = {s1}
    Codecs = {"h264"}
    Kinds = {"Screen"}
    TokenRequired = FALSE
    MaxRooms = 1
    MaxParticipants = 2
    MaxStreams = 1
    MaxInputQueue = 1
    MaxInputBatch = 1
    MaxRoomId = 1
    VoiceInputs = {}
    Reports = {"healthy"}
    BitrateInputs = {}
    FpsInputs = {}
    ConfigInputs = {}
    PollSizes = {}
    MaxTasks = 2
INVARIANTS CleanWithoutLateTasks EstablishedHasEgress
CONSTRAINTS SomethingToClaim FewTasks
SYMMETRY Symmetry
CHECK_DEADLOCK FALSE
