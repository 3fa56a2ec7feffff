SPECIFICATION Spec
CONSTANTS
    Connections = {c1, c2}
    StateLock = state
    MediaLock = media
    TaskCount = 1
INVARIANT WaitsUpwards
PROPERTIES EverythingFinishes
CHECK_DEADLOCK FALSE
