SPECIFICATION Spec
CONSTANTS
    Viewers = {v1, v2}
    Streams = {s1, s2}
    Capacity = 3
    Budget = 2
    FrameRates = {30}
    FragmentCounts = {1, 5}
    MaxDatagrams = 4
INVARIANTS DepthIsExact QueuesAreBounded CrowdedOutByOthers
PROPERTIES ForwardingNeverBlocks DepthReturnsToZero
CHECK_DEADLOCK FALSE
