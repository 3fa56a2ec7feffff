SPECIFICATION FairSpec
CONSTANTS
    Viewers = {v1, v2}
    FeedbackInterval = 2
    StatsInterval = 2
    MaxInFlight = 1
PROPERTIES LossIsRepaired NewViewerSeesPicture
