CONSTANTS
    MaxPosts = 2
    MaxFailures = 1
    MaxBacklog = 2
SPECIFICATION FairSpec
CHECK_DEADLOCK FALSE
INVARIANTS
    NoFeedback
    EveryStepReported
    OnlyGivenTargets
PROPERTIES
    BotExits
    EveryTextTried
