CONSTANTS
    Half = 32
    Half32 = 8
    Numbers <- MCNumbers
    DefaultMaxAttempts = 4
    DefaultInitialDelay = 2
    DefaultMaxDelay = 9
    Options <- MCOptions
    MaxOptions = 4
    Surveys <- MCSurveys
    Probes <- MCProbes
    MaxGiven = 2
    MaxExplored = 0
    AttemptFailures <- MCAttemptFailures
    Keys <- MCKeys
    MaxItems = 3
SPECIFICATION Spec
CHECK_DEADLOCK FALSE
INVARIANT OwnKeyKept
