CONSTANTS
    Calls = {c1}
    Ids = {m1}
    NoId = none
    Timeout = TRUE
    AutoIdempotency = TRUE
    RetryEnabled = TRUE
    MaxAttempts = 3
    ServerDedups = TRUE
    TokenReturns = FALSE
SPECIFICATION FairSpec
PROPERTIES
    EveryCallReturns
CHECK_DEADLOCK FALSE
