CONSTANTS
    Calls = {c1, c2}
    Ids = {m1}
    NoId = none
    Timeout = TRUE
    AutoIdempotency = TRUE
    RetryEnabled = TRUE
    MaxAttempts = 3
    ServerDedups = TRUE
    TokenReturns = TRUE
SPECIFICATION FairSpec
CHECK_DEADLOCK FALSE
INVARIANTS
    IInv
    AtMostOnce
    SuccessIsApplied
    OneAttemptAtATime
    AttemptsBounded
PROPERTIES
    EveryCallReturns
