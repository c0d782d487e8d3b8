CONSTANTS
    Callers = {c1, c2}
    Instances = {i1, i2}
    Numbers = {n1}
    Any = any
    Main = main
    Nobody = nobody
    Lifetimes = {3, 5}
    RefreshSkew = 3
    HttpTimeout = 1
    CallTimeout = 1
SPECIFICATION FairSpec
CHECK_DEADLOCK FALSE
INVARIANTS
    IInv
    EveryAttemptAuthorized
PROPERTIES
    TokenReturns
