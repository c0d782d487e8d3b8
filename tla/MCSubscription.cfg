CONSTANTS
    Callers = {c1, c2}
    MaxFrames = 3
SPECIFICATION FairSpec
INVARIANTS
    IInv
    CloseIsFinal
    NoSilentFailure
PROPERTIES
    ImplementsEventStream
    PumpExits
    CloseCompletes
    LoopEnds
