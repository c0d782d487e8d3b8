CONSTANTS
    here = here
    there = there
    NoChat = NoChat
    Chat = here
    Entries <- ThreeKinds
    SaveFails = "any"
    ContiguousAttach = TRUE
    MaxLag = 1
    MaxLog = 3
    MaxFailures = 2
    MaxRestarts = 1
    MinBackoff = 2
    MaxBackoff = 3
SPECIFICATION Spec
INVARIANTS
    IInv
    NoGap
    AtMostOneLostPerCrash
PROPERTIES
    CatchUpNeverRewinds
    ImplementsDurableDelivery
