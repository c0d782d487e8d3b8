CONSTANTS
    here = here
    NoChat = NoChat
    Chat = here
    Entries <- TwoKinds
    SaveFails = "cancelled"
    ContiguousAttach = TRUE
    MaxLag = 0
    MaxLog = 1
    MaxFailures = 2
    MaxRestarts = 1
    MinBackoff = 2
    MaxBackoff = 3
SPECIFICATION StreamFairSpec
INVARIANTS
    StreamInv
    NothingLeftBehind
PROPERTIES
    ImplementsResumable
    EverythingExits
