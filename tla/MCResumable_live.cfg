CONSTANTS
    here = here
    there = there
    NoChat = NoChat
    Chat = here
    Entries <- FourKinds
    SaveFails = "never"
    ContiguousAttach = TRUE
    MaxLag = 0
    MaxLog = 2
    MaxFailures = 2
    MaxRestarts = 0
    MinBackoff = 2
    MaxBackoff = 3
SPECIFICATION FairSpec
INVARIANTS
    SavedOnClose
    BackoffBounded
PROPERTIES
    InOrderOnce
    EventualDelivery
