CONSTANTS
    here = here
    there = there
    NoChat = NoChat
    Chat = here
    Entries <- TwoKinds
    SaveFails = "never"
    ContiguousAttach = TRUE
    MaxLag = 0
    MaxLog = 2
    MaxFailures = 1
    MaxRestarts = 0
    MinBackoff = 1
    MaxBackoff = 3
SPECIFICATION Spec
INVARIANTS
    StoredIsProcessed
