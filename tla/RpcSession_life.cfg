SPECIFICATION FairSpec
CONSTANTS
    Owners <- AllOwners
    StreamSize = 2
    MaxFeeds = 5
INVARIANTS
    SessionSound
    NoCallbackAfterClose
    FedIsHandled
PROPERTIES
    FedIsRead
    WindowOpens
    CloseEndsSession
CHECK_DEADLOCK FALSE
