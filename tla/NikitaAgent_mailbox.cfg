SPECIFICATION FairSpec
CONSTANTS
    Threads <- MailboxThreads
    Files <- MailboxFiles
    MaxRequests = 2
    Reboots <- Second
    ReqAttempts = 2
    WriteAttempts = 2
    MaxFaults = 2
    MaxRestarts = 1
INVARIANTS
    MailboxSound
    AcceptedIsOwn
PROPERTIES
    RequestIsRun
    OpenEnds
