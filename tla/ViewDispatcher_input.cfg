SPECIFICATION FairSpec
CONSTANTS
    NULL = NULL
    Keys <- TwoKeys
    Rotation <- Exchanged
    QueueLen = 2
    MaxBacklog = 2
    Views = {v1, v2, v3}
    Vertical = {v3}
INVARIANTS
    DispatcherSound
    PressStaysWithView
PROPERTIES
    DrainEnds
