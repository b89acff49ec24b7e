SPECIFICATION FairSpec
CONSTANTS
    NULL = NULL
    Callers = {c1}
    Serials = {s1, s2}
    Workers = {w1}
    QueueSize = 3
    MaxEdges = 2
CHECK_DEADLOCK FALSE
INVARIANTS
    ServiceSound
PROPERTIES
    CallsReturn
    EndedIsFreed
