SPECIFICATION FairSpec
CONSTANTS
    NULL = NULL
    Owner = owner
    Objects = {o1, o2}
    Capacity = 1
    Items = {i1, i2}
    Threads = {t1}
    FlagSetters = {t1}
    Timers = {}
    Periodic = {}
    Events <- OnceEvents
    MaxPending = 0
    MaxRuns = 1
INVARIANTS
    ThreadFlagNotLost
PROPERTIES
    LevelServed
    StopReturns
