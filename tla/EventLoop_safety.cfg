SPECIFICATION Spec
CONSTANTS
    NULL = NULL
    Owner = owner
    Objects = {o1, o2}
    Capacity = 1
    Items = {i1, i2}
    Threads = {t1}
    FlagSetters = {}
    Timers = {tm1}
    Periodic = {tm1}
    Events <- RepeatedEvents
    MaxPending = 1
    MaxRuns = 1
INVARIANTS
    TypeOK
    NoDanglingItem
    NoLeakedItem
    LevelNotLost
PROPERTIES
    NoFireAfterRequest
    PendedAfterTimerCommands
    NoCallbackAfterUnsubscribe
SYMMETRY Symmetry
