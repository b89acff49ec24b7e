SPECIFICATION Spec
CONSTANTS
    NULL = NULL
    Owner = owner
    Objects = {o1}
    Capacity = 1
    Items = {i1, i2}
    Threads = {t1}
    FlagSetters = {}
    Timers = {}
    Periodic = {}
    Events <- OnceEvents
    MaxPending = 0
    MaxRuns = 1
INVARIANTS
    OnceItemAlive
