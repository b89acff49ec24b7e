SPECIFICATION Spec
CONSTANTS
    NULL = NULL
    Callers = {c1, c2}
    LaunchQueueSize = 2
INVARIANTS
    LoaderSound
    AppIsTheThread
    WatchEnds
CHECK_DEADLOCK FALSE
