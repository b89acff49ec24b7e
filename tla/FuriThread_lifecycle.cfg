SPECIFICATION FairSpec
CONSTANTS
    NULL = NULL
    Instances = {th1, th2, th3}
    Callbacks = {th1, th2}
    Waiters = {th1}
    ScrubDepth = 1
INVARIANTS
    ThreadsSound
PROPERTIES
    CallbackInOrder
    JoinEnds
