SPECIFICATION FlagsFairSpec
CONSTANTS
    a = a
    b = b
    Flags = {a, b}
    Setters = {t1, t2}
    Waits <- AllWaits
    Clears <- AllClears
INVARIANTS
    FlagsSound
PROPERTIES
    SetFlagEndsWait
