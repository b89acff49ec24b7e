SPECIFICATION InputFairSpec
CONSTANTS
    PinCount = 2
    Debounce = 4
INVARIANTS
    InputTypeOK
PROPERTIES
    ImplementsKeySource
    LevelReported
