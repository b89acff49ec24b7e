SPECIFICATION Spec
CONSTANTS
    NULL = NULL
    Keys = {k1, k2}
    Desktop = desktop
    App = app
    Others = {dialog}
    LayerOf <- LayerOfPort
    QueueLen = 1
INVARIANTS
    GuiSound
    PressStaysWithPort
PROPERTIES
    ImplementsPortSource
SYMMETRY KeySymmetry
