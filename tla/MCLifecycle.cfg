CONSTANTS
    Pads = {p1, p2, p3}
    JoySlots = 2
    FullScale = 32767
    Sticks <- MCSticks
    MouseOffsets <- MCMouseOffsets
    NULL = NULL
    Stray = Stray
    Contract = {"soundDevice", "deviceManager", "padsFirst", "fewPads", "onePad"}
SYMMETRY Symmetry
SPECIFICATION Spec
INVARIANTS
    TypeOK
    OnlyOculusOutlives
    AllReturned
    AxesTrue
PROPERTIES
    AxesFollowSticks
