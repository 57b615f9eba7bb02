CONSTANTS
    Pads = {p1}
    JoySlots = 2
    FullScale = 32767
    Sticks <- MCSticks
    MouseOffsets <- MCMouseOffsets
    NULL = NULL
    Stray = Stray
    Contract = {"soundDevice", "deviceManager", "padsFirst", "fewPads", "onePad"}
SPECIFICATION Spec
INVARIANT OgreEndsWithRoot
