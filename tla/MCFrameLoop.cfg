CONSTANTS
    Names = {0, 1, 2, 3, 4}
    Box = 1
    Listener = 2
    Ninja = 3
    mainCam = 4
    Tags = {1, 2, 3}
    BoxTag = 3
    CamTag = 2
    Objects = {g1, g2, g3, g4, g5}
    Comps = {c1, c2, c3, c4, c5}
    NULL = NULL
    Freed = Freed
    End = End
    MaxEntries = 1
    Events = {"action pressed", "action released", "jump pressed", "jump released", "key pressed", "quit"}
    MaxOps = 3
SPECIFICATION FairSpec
CHECK_DEADLOCK FALSE
INVARIANTS
    TypeOK
    
    ListenersToldOnce
    OnlyLateMissUpdate
PROPERTIES
    UpdatesOncePerFrame
    FrameEnds
