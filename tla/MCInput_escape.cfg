CONSTANTS
    Keys = {"w", "ESCAPE"}
    MouseButtons = {}
    JoyButtons = {}
    StrayBytes = {}
    QueueLimit = 2
SPECIFICATION Spec
CHECK_DEADLOCK FALSE
PROPERTY EscapeQuits
