CONSTANTS
    Keys = {"w", "x", "key_3"}
    MouseButtons = {1}
    JoyButtons = {15}
    StrayBytes = {0}
    QueueLimit = 3
SPECIFICATION FairSpec
CHECK_DEADLOCK FALSE
INVARIANTS
    TypeOK
    QueueAddsUp
PROPERTIES
    OnlyChangesAreSent
    ReleasedActionsEnd
