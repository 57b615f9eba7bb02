CONSTANTS
    Files = {f1}
    Comps = {c1, c2}
    Sounds = {s1, s2, s3}
    NULL = NULL
    Freed = Freed
SPECIFICATION FairSpec
CHECK_DEADLOCK FALSE
INVARIANTS
    TypeOK
    ReferencesAddUp
PROPERTIES
    DeadComponentsFallSilent
    DroppedSoundsEnd
