CONSTANTS
    Objects = {g1, g2, g3}
    Bodies = {r1, r2, r3}
    NULL = NULL
    Freed = Freed
    Contract = {"load once", "load first"}
    MaxManifolds = 3
    MaxOps = 5
SPECIFICATION Spec
SYMMETRY Symmetry
CHECK_DEADLOCK FALSE
INVARIANTS
    TypeOK
    BrokenOnlyIfSpoiled
    WorldMatchesComponents
    EveryPairTold
