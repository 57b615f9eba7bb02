CONSTANTS
    Names = {n1, n2}
    Tags = {t1, t2}
    Objects = {g1, g2}
    Comps = {c1, c2}
    NULL = NULL
    Freed = Freed
    MaxEntries = 1
SPECIFICATION Spec
SYMMETRY Symmetry
CHECK_DEADLOCK FALSE
INVARIANTS
    TypeOK
    MapMatchesHeap
    SlotsOwnComponents
    FactoriesListLive
PROPERTY ImplementsRegistry
