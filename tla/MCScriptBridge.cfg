CONSTANTS
    Names = {n1, n2}
    Objects = {g1, g2}
    Classes = {Robot, Door}
    NULL = NULL
    Freed = Freed
    Contract = {"complete", "globals", "alive", "results", "loaded", "args"}
    MaxCalls = 2
    MaxOps = 4
SPECIFICATION Spec
SYMMETRY Symmetry
CHECK_DEADLOCK FALSE
INVARIANTS
    TypeOK
    NeverUndefined
    GlobalsMeanTheirObjects
    SelfIsTheObject
