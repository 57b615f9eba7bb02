CONSTANTS
    i1 = i1
    f1 = f1
    g1 = g1
    F1 = F1
    F2 = F2
    t1 = t1
    Throw = Throw
    NULL = NULL
    Ints = {i1}
    Floats = {f1}
    Objects = {g1}
    FullChunks = {F1, F2}
    TailChunks = {t1}
    Strings <- MCStrings
    FloatToInt <- MCFloatToInt
    IntToFloat <- MCIntToFloat
    Junk <- MCJunk
    ParamNumMod = 256
    START_CHUNK_NUM = 3
    MaxParams = 3
    MaxCopies = 2
    MaxWild = 2
    CreateArgs <- MCCreateArgs
SPECIFICATION FairSpec
CHECK_DEADLOCK FALSE
INVARIANT
    AddedParamsReadBack
