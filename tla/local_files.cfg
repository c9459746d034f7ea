SPECIFICATION LocalSpec
CONSTANTS
    None = None
    Calls = {c1, c2}
    f = f
    g = g
    Files = {f, g}
    Descriptors = {d1, d2}
    Size = 3
    Params <- SomeParams
    Disks <- SomeDisks
    Reuse = FALSE
SYMMETRY CallSymmetry
INVARIANTS
    LocalTypeOK
    ResolvedIsComplete
    ResumeKeepsBytes
    NoEmptyRemains
CHECK_DEADLOCK FALSE
