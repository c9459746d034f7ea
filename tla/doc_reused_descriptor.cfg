SPECIFICATION LocalSpec
CONSTANTS
    None = None
    Calls = {c1, c2}
    f = f
    g = g
    Files = {f, g}
    Descriptors = {d1}
    Size = 2
    Params <- Downloads
    Disks <- SomeDisks
    Reuse = TRUE
SYMMETRY CallSymmetry
INVARIANTS
    WritesItsOwnFile
CHECK_DEADLOCK FALSE
