SPECIFICATION TransferSpec
CONSTANTS
    Tasks = {t1, t2, t3}
    None = None
    Quirks <- AllQuirks
    MaxPieces = 1
SYMMETRY TaskSymmetry
INVARIANTS
    ClosedReleasesAll
PROPERTIES
    ReasonIsKept
