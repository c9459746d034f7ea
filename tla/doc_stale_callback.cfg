SPECIFICATION TransferSpec
CONSTANTS
    Tasks = {t1, t2, t3}
    None = None
    Quirks <- SlowLocalStream
    MaxPieces = 1
INVARIANTS
    ClientStaysUsable
