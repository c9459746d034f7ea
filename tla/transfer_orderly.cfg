SPECIFICATION TransferSpec
CONSTANTS
    Tasks = {t1, t2, t3}
    None = None
    Quirks = {}
    MaxPieces = 1
INVARIANTS
    TypeOK
    OneTimerPerTask
    ResolvedMeansComplete
    DataSocketIsOfTransfer
    NoBytesAfterSettling
    ProgressIsOfFlowingTransfer
    PendingIsTracked
    ClosedIsDead
    InSync
    PartialIsOfArrivingReply
PROPERTIES
    NoPollIsLost
    ResolvedByOwnReply
    KeepsContract
