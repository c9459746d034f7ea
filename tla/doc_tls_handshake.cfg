SPECIFICATION AccessSpec
CONSTANTS
    Calls <- OneCall
    Tasks <- TasksOfOne
    None = None
    Quirks = {}
    MaxPieces = 1
PROPERTIES
    AccessTimesOut
