SPECIFICATION AccessSpec
CONSTANTS
    Calls <- TwoCalls
    Tasks <- TasksOfTwo
    None = None
    Quirks <- UnevenServer
    MaxPieces = 1
INVARIANTS
    AccessTypeOK
    SecretsAreEncrypted
    AccessIsComplete
PROPERTIES
    HandshakeOnQuietLine
    AccessSettlesOrShakesHands
