SPECIFICATION PassiveSpec
CONSTANTS
    None = None
    Hosts <- SomeHosts
    MaxListingBytes = 2
INVARIANTS
    PassiveTypeOK
    SettlesOnWhatWorked
    GivesUpWhenAllFailed
    DialsReachableHost
PROPERTIES
    ListEndsWithConnection
    OperationsEnd
