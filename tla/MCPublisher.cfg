SPECIFICATION FairSpec
CONSTANTS
    p1 = p1
    p2 = p2
    Publications <- MCPublications
    MaxConnections = 3
    MaxGeneration = 3
CHECK_DEADLOCK FALSE
INVARIANTS
    TypeOK
    NoStrayConnection
    ClosedIsClosed
PROPERTIES
    ImplementsContract
    UnclearChannelsRetired
    PublicationsSettle
    CloseReturns
