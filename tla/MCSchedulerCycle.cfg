SPECIFICATION Spec
CONSTANTS
    r1 = r1
    r2 = r2
    f1 = f1
    f2 = f2
    Replicas <- MCTwoReplicas
    Feeds <- MCOneFeed
    Cadence = 4
    LeaseMs = 4
    PublishMinRemaining = 3
    TerminalMinRemaining = 1
    Concurrency = 1
    ConnectBound = 1
    CloseBound = 1
    ConfirmBound = 1
    StatementBound = 0
    MaxDue = 1
    MaxOrphans = 1
    MaxRows = 2
    Horizon = 6
SYMMETRY Symmetry
INVARIANTS
    TypeOK
    ConfirmedIsQueued
    EarlyEndsAreDefinitive
    RepublishedOnlyAfterExpiry
    OnePublicationPerFeed
    TransportSettlesFirst
PROPERTIES
    SentUnderLease
