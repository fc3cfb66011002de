SPECIFICATION FairSpec
CONSTANTS
    r1 = r1
    r2 = r2
    f1 = f1
    f2 = f2
    Replicas <- MCOneReplica
    Feeds <- MCTwoFeeds
    Cadence = 2
    LeaseMs = 3
    PublishMinRemaining = 2
    TerminalMinRemaining = 1
    Concurrency = 2
    ConnectBound = 0
    CloseBound = 1
    ConfirmBound = 3
    StatementBound = 0
    MaxDue = 3
    MaxOrphans = 0
    MaxRows = 1
    Horizon = 3
CHECK_DEADLOCK FALSE
INVARIANTS
    AttemptsAccounted
    OwnedUntilDeadline
PROPERTIES
    CyclesEnd
