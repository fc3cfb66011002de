SPECIFICATION Spec
CONSTANTS
    r1 = r1
    r2 = r2
    f1 = f1
    f2 = f2
    Replicas <- MCOneReplica
    Feeds <- MCOneFeed
    Cadence = 4
    LeaseMs = 4
    PublishMinRemaining = 2
    TerminalMinRemaining = 1
    Concurrency = 1
    ConnectBound = 0
    CloseBound = 1
    ConfirmBound = 1
    StatementBound = 0
    MaxDue = 1
    MaxOrphans = 0
    MaxRows = 2
    Horizon = 6
INVARIANTS
    NoRepeatedPublication
