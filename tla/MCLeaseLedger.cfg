SPECIFICATION Spec
CONSTANTS
    f1 = f1
    Feeds <- MCFeeds
    Windows <- MCWindows
    LeaseMs = 2
    StatementBound = 1
    MaxRows = 3
    Horizon = 5
INVARIANTS
    OneLeasePerFeed
    ConfirmedIsFinal
    AttemptsIncrease
    ExpiryIsBounded
PROPERTY
    EndedRowsFrozen
\* The bounds MaxRows and Horizon end every behaviour.
CHECK_DEADLOCK FALSE
