SPECIFICATION Spec
CONSTANTS
    Feeds <- MCFeeds
    Positive <- MCPositive
    PageSize = 2
    MaxRows = 4
    Concurrency = 1
    MaxChanges = 2
    MaxRounds = 2
INVARIANT RefusedOnlyBeyondLimit
