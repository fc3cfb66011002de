SPECIFICATION FairSpec
CONSTANTS
    Feeds <- MCFeeds
    Positive <- MCPositive
    PageSize = 2
    MaxRows = 4
    Concurrency = 1
    MaxChanges = 2
    MaxRounds = 2
INVARIANTS
    TypeOK
    OrderIsTheFeedsOwn
    ListingMatchesInventory
    PassedOverOnlyForAttempts
PROPERTY ListingEnds
