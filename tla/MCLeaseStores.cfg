SPECIFICATION StoresSpec
CONSTANTS
    s1 = s1
    s2 = s2
    f1 = f1
    Sessions <- MCSessions
    Feeds <- MCFeeds
    Windows <- MCWindows
    Keys <- MCKeys
    LeaseMs = 2
    StatementBound = 1
    MaxRows = 2
    MaxTokens = 3
    Horizon = 4
SYMMETRY Symmetry
INVARIANTS
    ReadsStayTrue
PROPERTIES
    ImplementsLedger
    MemoryImplementsLedger
