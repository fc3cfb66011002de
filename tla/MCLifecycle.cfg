SPECIFICATION FairSpec
CHECK_DEADLOCK FALSE
INVARIANTS
    WorkHasItsAdapters
    ShutdownIsFinal
    ReadyMeansServing
PROPERTIES
    ShutdownEnds
