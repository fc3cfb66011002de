SPECIFICATION Spec
CONSTANTS
    k1 = k1
    k2 = k2
    Callers <- MCCallers
    MaxChains = 2
    MaxIds = 5
    Cadence = 3
    PromptRun = 1
CHECK_DEADLOCK FALSE
INVARIANTS
    OneRunAtATime
    QuietWhenStopped
    ActiveMeansAlive
    SteadyLoopStaysFresh
PROPERTIES
    FreshNeedsSuccess
    ComesToRest
