SPECIFICATION Spec
CONSTANTS
    p1 = p1
    p2 = p2
    v1 = v1
    v2 = v2
    f1 = f1
    f2 = f2
    Unset = Unset
    Nobody = Nobody
    NoSet = NoSet
    Paths <- MCPaths
    Values <- MCValues
    Subscribers <- MCSubscribers
    WindowSize = 2
    SubscribesOnce = TRUE
    DisposesOnce = FALSE
    MaxCommits = 1
    MaxSubscriptions = 3
INVARIANTS
    EveryHolderHasHeard
SYMMETRY Interchangeable
CHECK_DEADLOCK FALSE
