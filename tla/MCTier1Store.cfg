SPECIFICATION Spec
CONSTANTS
    p1 = p1
    p2 = p2
    v1 = v1
    v2 = v2
    f1 = f1
    f2 = f2
    Unset = Unset
    Nobody = Nobody
    NoSet = NoSet
    Paths <- MCPaths
    Values <- MCValues
    Subscribers <- MCSubscribers
    WindowSize = 2
    SubscribesOnce = TRUE
    DisposesOnce = TRUE
    MaxCommits = 4
    MaxSubscriptions = 3
INVARIANTS
    TypeOK
    DigestAgrees
    EveryHolderHasHeard
PROPERTIES
    OnlyHoldersAreCalled
SYMMETRY Interchangeable
CHECK_DEADLOCK FALSE
