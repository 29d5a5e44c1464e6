SPECIFICATION Spec
CONSTANTS
    p1 = p1
    p2 = p2
    q1 = q1
    q2 = q2
    v1 = v1
    v2 = v2
    None = None
    Loads <- MCLoads
    Roster <- MCRoster
    Variants <- MCVariants
    MaxEntries = 2
    MaxVersion = 1
INVARIANTS
    TypeOK
    CacheIsLastGood
    CacheIsMostRecent
    PagesAreOwn
PROPERTIES
    EveryPageIsWhole
