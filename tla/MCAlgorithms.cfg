SPECIFICATION AnswersSpec
CONSTANTS
    SEAT_ACTORS <- MCSeats
    Burn = "burn"
    Nobody = Nobody
    Raised = Raised
    Pulls = {a, b}
    RepoOf <- MCRepoOf
    Repos = {"doctrine", "morphe"}
    PullsPerPage = 1
    BOOTSTRAP_WINDOW = 1
    MaxClock = 2
    MaxRuns = 3
    MaxLoad = 2
    public_keys <- MCPublicKeys
    Families = {"kernel.day:1", "kernel.day:2"}
    Conforming <- MCConforming
    Worlds <- MCWorlds
    AliasMaps <- MCAliasMaps
    Diffs <- MCDiffs
    DeclaredRoots <- MCDeclared
    Merges <- MCMerges
    Handed <- MCHanded
    Others <- MCOthers
    MAX_DEPTH = 3
    Collation <- MCCollation
    MAX_EXPANSION_DEPTH = 2
    CallStack = 30
SYMMETRY Alike
INVARIANTS
    LetsGoOnProof
    NoMergeIsMissed
    NoCheapClaim
    OnlyTestimonyIsTaken
    
    
    SurfacesShowTheirModel
    CompoundsShowWhole
CHECK_DEADLOCK FALSE
