SPECIFICATION Spec
CONSTANTS
    NoHead = 0
    Codex = Codex
    Trusted = Trusted
    Gone = {}
    NoResult = NoResult
    MaxRounds = 2
    Meter = {"absent"}
    MaxHeads = 2
    MaxMoves = 2
    Openings <- MCOpenings
INVARIANTS
    MarkersRecordWakes
    OncePerLane
    WakesAreLive
    SweepSpeaksOfTheLatest
    CleanNamesItsSubject
    RoundsAreTheWinners
    RoundsBoundTheLoop
PROPERTIES
    VerdictReachesTheSeat
    HeadIsAttended
    TestimonyIsSettled
    ImplementsRounds
CHECK_DEADLOCK FALSE
