SPECIFICATION Spec
CONSTANTS
    w1 = w1
    w2 = w2
    s1 = s1
    s2 = s2
    sound = sound
    dated = dated
    Nothing = Nothing
    Empty = Empty
    Torn = Torn
    Writers <- OneWriter
    Slugs <- TwoSlugs
    Drafts <- TwoDrafts
    Grammars <- MCGrammars
    Passing <- MCPassing
    LastNamed = 2
    MaxRevision = 2
    MaxFailures = 1
SYMMETRY SlugSymmetry
INVARIANTS
    RevisionIsCoherent
    AnsweredStands
    NumbersAreFresh
PROPERTIES
    ImplementsLog
CHECK_DEADLOCK FALSE
