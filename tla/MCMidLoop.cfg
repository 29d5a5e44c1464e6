SPECIFICATION Spec
CONSTANTS
    a = a
    b = b
    wide = wide
    narrow = narrow
    NoChoice = NoChoice
    Ids <- MCIds
    Bindings <- MCBindings
    Occurrences <- MCOccurrences
    PolicyTargets <- MCPolicyTargets
    Allowed <- MCAllowed
    Numbers <- MCNumbers
    EmittedChoices <- MCEmittedChoices
    MaxSafeInteger = 2
    MaxPacket = 2
    LedgerSize = 2
    MaxGroups = 4
INVARIANTS
    UserChoiceStands
    AdmittedRendersVerbatim
    EvidenceIsALog
PROPERTIES
    ImplementsAuthority
CHECK_DEADLOCK FALSE
