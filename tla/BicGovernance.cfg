SPECIFICATION Spec
CONSTANTS
    s1 = s1
    s2 = s2
    first = first
    again = again
    lexicon = lexicon
    Sessions <- TwoSessions
    Ops <- TwoOps
    Imports <- OneImport
    Scopes <- ThreeScopes
    References <- ThreeVerses
    Overlap <- Reading
    Settings <- EverySetting
SYMMETRY SessionsAlike
INVARIANTS ViewIsCurrent TrailExplains NewestChallengesOpen
PROPERTIES ProtectedMemoryKept NewOperationIsPending
CHECK_DEADLOCK FALSE
