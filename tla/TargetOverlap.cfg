SPECIFICATION Spec
CONSTANTS
    first = first
    again = again
    other = other
    failing = failing
    opening = opening
    closing = closing
    Tasks <- FourTasks
    Scopes <- TwoScopes
    ScopeOf <- Assigned
    LeftOut <- NoVersePassed
    MaxCrashes = 2
    MaxReverts = 2
    Settings <- TwoSubmissions
PROPERTIES OutOfScopePreserved
CHECK_DEADLOCK FALSE
