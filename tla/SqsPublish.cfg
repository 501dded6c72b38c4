SPECIFICATION PublicationFairSpec
CONSTANTS
    console = console
    command = command
    grammar = grammar
    Publishers <- TwoPublishers
    BundleCapabilities <- OneCapability
    MaxRevision = 3
    MaxCrashes = 1
    MaxLosses = 1
INVARIANTS RevisionNamesOneBundle NeverQualifiedAgainstDenial
PROPERTIES HostCatchesUp
CHECK_DEADLOCK FALSE
