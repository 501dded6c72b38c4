SPECIFICATION FairSpec
CONSTANTS
    Inputs <- ThreeInputs
    Plans <- EveryPlan
INVARIANTS
    PublishedAsStaged
    ReplayReproduces
    EveryInputDisposed
    DoneIsPublished
PROPERTIES
    PublicationCompletes
CHECK_DEADLOCK FALSE
