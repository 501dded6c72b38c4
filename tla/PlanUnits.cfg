\* Several plans, every way their units come to be decided, two stops of the session.
CONSTANTS
    Coordinates <- Verses
    Plans <- SeveralPlans
    MaxStops = 2
SPECIFICATION FairSpec
INVARIANTS
    NothingLostIsClaimed
    EveryCoordinateAccounted
    CompleteMeansAssessed
PROPERTIES
    RunCloses
CHECK_DEADLOCK FALSE
