SPECIFICATION FairSpec
CONSTANTS
    w1 = w1
    w2 = w2
    grammar = grammar
    rewrite = rewrite
    structure = structure
    Workers <- TwoWorkers
    Capabilities <- ThreeCapabilities
    MaxForced = 1
    MaxFingerprint = 2
    Scopes <- EveryScope
CHECK_DEADLOCK FALSE
INVARIANTS CompletedHasAttempt StagedResultIsListed
PROPERTIES NeverReexecuted QueuedRunIsDecided PlanCoversCapabilities
