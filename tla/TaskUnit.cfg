SPECIFICATION FairSpec
CONSTANTS
    s1 = s1
    s2 = s2
    Sessions <- TwoSessions
    Files = 2
    MaxAttempts = 3
    CircuitBreaker = 2
    Codes <- TwoCodes
    Cases <- EveryCase
    Salvages <- NoneOrTwo
INVARIANTS
    NothingOverwritten
    AcceptedAsExecuted
PROPERTIES
    ResultIsFinal
    DecidedUnlessStopped
CHECK_DEADLOCK FALSE
