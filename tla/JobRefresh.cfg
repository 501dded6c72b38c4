SPECIFICATION FairSpec
CONSTANTS
    s1 = s1
    s2 = s2
    gen = gen
    exo = exo
    Sessions <- TwoSessions
    Books <- TwoBooks
    ImportDay <- ThreeImports
    MaxRuns = 3
    Settings <- EverySetting
INVARIANTS RunEvidenceWhole NoOpenRunLeftBehind JobStaysUsable
PROPERTIES SnapshotCatchesUp
CHECK_DEADLOCK FALSE
