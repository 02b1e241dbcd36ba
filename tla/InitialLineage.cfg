SPECIFICATION FairSpec
CONSTANTS
    r1 = r1
    r2 = r2
    s1 = s1
    s2 = s2
    None = None
    Executors <- MCFirst
    Observers <- MCSecond
    Specs <- MCSpecs
    MaxSessions = 2
    MaxFaults = 1
    MaxAttempts = 2
    ReconcilesStale = TRUE
INVARIANTS
    TypeOK
    OneSessionPerSpec
    BoundToItsSpec
    CountedOnce
PROPERTIES
    UnresolvedBlocksCreation
    FirstSessionKept
    CreatedIsBound
