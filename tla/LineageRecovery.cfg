SPECIFICATION FairSpec
CONSTANTS
    r1 = r1
    r2 = r2
    c1 = c1
    c2 = c2
    None = None
    Executors <- MCFirst
    Observers <- MCNobody
    Causes <- MCCauses
    MaxGeneration = 3
    LastRequested = 2
    MaxSessions = 4
    Window = 2
    Messages = TRUE
    MaxFaults = 0
PROPERTIES
    CreatedIsBound
