SPECIFICATION Spec
CONSTANTS
    r1 = r1
    r2 = r2
    c1 = c1
    c2 = c2
    None = None
    Executors <- MCFirst
    Observers <- MCSecond
    Causes <- MCCauses
    MaxGeneration = 2
    LastRequested = 1
    MaxSessions = 3
    Window = 2
    Messages = TRUE
    MaxFaults = 0
INVARIANTS
    MessageConfirmedIsTrue
