SPECIFICATION Spec
CONSTANTS
    r1 = r1
    r2 = r2
    c1 = c1
    c2 = c2
    None = None
    Executors <- MCBoth
    Observers <- MCBoth
    Causes <- MCCauses
    MaxGeneration = 3
    LastRequested = 1
    MaxSessions = 3
    Window = 2
    Messages = FALSE
    MaxFaults = 2
SYMMETRY MCSymmetry
INVARIANTS
    TypeOK
    
    BoundToItsTransition
    CountedOnce
PROPERTIES
    GenerationsInOrder
