SPECIFICATION Spec
CONSTANTS
    r1 = r1
    r2 = r2
    Runners <- MCRunners
    MaxCommits = 3
    Attempts = 2
    PostReads = 2
    LateDelivery = TRUE
    StaleReads = FALSE
INVARIANT ConflictImpliesUnpublished
