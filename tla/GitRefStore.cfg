SPECIFICATION FairSpec
CONSTANTS
    r1 = r1
    r2 = r2
    Runners <- MCRunners
    MaxCommits = 3
    Attempts = 2
    PostReads = 2
    LateDelivery = TRUE
    StaleReads = TRUE
INVARIANTS
    TypeOK
    NoLostUpdate
    OneWinner
    OkImpliesPublished
PROPERTIES
    RefMovesByOneVersion
    CallsEnd
    ImplementsRegister
