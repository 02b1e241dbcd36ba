SPECIFICATION Spec
CONSTANTS
    r1 = r1
    r2 = r2
    k1 = k1
    k2 = k2
    d1 = d1
    d2 = d2
    None = None
    Runners <- MCRunners
    Ops <- OneOp
    Digests <- TwoDigests
    Canary = TRUE
    MaxEffects = 2
    MaxVersion = 4
    Reliable = FALSE
SYMMETRY Symmetry
INVARIANTS
    TypeOK
    NoBlindRetry
    GrantBound
    OnePayload
    LeaseExclusion
    ConfirmedIsTrue
