SPECIFICATION Spec
CONSTANTS
    r1 = r1
    r2 = r2
    k1 = k1
    k2 = k2
    d1 = d1
    d2 = d2
    None = None
    Runners <- MCRunners
    Ops <- TwoOps
    Digests <- OneDigest
    Canary = TRUE
    MaxEffects = 2
    MaxVersion = 4
    Reliable = TRUE
SYMMETRY Symmetry
INVARIANT UnknownIsMarked
