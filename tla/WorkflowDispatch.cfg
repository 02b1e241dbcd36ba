CONSTANTS
    a = a
    b = b
    q1 = q1
    q2 = q2
    q3 = q3
    None = None
    Shas = {a, b}
    Base = a
    Requests <- MCRequests
    Allowed <- MCAllowed
    MaxRuns = 3
    MaxMoves = 2
    MaxFaults = 1
SPECIFICATION FairSpec
INVARIANTS EvidenceIsExact
PROPERTIES SettledBeforeNext UnknownSettles
