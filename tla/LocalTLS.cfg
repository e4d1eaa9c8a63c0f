SPECIFICATION Spec
CONSTANTS
    Managers = {m1, m2}
    Hosts = {h1}
    None = None
    LeafLife = 2
    RenewBefore = 1
    CheckEvery = 1
    CALife = 4
    MaxNow = 4
    MaxCAs = 2
    MaxTroubles = 1
SYMMETRY Symmetry
INVARIANTS
    TypeOK
    HandshakesServed
    TrustSurvives
    CrashLeavesIdentity
