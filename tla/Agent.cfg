SPECIFICATION Spec
CONSTANTS
    a1 = a1
    a2 = a2
    e1 = e1
    e2 = e2
    g1 = g1
    g2 = g2
    Nil = Nil
    IDs <- TwoApps
    Endpoints <- TwoEndpoints
    Gateways <- TwoGateways
    MaxProxys = 2
    MaxEntries = 2
INVARIANTS
    EngineOwned
    ListenersAgree
    AckedKept
SYMMETRY Alike
