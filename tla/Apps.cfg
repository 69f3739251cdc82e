SPECIFICATION Spec
CONSTANTS
    h1 = h1
    h2 = h2
    a1 = a1
    a2 = a2
    e1 = e1
    e2 = e2
    f1 = f1
    Nil = Nil
    AnyPort = AnyPort
    Handlers <- TwoHandlers
    IDs <- TwoApps
    Endpoints <- ThreeEndpoints
    PortOf <- SharedPorts
    Choice <- MixedPorts
INVARIANTS
    SocketsRegistered
    ListenersAgree
    AckedSurvives
PROPERTIES
    RestartRepairs
SYMMETRY Symmetry
