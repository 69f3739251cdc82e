SPECIFICATION Spec
CONSTANTS
    W = 2
    w1 = w1
    w2 = w2
    r1 = r1
    d1 = d1
    d2 = d2
    NoDialer = NoDialer
    Writers <- TwoW
    Readers <- OneR
    Dialers <- TwoD
    Addr <- Addresses
    Nets <- V4Ranges
INVARIANTS
    Disjoint
    WalkKeepsTarget
PROPERTIES
    ImplementsRouteTable
SYMMETRY Alike
CHECK_DEADLOCK FALSE
