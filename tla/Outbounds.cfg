SPECIFICATION Spec
CONSTANTS
    h1 = h1
    h2 = h2
    i1 = i1
    i2 = i2
    p1 = p1
    p2 = p2
    NoDialer = NoDialer
    Nil = Nil
    Unsure = Unsure
    Handlers <- TwoH
    IDs <- TwoIDs
    Addr <- Addresses
    Peers <- TwoPeers
    Choice <- Networks
    MaxNoise = 1
SYMMETRY Alike
INVARIANTS
    DialsOwner
    SysRoutesOwned
    AckedRouted
    AckedDurable
