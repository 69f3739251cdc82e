SPECIFICATION FairSpec
CONSTANTS
    k1 = k1
    k2 = k2
    Conns <- OneConn
    Fragile <- OneConn
    MaxSend = 2
    Blank = {1}
INVARIANTS
    TypeOK
    PayloadIntegrity
    AcceptedBeforeRelay
    StreamOwned
    ConnOwned
    RefusedByFirstWord
PROPERTIES
    EndReleasesBoth
    Delivery
CHECK_DEADLOCK FALSE
