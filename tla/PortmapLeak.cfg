SPECIFICATION Spec
CONSTANTS
    k1 = k1
    k2 = k2
    Conns <- OneConn
    Fragile <- OneConn
    MaxSend = 1
    Blank = {}
INVARIANTS
    FailedHandshakeResets
CHECK_DEADLOCK FALSE
