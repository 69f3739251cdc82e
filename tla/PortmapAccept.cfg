SPECIFICATION FairSpec
CONSTANTS
    k1 = k1
    k2 = k2
    Conns <- TwoConns
    Fragile <- None
    MaxSend = 0
    Blank = {}
PROPERTIES
    EveryConnectionSettles
CHECK_DEADLOCK FALSE
