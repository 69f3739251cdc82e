SPECIFICATION Calls
CONSTANTS
    W = 4
    B = 3
    MaxPackets = 3
    MaxComponents = 3
    Transfers <- AllTransfers
    Releases <- AllReleases
INVARIANTS
    RangeIsNetwork
    FramesExact
    UpgradeIsNewer
CHECK_DEADLOCK FALSE
