SPECIFICATION FairSpec
CONSTANTS
    p = p
    q = q
    f = f
    s1 = s1
    s2 = s2
    Peers <- ThreePeers
    Trusted <- OnlyP
    Foreign <- OnlyF
    Streams <- TwoStreams
    Dials <- OneTrusted
    MaxDrops = 1
    MaxAhead = 1
INVARIANTS
    TypeOK
    OnlyTrusted
    ConnectFailsForCause
PROPERTIES
    EveryDialEnds
    EndReleasesBoth
CHECK_DEADLOCK FALSE
