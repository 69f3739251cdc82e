SPECIFICATION Spec
CONSTANTS
    h1 = h1
    h2 = h2
    s1 = s1
    s2 = s2
    c0 = c0
    c1 = c1
    None = None
    Handlers <- TwoHandlers
    Sessions <- TwoSessions
    Tokens <- ThreeTokens
    IDs <- TwoIDs
    Configs <- TwoConfigs
    NoConfig = c0
    Trial = FALSE
    TrialID = 666666
INVARIANTS
    TokenKept
    AckedServed
    ConfigAgrees
PROPERTY SessionEnds
