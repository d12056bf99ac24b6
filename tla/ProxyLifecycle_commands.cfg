SPECIFICATION FairSpec
CONSTANTS
    loop8080 = loop8080
    loop9090 = loop9090
    all8080 = all8080
    tok1 = tok1
    tok2 = tok2
    Addr <- MCAddr
    Loopback <- MCLoopback
    DefaultAddr = loop8080
    Collide <- MCWildcard
    Token <- MCTokens
    NoToken = NoToken
    DiskTokens <- MCDiskTokens
    Main = Main
    None = None
    Task = {t1}
    DiskMayFail = TRUE
    MaxCalls = 3
    MaxRestarts = 1
INVARIANTS
    TypeOK
    ReachableHasToken
    ExposedHasToken
    ServerMatchesConfig
PROPERTIES
    StopReleases
    CommandsReturn
