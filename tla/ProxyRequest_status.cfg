SPECIFICATION ProxySpec
CONSTANTS
    a = a
    b = b
    first_run = first_run
    m1 = m1
    m2 = m2
    t1 = t1
    r1 = r1
    r2 = r2
    NoModel = NoModel
    NoOverride = NoOverride
    Uncurated = Uncurated
    NoProc = NoProc
    NoCall = NoCall
    Main = Main
    Unconfigured = first_run
    Endpoint = {a}
    FixedSlot = {}
    Subagent = subagent
    Model <- MCModels
    Offers <- MCOffers
    Curation <- MCNoCuration
    TokenOverride <- MCNoTokens
    Task = {t1}
    DiskMayFail = FALSE
    Overlap = FALSE
    Token <- MCTokens
    NoToken = NoToken
    Status <- MCStatus
    NoStatus = NoStatus
    NoRequest = NoRequest
    Commands = {}
    MaxCalls = 0
    MaxCrashes = 0
    ApiOf <- MCMixed
    Request = {r1, r2}
    Client <- MCLoopbackOnly
    Key <- MCKeys
INVARIANTS
    StatusOfLatest
CHECK_DEADLOCK FALSE
