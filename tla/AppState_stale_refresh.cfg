SPECIFICATION Spec
CONSTANTS
    a = a
    b = b
    m1 = m1
    m2 = m2
    m3 = m3
    limit = limit
    NoModel = NoModel
    NoOverride = NoOverride
    Uncurated = Uncurated
    NoProc = NoProc
    NoCall = NoCall
    Main = Main
    Endpoint = {a, b}
    Unconfigured = first_run
    first_run = first_run
    FixedSlot = {opus}
    opus = opus
    Subagent = subagent
    Model <- MCModels
    Offers <- MCOffers
    Curation <- MCNoCuration
    TokenOverride <- MCNoTokens
    Task = {t1, t2}
    t1 = t1
    t2 = t2
    Overlap = TRUE
    DiskMayFail = FALSE
    MaxCrashes = 0
    Commands = {"set_endpoint", "refresh_models"}
    MaxCalls = 2
INVARIANTS
    SelectionOfEndpoint
