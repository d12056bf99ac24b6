SPECIFICATION FairSpec
CONSTANTS
    a = a
    b = b
    m1 = m1
    m2 = m2
    m3 = m3
    limit = limit
    NoModel = NoModel
    NoOverride = NoOverride
    Uncurated = Uncurated
    NoProc = NoProc
    NoCall = NoCall
    Main = Main
    Endpoint = {a, b}
    Unconfigured = first_run
    first_run = first_run
    FixedSlot = {}
    opus = opus
    Subagent = subagent
    Model <- MCSmallModels
    Offers <- MCSmallOffers
    Curation <- MCCuration
    TokenOverride <- MCNoTokens
    Task = {t1, t2}
    t1 = t1
    t2 = t2
    Commands = {"set_endpoint", "refresh_models", "set_cc_slot"}
    Overlap = TRUE
    DiskMayFail = FALSE
    MaxCalls = 3
    MaxCrashes = 0
INVARIANTS
    NoLostUpdate
PROPERTIES
    ImplementsStore
    CallsReturn
