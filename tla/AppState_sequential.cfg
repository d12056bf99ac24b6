SPECIFICATION Spec
CONSTANTS
    a = a
    b = b
    m1 = m1
    m2 = m2
    m3 = m3
    limit = limit
    NoModel = NoModel
    NoOverride = NoOverride
    Uncurated = Uncurated
    NoProc = NoProc
    NoCall = NoCall
    Main = Main
    Endpoint = {a, b, first_run}
    Unconfigured = first_run
    first_run = first_run
    FixedSlot = {opus}
    opus = opus
    Subagent = subagent
    Model <- MCModels
    Offers <- MCFirstRunOffers
    Curation <- MCCuration
    TokenOverride <- MCNoTokens
    Task = {t1}
    t1 = t1
    t2 = t2
    Commands = {"set_endpoint", "refresh_models", "set_model", "set_cc_slot", "set_visible_models", "set_token_limits"}
    Overlap = FALSE
    DiskMayFail = FALSE
    MaxCalls = 5
    MaxCrashes = 1
INVARIANTS
    TypeOK
    SettledSelection
    SettledOnDisk
    StoredModelsAreOwn
PROPERTIES
    RefreshPrunes
    ChoiceRestored
