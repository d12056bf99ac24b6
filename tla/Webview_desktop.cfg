SPECIFICATION WebFairSpec
CONSTANTS
    a = a
    b = b
    first_run = first_run
    m1 = m1
    m2 = m2
    opus = opus
    t1 = t1
    NoModel = NoModel
    NoOverride = NoOverride
    Uncurated = Uncurated
    NoProc = NoProc
    NoCall = NoCall
    Main = Main
    Endpoint = {a, b}
    Unconfigured = first_run
    Subagent = subagent
    Model = {m1, m2}
    Offers <- MCOffers
    TokenOverride <- MCNoTokens
    ApiOf <- MCApiOf
    Task = {t1}
    DiskMayFail = FALSE
    Overlap = FALSE
    ChatModel = {m2}
    Favourite = none
    FixedSlot = {}
    Curation <- MCCuration
    MaxCalls = 3
    MaxCrashes = 1
    Commands = {"set_endpoint", "refresh_models", "set_model", "set_cc_slot", "set_visible_models", "set_token_limits", "set_api_key", "run_agent"}
INVARIANTS
    WebTypeOK
    MenuCurrent
PROPERTIES
    LaunchFits
    WindowConverges
CHECK_DEADLOCK FALSE
