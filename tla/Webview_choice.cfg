SPECIFICATION WindowSpec
CONSTANTS
    a = a
    b = b
    first_run = first_run
    m1 = m1
    m2 = m2
    opus = opus
    t1 = t1
    NoModel = NoModel
    NoOverride = NoOverride
    Uncurated = Uncurated
    NoProc = NoProc
    NoCall = NoCall
    Main = Main
    Endpoint = {a}
    Unconfigured = first_run
    Subagent = subagent
    Model = {m1, m2}
    Offers <- MCStableOffers
    TokenOverride <- MCNoTokens
    ApiOf <- MCChat
    Task = {t1}
    DiskMayFail = FALSE
    Overlap = FALSE
    ChatModel = {m1, m2}
    Favourite = none
    FixedSlot = {}
    Curation <- MCNoCuration
    MaxCalls = 6
    MaxCrashes = 1
    Commands = {"refresh_models", "set_model", "set_api_key"}
PROPERTIES
    StoredChoiceKept
CHECK_DEADLOCK FALSE
