SPECIFICATION FirstRunSpec
CONSTANTS
    a = a
    b = b
    first_run = first_run
    m1 = m1
    m2 = m2
    t1 = t1
    r1 = r1
    r2 = r2
    NoModel = NoModel
    NoOverride = NoOverride
    Uncurated = Uncurated
    NoProc = NoProc
    NoCall = NoCall
    Main = Main
    Unconfigured = first_run
    Endpoint = {a, b, first_run}
    FixedSlot = {}
    Subagent = subagent
    Model <- MCModels
    Offers <- MCOffers
    Curation <- MCNoCuration
    TokenOverride <- MCNoTokens
    Task = {t1}
    DiskMayFail = FALSE
    Overlap = FALSE
    Token <- MCTokens
    NoToken = NoToken
    Status <- MCOneStatus
    NoStatus = NoStatus
    NoRequest = NoRequest
    Commands = {"set_endpoint", "set_cc_slot"}
    MaxCalls = 3
    MaxCrashes = 1
    ApiOf <- MCMixed
    Request = {r1, r2}
    Client <- MCClients
    Key <- MCKeys
INVARIANTS
    ProxyTypeOK
    LabelsStay
    CountsForwarded
    RemoteHasToken
    SelectionOfEndpoint
    SelectionInCatalog
PROPERTIES
    FreshPair
SYMMETRY MCRequestSymmetry
