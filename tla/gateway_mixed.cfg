\* Four routes, all kinds of requests, two handlers.
CONSTANTS
    get = get
    post = post
    json = json
    search = search
    u = u
    host = host
    ctype = ctype
    ip = ip
    path = path
    api = api
    form = form
    site = site
    shop = shop
    Methods = {get, post}
    ContentTypes = {json}
    NoType = NoType
    Params = {search, u}
    PlainParams = {search, u}
    Replaced = u
    Headers = {host, ctype}
    TypeHeader = ctype
    Handlers = {h1, h2}
    Routes = {api, form, site, shop}
    NoRoute = NoRoute
    PolicyOf <- MixedPolicies
    Loaded <- AllPlain
    BodyRules = FALSE
    IPs = {ip}
    URLPaths = {path}
    Traffic <- MixedTraffic
    UpstreamStatus = {200}
    LogMayFail = TRUE
    None = None
    NoKey = NoKey
    Unit = 2
    MaxRps = 2
    MaxBurst = 1
    MaxClock = 1
    MaxRequests = 2
SPECIFICATION Spec
INVARIANT TypeOK
INVARIANT LogTells
INVARIANT Mediated
INVARIANT ForwardedWithinLimit
INVARIANT LearnedProxied
INVARIANT CountersAddUp
PROPERTY AnsweredOnceRead
CHECK_DEADLOCK FALSE
