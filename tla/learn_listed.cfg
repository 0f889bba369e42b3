\* Two calls at once: what the contract then lists.
CONSTANTS
    get = get
    post = post
    json = json
    search = search
    u = u
    host = host
    ctype = ctype
    Methods = {get, post}
    ContentTypes = {json}
    NoType = NoType
    Params = {search, u}
    PlainParams = {search, u}
    Replaced = u
    Headers = {host, ctype}
    TypeHeader = ctype
    Handlers = {h1, h2}
    Traffic <- TwoRequests
    None = None
    MaxCalls = 2
SPECIFICATION Spec
INVARIANT LearnedListed
SYMMETRY HandlerSymmetry
CHECK_DEADLOCK FALSE
