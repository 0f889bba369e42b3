\* Three handlers, three calls: every interleaving of their reads and writes.
CONSTANTS
    get = get
    post = post
    json = json
    search = search
    u = u
    host = host
    ctype = ctype
    Methods = {get, post}
    ContentTypes = {json}
    NoType = NoType
    Params = {search, u}
    PlainParams = {search, u}
    Replaced = u
    Headers = {host, ctype}
    TypeHeader = ctype
    Handlers = {h1, h2, h3}
    Traffic <- TwoRequests
    None = None
    MaxCalls = 3
SPECIFICATION Spec
INVARIANT TypeOK
INVARIANT UnracedExact
INVARIANT NothingInvented
SYMMETRY HandlerSymmetry
CHECK_DEADLOCK FALSE
