\* Three runs, one handler, three routes of which two share a file.
CONSTANTS
    get = get
    post = post
    json = json
    search = search
    raw = raw
    u = u
    host = host
    ctype = ctype
    f1 = f1
    f2 = f2
    Methods = {get, post}
    ContentTypes = {json}
    NoType = NoType
    Params = {search, raw, u}
    PlainParams = {search, u}
    Replaced = u
    Headers = {host, ctype}
    TypeHeader = ctype
    NumRoutes = 3
    Paths = {f1, f2}
    PathOf <- SomeShared
    ModeOf <- ThreeModes
    MinSamples <- OneOfEach
    Level = "strict"
    Margin = 1
    Traffic <- PostedAndRaw
    Handlers = {h1}
    None = None
    Absent = Absent
    Torn = Torn
    MaxRuns = 3
    MaxAccepts = 1
SPECIFICATION Spec
INVARIANT TypeOK
INVARIANT SavedExactly
INVARIANT LearnedAdmitted
PROPERTY Stops
CHECK_DEADLOCK FALSE
