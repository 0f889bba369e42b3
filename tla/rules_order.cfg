\* A rule whose pattern may run over from one field of a body to the next.
CONSTANTS
    site = site
    other = other
    six = six
    pats = pats
    f1 = f1
    f2 = f2
    cert = cert
    HostNames = {site, other, six}
    Colons = {six}
    AnyHost = AnyHost
    NoRoute = NoRoute
    Addresses = {":8443", ":9095"}
    URLs = {"http://app"}
    Regexes <- WellFormed
    Unset = Unset
    Roomy = {f1, f2}
    LowerOf <- Upper
    Sensitive = {"authorization"}
    SecretKeys = {"password"}
    Credentials = {"token=x"}
    AhoAnswers <- Misled
    MaxLine = 3
    MaxFields = 2
    Commands <- RunOnly
    Sources <- OnlyRunning
    Paths = {pats, f1, f2, cert}
    Disks <- AsListed
    Contents <- LaterContents
    Requests <- AllRequests
    None = None
    MaxChanges = 0
SPECIFICATION Spec
CHECK_DEADLOCK FALSE
INVARIANT Deterministic
