\* Every command, sound and broken configurations, a file that changes meanwhile.
CONSTANTS
    site = site
    other = other
    six = six
    pats = pats
    f1 = f1
    f2 = f2
    cert = cert
    HostNames = {site, other, six}
    Colons = {six}
    AnyHost = AnyHost
    NoRoute = NoRoute
    Addresses = {":8443", ":9095"}
    URLs = {"http://app"}
    Regexes <- WellFormed
    Unset = Unset
    Roomy = {f1, f2}
    LowerOf <- Upper
    Sensitive = {"authorization"}
    SecretKeys = {"password"}
    Credentials = {"token=x"}
    AhoAnswers <- Misled
    MaxLine = 3
    MaxFields = 2
    Commands <- AllCommands
    Sources <- AllSources
    Paths = {pats, f1, f2, cert}
    Disks <- AllDisks
    Contents <- LaterContents
    Requests <- AllRequests
    None = None
    MaxChanges = 1
SPECIFICATION Spec
INVARIANT TypeOK
INVARIANT ValidatedStarts
INVARIANT ServingSound
INVARIANT RoutedRight
INVARIANT FoundHoweverWritten
INVARIANT PathClean
INVARIANT OrderBlind
INVARIANT SecretsUnseen
INVARIANT UnreadIrrelevant
CHECK_DEADLOCK FALSE
