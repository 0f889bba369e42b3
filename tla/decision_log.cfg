\* Two handlers, three decisions, one report at a time.
CONSTANTS
    Handlers = {h1, h2}
    Rules = {1, 2}
    IPs = {1, 2}
    Entries <- AllEntries
    LongEntries <- OnlyAllowed
    Spans = {0, 1}
    None = None
    TopSize = 5
    MaxClock = 2
    MaxDecisions = 3
SYMMETRY Symmetry
SPECIFICATION Spec
INVARIANT TypeOK
INVARIANT SpoiledWithTorn
INVARIANT CountedOnce
INVARIANT SpansAll
INVARIANT FailsForCause
PROPERTY KeepsLines
CHECK_DEADLOCK FALSE
