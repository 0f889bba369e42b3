\* One limit (and one exempt) on one key, two callers racing for the mutex.
CONSTANTS
    Callers = {c1, c2}
    Keys = {k1}
    NoKey = NoKey
    Limits <- OneLimitAndNone
    Unit = 2
    MaxRps = 1
    MaxBurst = 2
    MaxClock = 4
SPECIFICATION Spec
INVARIANT TypeOK
INVARIANT OrderedClockWindows
PROPERTY ImplementsTokenBucket
