\* One limit on one key; the bound in clock time.
CONSTANTS
    Callers = {c1, c2}
    Keys = {k1}
    NoKey = NoKey
    Limits <- OneLimit
    Unit = 2
    MaxRps = 1
    MaxBurst = 2
    MaxClock = 4
SPECIFICATION Spec
INVARIANT ClockWindows
