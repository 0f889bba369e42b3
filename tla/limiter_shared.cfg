\* Two policies with different limits share one key; two callers.
CONSTANTS
    Callers = {c1, c2}
    Keys = {k1}
    NoKey = NoKey
    Limits <- TwoLimits
    Unit = 2
    MaxRps = 3
    MaxBurst = 2
    MaxClock = 4
SPECIFICATION Spec
INVARIANT SharedWindows
